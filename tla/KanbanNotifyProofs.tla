------------------------- MODULE KanbanNotifyProofs -------------------------
(***************************************************************************)
(* The notification cursor keeps any number of gateways from sending an    *)
(* event twice, and from leaving one behind unsent, except where the code  *)
(* itself puts events back or lets go of them.                             *)
(***************************************************************************)
EXTENDS KanbanNotify, TLAPS

\* An event that was not put back is at one place at most: past the cursor, in
\* one gateway's hand, or sent.
AtOnePlace ==
    \A e \in Events \ again :
      /\ sent[e] < 2
      /\ sent[e] > 0 => e <= cursor /\ \A g \in Gateways : ~InHand(g, e)
      /\ \A g \in Gateways : InHand(g, e) => e <= cursor
      /\ \A g, h \in Gateways : InHand(g, e) /\ InHand(h, e) => g = h

\* The type invariant in three parts.
CountsOK ==
    /\ happened \in 0..MaxEvents /\ cursor \in 0..MaxEvents
    /\ completed \in BOOLEAN /\ subscribed \in BOOLEAN /\ dropped \in BOOLEAN
    /\ again \subseteq Events /\ lost \subseteq Events
    /\ deaths \in 0..MaxGatewayDeaths
ClaimsOK == claim \in [Gateways -> Batches]
TellsOK ==
    /\ fails \in [Gateways -> 0..(MaxSendFailures - 1)]
    /\ sent \in [Events -> 0..2]

NotifyInv == CountsOK /\ ClaimsOK /\ TellsOK /\ AtOnePlace

LEMMA NotifyBounds ==
    MaxEvents \in Nat /\ MaxGatewayDeaths \in Nat /\ MaxSendFailures \in Nat \ {0}
BY NotifyAssumption

LEMMA NotifyTypeParts == CountsOK /\ ClaimsOK /\ TellsOK => NotifyTypeOK
BY DEF NotifyTypeOK, CountsOK, ClaimsOK, TellsOK

LEMMA EmptyBatch == Empty \in Batches
BY NotifyBounds DEF Empty, Batches, Stages

LEMMA BatchFields ==
    ASSUME NEW b \in Batches
    PROVE  /\ b.at \in Stages /\ b.done \in BOOLEAN
           /\ b.old \in 0..MaxEvents /\ b.new \in 0..MaxEvents
           /\ b.next \in 1..(MaxEvents + 1)
BY DEF Batches

LEMMA UnsentEvents ==
    ASSUME NEW g \in Gateways, claim[g] \in Batches
    PROVE  Unsent(g) \subseteq Events
BY BatchFields, NotifyBounds DEF Unsent, Events

LEMMA NotifyInitInv == NotifyInit => NotifyInv
<1> SUFFICES ASSUME NotifyInit
             PROVE  NotifyInv
  OBVIOUS
<1>1. CountsOK
  <2>1. happened \in 0..MaxEvents /\ cursor \in 0..MaxEvents /\ deaths \in 0..MaxGatewayDeaths
    BY NotifyBounds DEF NotifyInit
  <2> QED BY <2>1 DEF NotifyInit, CountsOK
<1>2. ClaimsOK
  BY EmptyBatch DEF NotifyInit, ClaimsOK
<1>3. fails \in [Gateways -> 0..(MaxSendFailures - 1)]
  BY NotifyBounds DEF NotifyInit
<1>4. sent \in [Events -> 0..2]
  BY DEF NotifyInit
<1>5. \A g \in Gateways, e \in Events : ~InHand(g, e)
  BY DEF NotifyInit, InHand, Empty
<1>6. AtOnePlace
  BY <1>5 DEF NotifyInit, AtOnePlace
<1> QED BY <1>1, <1>2, <1>3, <1>4, <1>6 DEF NotifyInv, TellsOK

----------------------------------------------------------------------------
(* What each step does to the events in the gateways' hands.               *)

LEMMA HappensInv ==
    ASSUME NotifyInv, NEW done \in BOOLEAN, Happens(done)
    PROVE  NotifyInv'
<1>1. CountsOK'
  BY NotifyBounds DEF Happens, NotifyInv, CountsOK, tellVars, rowVars
<1>2. UNCHANGED <<claim, fails, sent, again, cursor>>
  BY DEF Happens, tellVars, rowVars
<1>3. ClaimsOK' /\ TellsOK' /\ AtOnePlace'
  BY <1>2 DEF NotifyInv, ClaimsOK, TellsOK, AtOnePlace, InHand, Unsent
<1> QED BY <1>1, <1>3 DEF NotifyInv

\* What is claimed was past the cursor, so with nobody.
LEMMA ClaimsInv ==
    ASSUME NotifyInv, NEW g \in Gateways, Claims(g)
    PROVE  NotifyInv'
<1> DEFINE batch == [at |-> "claimed", old |-> cursor, new |-> happened,
                     next |-> cursor + 1, done |-> FALSE]
<1>1. /\ claim[g].at = "idle" /\ cursor < happened
      /\ claim' = [claim EXCEPT ![g] = batch]
      /\ cursor' = happened
      /\ UNCHANGED <<happened, completed, subscribed, fails, sent, again, lost, dropped,
                     deaths>>
  BY NotifyBounds DEF Claims, Claimed, taskVars, tellVars, NotifyInv, CountsOK
<1>2. batch \in Batches
  BY NotifyBounds DEF Batches, Stages, NotifyInv, CountsOK
<1>3. CountsOK'
  BY <1>1 DEF NotifyInv, CountsOK
<1>4. ClaimsOK' /\ TellsOK'
  BY <1>1, <1>2 DEF NotifyInv, ClaimsOK, TellsOK
<1>5. ASSUME NEW h \in Gateways, NEW e \in Events
      PROVE  InHand(h, e)' => InHand(h, e) \/ (h = g /\ cursor < e /\ e <= happened)
  <2>1. CASE h = g
    <3>1. claim'[g] = batch
      BY <1>1 DEF NotifyInv, ClaimsOK
    <3>2. claim'[g].next = cursor + 1 /\ claim'[g].new = happened
      BY <3>1
    <3>3. InHand(h, e)' => e \in (cursor + 1)..happened
      BY <2>1, <3>2 DEF InHand, Unsent
    <3>4. e \in Nat /\ cursor \in Nat /\ happened \in Nat
      BY NotifyBounds DEF NotifyInv, CountsOK, Events
    <3> QED BY <2>1, <3>3, <3>4
  <2>2. CASE h # g
    BY <1>1, <2>2 DEF NotifyInv, ClaimsOK, InHand, Unsent
  <2> QED BY <2>1, <2>2
<1>6. AtOnePlace'
  BY <1>1, <1>5, NotifyBounds DEF NotifyInv, CountsOK, TellsOK, AtOnePlace, Events
<1> QED BY <1>3, <1>4, <1>6 DEF NotifyInv

\* A batch that only changes stage stays where it is.
LEMMA StageInv ==
    ASSUME NotifyInv, NEW g \in Gateways, NEW stage \in Stages \ {"idle"},
           claim[g].at # "idle", NEW b \in Batches,
           b.at = stage, b.next = claim[g].next, b.new = claim[g].new,
           claim' = [claim EXCEPT ![g] = b],
           fails' \in [Gateways -> 0..(MaxSendFailures - 1)],
           UNCHANGED <<happened, completed, subscribed, cursor, sent, again, lost, dropped,
                       deaths>>
    PROVE  NotifyInv'
<1>1. CountsOK' /\ ClaimsOK' /\ TellsOK'
  BY DEF NotifyInv, CountsOK, ClaimsOK, TellsOK
<1>2. ASSUME NEW h \in Gateways, NEW e \in Events
      PROVE  InHand(h, e)' <=> InHand(h, e)
  BY DEF NotifyInv, ClaimsOK, InHand, Unsent
<1>3. AtOnePlace'
  BY <1>2 DEF NotifyInv, AtOnePlace
<1> QED BY <1>1, <1>3 DEF NotifyInv

LEMMA ReadsStatusInv ==
    ASSUME NotifyInv, NEW g \in Gateways, ReadsStatus(g)
    PROVE  NotifyInv'
<1> DEFINE b == [claim[g] EXCEPT !.at = "sending", !.done = completed]
<1>1. /\ claim[g] \in Batches /\ completed \in BOOLEAN
      /\ fails \in [Gateways -> 0..(MaxSendFailures - 1)]
  BY DEF NotifyInv, ClaimsOK, CountsOK, TellsOK
<1>2. b \in Batches /\ b.at = "sending" /\ b.next = claim[g].next /\ b.new = claim[g].new
  BY <1>1 DEF Batches, Stages
<1>3. claim' = [claim EXCEPT ![g] = b] /\ claim[g].at # "idle"
  BY DEF ReadsStatus
<1>4. UNCHANGED <<happened, completed, subscribed, cursor, fails, sent, again, lost,
                  dropped, deaths>>
  BY DEF ReadsStatus, taskVars, rowVars, tellVars
<1> HIDE DEF b
<1> QED BY <1>1, <1>2, <1>3, <1>4, StageInv DEF Stages

LEMMA DisconnectedInv ==
    ASSUME NotifyInv, NEW g \in Gateways, Disconnected(g) \/ SendRaises(g)
    PROVE  NotifyInv'
<1>1. PICK stage \in {"rewinding", "dropping"} : claim' = [claim EXCEPT ![g].at = stage]
  BY DEF Disconnected, SendRaises, SendRaised, GatewayGoes
<1> DEFINE b == [claim[g] EXCEPT !.at = stage]
<1>2. claim[g] \in Batches /\ fails \in [Gateways -> 0..(MaxSendFailures - 1)]
  BY DEF NotifyInv, ClaimsOK, TellsOK
<1>3. b \in Batches /\ b.at = stage /\ b.next = claim[g].next /\ b.new = claim[g].new
  BY <1>2 DEF Batches, Stages
<1>4. claim' = [claim EXCEPT ![g] = b] /\ claim[g].at # "idle"
  BY <1>1 DEF Disconnected, SendRaises, SendRaised
<1>5. UNCHANGED <<happened, completed, subscribed, cursor, sent, again, lost, dropped,
                  deaths>>
  BY DEF Disconnected, SendRaises, SendRaised, taskVars, rowVars, tellVars
<1>6. fails' \in [Gateways -> 0..(MaxSendFailures - 1)]
  BY <1>2, NotifyBounds DEF Disconnected, SendRaises, SendRaised, TooManyFailures
<1> HIDE DEF b
<1> QED BY <1>3, <1>4, <1>5, <1>6, StageInv DEF Stages

\* What is sent was in this gateway's hand only, and is in no hand any more.
LEMMA SendsInv ==
    ASSUME NotifyInv, NEW g \in Gateways, NEW e \in Events, Sends(g, e)
    PROVE  NotifyInv'
<1> DEFINE b == [claim[g] EXCEPT !.next = e + 1]
<1>1. /\ claim[g].at = "sending" /\ e = claim[g].next /\ e <= claim[g].new
      /\ sent' = [sent EXCEPT ![e] = IF @ < 2 THEN @ + 1 ELSE @]
      /\ fails' = [fails EXCEPT ![g] = 0]
      /\ claim' = [claim EXCEPT ![g] = b]
      /\ UNCHANGED <<happened, completed, subscribed, cursor, again, lost, dropped, deaths>>
  BY DEF Sends, taskVars, rowVars, tellVars
<1>2. e + 1 \in 1..(MaxEvents + 1) /\ claim[g] \in Batches
  BY NotifyBounds DEF Events, NotifyInv, ClaimsOK
<1>3. b \in Batches /\ b.at = claim[g].at /\ b.next = e + 1 /\ b.new = claim[g].new
  BY <1>2 DEF Batches
<1> HIDE DEF b
<1>4. CountsOK' /\ ClaimsOK'
  BY <1>1, <1>3 DEF NotifyInv, CountsOK, ClaimsOK
<1>5. TellsOK'
  BY <1>1, NotifyBounds DEF NotifyInv, TellsOK
<1>6. InHand(g, e)
  BY <1>1, <1>2, BatchFields DEF InHand, Unsent, Events
<1>7. ASSUME NEW h \in Gateways, NEW x \in Events
      PROVE  InHand(h, x)' => InHand(h, x) /\ (h = g => x # e)
  <2>1. CASE h = g
    BY <1>1, <1>2, <1>3, <2>1, BatchFields DEF NotifyInv, ClaimsOK, InHand, Unsent, Events
  <2>2. CASE h # g
    BY <1>1, <2>2 DEF NotifyInv, ClaimsOK, InHand, Unsent
  <2> QED BY <2>1, <2>2
<1>8. ASSUME NEW x \in Events \ again
      PROVE  /\ sent'[x] < 2
             /\ sent'[x] > 0 => x <= cursor /\ \A h \in Gateways : ~InHand(h, x)'
  <2>1. CASE x = e
    BY <1>1, <1>6, <1>7, <2>1 DEF NotifyInv, AtOnePlace, TellsOK
  <2>2. CASE x # e
    BY <1>1, <1>7, <2>2 DEF NotifyInv, AtOnePlace, TellsOK
  <2> QED BY <2>1, <2>2
<1>9. AtOnePlace'
  BY <1>1, <1>7, <1>8 DEF NotifyInv, AtOnePlace
<1> QED BY <1>4, <1>5, <1>9 DEF NotifyInv

\* A gateway that lets its batch go, and leaves the cursor alone.
LEMMA LetsGoInv ==
    ASSUME NotifyInv, NEW g \in Gateways,
           claim' = [claim EXCEPT ![g] = Empty], CountsOK',
           fails' \in [Gateways -> 0..(MaxSendFailures - 1)],
           UNCHANGED <<cursor, sent, again>>
    PROVE  NotifyInv'
<1>1. ClaimsOK' /\ TellsOK'
  BY EmptyBatch DEF NotifyInv, ClaimsOK, TellsOK
<1>2. ASSUME NEW h \in Gateways, NEW e \in Events
      PROVE  InHand(h, e)' => InHand(h, e)
  BY DEF NotifyInv, ClaimsOK, InHand, Unsent, Empty
<1>3. AtOnePlace'
  BY <1>2 DEF NotifyInv, AtOnePlace
<1> QED BY <1>1, <1>3 DEF NotifyInv

LEMMA UnsubscribesInv ==
    ASSUME NotifyInv, NEW g \in Gateways, Unsubscribes(g) \/ GatewayDies(g)
    PROVE  NotifyInv'
<1>1. claim[g] \in Batches /\ fails \in [Gateways -> 0..(MaxSendFailures - 1)]
  BY DEF NotifyInv, ClaimsOK, TellsOK
<1>2. CountsOK'
  <2>1. Unsent(g) \subseteq Events
    BY <1>1, UnsentEvents
  <2>2. (claim[g].new + 1)..happened \subseteq Events
    BY <1>1, BatchFields, NotifyBounds DEF NotifyInv, CountsOK, Events
  <2>3. deaths' \in 0..MaxGatewayDeaths
    BY NotifyBounds DEF NotifyInv, CountsOK, Unsubscribes, GatewayDies
  <2>4. lost' \subseteq Events
    BY <2>1, <2>2 DEF NotifyInv, CountsOK, Unsubscribes, GatewayDies
  <2> QED BY <2>3, <2>4 DEF NotifyInv, CountsOK, Unsubscribes, GatewayDies, taskVars, rowVars
<1>3. fails' \in [Gateways -> 0..(MaxSendFailures - 1)]
  BY <1>1, NotifyBounds DEF Unsubscribes, GatewayDies
<1>4. claim' = [claim EXCEPT ![g] = Empty] /\ UNCHANGED <<cursor, sent, again>>
  BY DEF Unsubscribes, GatewayDies, Done, rowVars
<1> QED BY <1>2, <1>3, <1>4, LetsGoInv

\* What the cursor goes back over was sent by this gateway, or is with nobody.
LEMMA RewindsInv ==
    ASSUME NotifyInv, NEW g \in Gateways, Rewinds(g)
    PROVE  NotifyInv'
<1>1. /\ claim[g] \in Batches /\ claim[g].at # "idle"
      /\ claim' = [claim EXCEPT ![g] = Empty]
      /\ UNCHANGED <<happened, completed, subscribed, fails, sent, dropped, deaths>>
  BY DEF Rewinds, Done, taskVars, NotifyInv, ClaimsOK
<1>2. fails' \in [Gateways -> 0..(MaxSendFailures - 1)]
  BY <1>1 DEF NotifyInv, TellsOK
<1>3. CASE subscribed /\ cursor = claim[g].new
  <2>1. /\ cursor' = claim[g].old /\ lost' = lost
        /\ again' = again \union (claim[g].old + 1)..(claim[g].next - 1)
    BY <1>3 DEF Rewinds
  <2>2. /\ claim[g].old \in 0..MaxEvents /\ claim[g].new \in 0..MaxEvents
        /\ claim[g].next \in 1..(MaxEvents + 1)
    BY <1>1, BatchFields
  <2>3. CountsOK'
    <3>1. (claim[g].old + 1)..(claim[g].next - 1) \subseteq Events
      BY <2>2, NotifyBounds DEF Events
    <3> QED BY <1>1, <2>1, <2>2, <3>1 DEF NotifyInv, CountsOK
  <2>4. ClaimsOK' /\ TellsOK'
    BY <1>1, EmptyBatch DEF NotifyInv, ClaimsOK, TellsOK
  <2>5. ASSUME NEW h \in Gateways, NEW e \in Events
        PROVE  InHand(h, e)' => InHand(h, e) /\ h # g
    BY <1>1 DEF NotifyInv, ClaimsOK, InHand, Unsent, Empty
  <2>6. ASSUME NEW e \in Events \ again', e <= cursor, ~InHand(g, e)
        PROVE  e <= cursor'
    BY <1>1, <1>3, <2>1, <2>2, <2>6 DEF InHand, Unsent, Events
  <2>7. AtOnePlace'
    BY <1>1, <2>1, <2>5, <2>6 DEF NotifyInv, AtOnePlace
  <2> QED BY <2>3, <2>4, <2>7 DEF NotifyInv
<1>4. CASE ~(subscribed /\ cursor = claim[g].new)
  <2>1. lost' = lost \union Unsent(g) /\ UNCHANGED <<cursor, again>>
    BY <1>4 DEF Rewinds
  <2>2. CountsOK'
    <3>1. Unsent(g) \subseteq Events
      BY <1>1, UnsentEvents
    <3> QED BY <1>1, <2>1, <3>1 DEF NotifyInv, CountsOK
  <2> QED BY <1>1, <1>2, <2>1, <2>2, LetsGoInv
<1> QED BY <1>3, <1>4

\* Its hand is empty by now; what the cursor goes back over is put back.
LEMMA AdvancesInv ==
    ASSUME NotifyInv, NEW g \in Gateways, AdvancesCursor(g)
    PROVE  NotifyInv'
<1>1. PICK b \in {Empty, [claim[g] EXCEPT !.at = "leaving"]} :
        claim' = [claim EXCEPT ![g] = b]
  BY DEF AdvancesCursor, Delivered, GatewayGoes, Done
<1>2. claim[g] \in Batches /\ claim[g].next > claim[g].new
  BY DEF AdvancesCursor, Delivered, NotifyInv, ClaimsOK
<1>3. /\ b \in Batches
      /\ b.at # "idle" => b.next = claim[g].next /\ b.new = claim[g].new
  <2>1. CASE b = Empty
    BY <2>1, EmptyBatch DEF Empty
  <2>2. CASE b = [claim[g] EXCEPT !.at = "leaving"]
    BY <1>2, <2>2 DEF Batches, Stages
  <2> QED BY <1>1, <2>1, <2>2
<1>4. /\ cursor' \in {claim[g].new, cursor}
      /\ again' = again \union (cursor' + 1)..cursor
      /\ UNCHANGED <<happened, completed, subscribed, fails, sent, lost, dropped, deaths>>
  BY DEF AdvancesCursor, Delivered, taskVars
<1>5. cursor' \in 0..MaxEvents
  BY <1>2, <1>4, BatchFields DEF NotifyInv, CountsOK
<1>6. CountsOK'
  BY <1>4, <1>5, NotifyBounds DEF NotifyInv, CountsOK, Events
<1>7. ClaimsOK' /\ TellsOK'
  BY <1>1, <1>3, <1>4 DEF NotifyInv, ClaimsOK, TellsOK
<1>8. ASSUME NEW h \in Gateways, NEW e \in Events
      PROVE  InHand(h, e)' => InHand(h, e)
  <2>1. CASE h = g
    BY <1>1, <1>2, <1>3, <2>1, BatchFields DEF NotifyInv, ClaimsOK, InHand, Unsent, Events
  <2>2. CASE h # g
    BY <1>1, <2>2 DEF NotifyInv, ClaimsOK, InHand, Unsent
  <2> QED BY <2>1, <2>2
<1>9. ASSUME NEW e \in Events \ again', e <= cursor
      PROVE  e <= cursor'
  BY <1>4, <1>5, <1>9 DEF NotifyInv, CountsOK, Events
<1>10. AtOnePlace'
  BY <1>4, <1>8, <1>9 DEF NotifyInv, AtOnePlace
<1> QED BY <1>6, <1>7, <1>10 DEF NotifyInv

LEMMA NotifyInvStep ==
    ASSUME NotifyInv, [NotifyNext]_notifyVars
    PROVE  NotifyInv'
<1>1. CASE UNCHANGED notifyVars
  BY <1>1 DEF notifyVars, NotifyInv, CountsOK, ClaimsOK, TellsOK, AtOnePlace, InHand, Unsent
<1>2. CASE NotifyNext
  BY <1>2, HappensInv, ClaimsInv, ReadsStatusInv, DisconnectedInv, SendsInv, RewindsInv,
     AdvancesInv, UnsubscribesInv DEF NotifyNext, GatewaySteps
<1> QED BY <1>1, <1>2

LEMMA NotifyAlwaysInv == NotifySpec => []NotifyInv
<1>1. NotifyInit => NotifyInv
  BY NotifyInitInv
<1>2. NotifyInv /\ [NotifyNext]_notifyVars => NotifyInv'
  BY NotifyInvStep
<1> QED BY <1>1, <1>2, PTL DEF NotifySpec

----------------------------------------------------------------------------
\* An event is handed to the adapter twice only after it was put back, by a batch
\* that failed half-way or by an advance_notify_cursor that came late.
THEOREM SentOnceTheorem == NotifySpec => []SentOnce
<1>1. NotifyInv => SentOnce
  BY DEF NotifyInv, TellsOK, AtOnePlace, SentOnce
<1> QED BY <1>1, NotifyAlwaysInv, PTL

----------------------------------------------------------------------------
(* No event is skipped.  A cursor that is put back and advanced out of turn may *)
(* pass an event, but only one that a gateway has in hand, and that gateway      *)
(* cannot put it back for others to find behind the cursor: whoever stands past  *)
(* it leads the cursor away from where that would be allowed.                    *)

\* A gateway that has yet to deliver a batch, or to give it back.
Holding(g) == claim[g].at \in {"claimed", "sending", "rewinding", "dropping"}

\* A batch ends with what had happened, and begins with what has been sent of it.
InOrder ==
    subscribed =>
      /\ cursor <= happened
      /\ \A g \in Gateways : Holding(g) =>
           /\ claim[g].old < claim[g].new /\ claim[g].new <= happened
           /\ claim[g].old < claim[g].next
           /\ \A e \in Events : claim[g].old < e /\ e < claim[g].next => sent[e] > 0
      /\ \A g \in Gateways : claim[g].at = "leaving" => claim[g].next > claim[g].new

Pending(e) == e <= happened /\ sent[e] = 0 /\ e \notin lost
Passed(e) == cursor >= e \/ \E g \in Gateways : Holding(g) /\ claim[g].old >= e

\* A gateway stands past e and before m.
Between(g, e, m) == Holding(g) /\ claim[g].old >= e /\ claim[g].old < m

\* The batch of h holds e, and those of the gateways that stand past e begin where
\* it ends or later.  Those that begin before m follow on one another up to m, and
\* either the cursor is at m, from where they can put it back one by one, or it is
\* not between e and m and no one can put it there.
Kept(e, h, m) ==
    /\ Holding(h) /\ InHand(h, e) /\ claim[h].new <= m /\ m <= happened
    /\ \A g \in Gateways :
         /\ Holding(g) /\ claim[g].old >= e => claim[g].old >= claim[h].new
         /\ Between(g, e, m) => claim[g].new <= m
    /\ \A g1, g2 \in Gateways :
         g1 # g2 /\ Between(g1, e, m) /\ Between(g2, e, m) =>
           claim[g1].new <= claim[g2].old \/ claim[g2].new <= claim[g1].old
    /\ \/ cursor = m /\ \A g \in Gateways : Holding(g) => claim[g].old < m
       \/ /\ cursor < e \/ cursor > m
          /\ \A g \in Gateways : Holding(g) => claim[g].old # m

PassedInHand ==
    subscribed =>
      \A e \in Events : Pending(e) /\ Passed(e) =>
        \E h \in Gateways, m \in Events : Kept(e, h, m)

SkipInv == NotifyInv /\ InOrder /\ PassedInHand

LEMMA ClaimFields ==
    ASSUME NotifyInv, NEW g \in Gateways
    PROVE  /\ claim[g].old \in Int /\ claim[g].new \in Int /\ claim[g].next \in Int
           /\ claim[g].at \in Stages
           /\ cursor \in Int /\ happened \in Int
           /\ \A e \in Events : e \in Int /\ sent[e] \in Int
<1>1. MaxEvents \in Nat /\ claim[g] \in Batches
  BY NotifyBounds DEF NotifyInv, ClaimsOK
<1> QED BY <1>1, BatchFields DEF NotifyInv, CountsOK, TellsOK, Events

LEMMA SkipInitInv == NotifyInit => InOrder /\ PassedInHand
<1> SUFFICES ASSUME NotifyInit PROVE InOrder /\ PassedInHand
  OBVIOUS
<1>1. \A g \in Gateways : ~Holding(g) /\ claim[g].at # "leaving"
  BY DEF NotifyInit, Empty, Holding
<1>2. cursor = 0 /\ happened = 0
  BY DEF NotifyInit
<1>3. \A e \in Events : ~Passed(e)
  BY <1>1, <1>2, NotifyBounds DEF Passed, Events
<1> QED BY <1>1, <1>2, <1>3 DEF InOrder, PassedInHand

\* A step in which no gateway takes or leaves a batch, and no cursor moves.
LEMMA StandStill ==
    ASSUME SkipInv, subscribed, cursor' = cursor, happened' \in Int, happened' >= happened,
           \A g \in Gateways : /\ Holding(g)' <=> Holding(g)
                               /\ claim'[g].old = claim[g].old /\ claim'[g].new = claim[g].new,
           \A e \in Events : Pending(e)' => Pending(e) \/ ~Passed(e),
           \A e \in Events, g \in Gateways :
              Pending(e)' /\ Holding(g) /\ InHand(g, e) => InHand(g, e)'
    PROVE  PassedInHand'
<1> SUFFICES ASSUME NEW e \in Events, Pending(e)', Passed(e)'
             PROVE  \E h \in Gateways, m \in Events : Kept(e, h, m)'
  BY DEF PassedInHand
<1>1. Passed(e) /\ Pending(e)
  BY DEF Passed
<1>2. PICK h \in Gateways, m \in Events : Kept(e, h, m)
  BY <1>1 DEF SkipInv, PassedInHand
<1>3. m <= happened'
  <2>1. happened \in Int /\ m \in Int
    BY NotifyBounds DEF SkipInv, NotifyInv, CountsOK, Events
  <2> QED BY <1>2, <2>1 DEF Kept
<1>4. Kept(e, h, m)'
  BY <1>2, <1>3 DEF Kept, Between
<1> QED BY <1>4

\* A gateway leaves a batch in which e is not pending: dies, or has its rewind
\* refused, or has delivered it and sets the cursor to its end.
LEMMA Leaves ==
    ASSUME SkipInv, subscribed, NEW z \in Gateways, Holding(z),
           \A g \in Gateways : Holding(g)' <=> Holding(g) /\ g # z,
           \A g \in Gateways : g # z => claim'[g] = claim[g],
           \A e \in Events : Pending(e)' => Pending(e) /\ ~InHand(z, e),
           cursor' = cursor \/ cursor' = claim[z].new, happened' = happened
    PROVE  PassedInHand'
<1> SUFFICES ASSUME NEW e \in Events, Pending(e)', Passed(e)'
             PROVE  \E h \in Gateways, n \in Events : Kept(e, h, n)'
  BY DEF PassedInHand
<1>0. /\ Pending(e) /\ ~InHand(z, e) /\ e \in Int
      /\ claim[z].old < claim[z].new /\ claim[z].new <= happened /\ happened \in 0..MaxEvents
      /\ cursor \in Int /\ MaxEvents \in Nat
      /\ \A g \in Gateways : claim[g].old \in Int /\ claim[g].new \in Int /\ claim[g].next \in Int
  BY ClaimFields, NotifyBounds DEF SkipInv, NotifyInv, CountsOK, InOrder
<1>1. claim[z].new >= e => claim[z].old >= e
  <2>1. \A d \in Events : claim[z].old < d /\ d < claim[z].next => sent[d] > 0
    BY DEF SkipInv, InOrder
  <2> QED BY <1>0, <2>1 DEF InHand, Unsent, Holding, Pending
<1>2. Passed(e)
  BY <1>0, <1>1 DEF Passed
<1>3. PICK h \in Gateways, m \in Events : Kept(e, h, m)
  BY <1>0, <1>2 DEF SkipInv, PassedInHand
<1>4. h # z /\ claim'[h] = claim[h] /\ Holding(h)' /\ InHand(h, e)'
  BY <1>0, <1>3 DEF Kept, InHand, Unsent
<1>5. CASE cursor' = cursor
  <2>1. Kept(e, h, m)'
    BY <1>3, <1>4, <1>5 DEF Kept, Between
  <2> QED BY <2>1
<1>6. CASE cursor' = claim[z].new /\ (claim[z].new < e \/ claim[z].new > m)
  <2>1. Kept(e, h, m)'
    BY <1>0, <1>3, <1>4, <1>6 DEF Kept, Between
  <2> QED BY <2>1
<1>7. CASE cursor' = claim[z].new /\ claim[z].new >= e /\ claim[z].new <= m
  <2>1. Between(z, e, m)
    BY <1>0, <1>1, <1>3, <1>7 DEF Between, Kept, Events
  <2>2. PICK k \in Events : k = claim[z].old
    BY <1>0, <1>1, <1>7 DEF Events
  <2>3. Kept(e, h, k)'
    <3>1. claim[h].new <= k /\ k < m /\ k < claim[z].new
      BY <1>0, <1>1, <1>3, <1>7, <2>1, <2>2 DEF Kept, Between
    <3>2. ASSUME NEW g \in Gateways, g # z, Between(g, e, m)
          PROVE  claim[g].new <= k \/ claim[z].new <= claim[g].old
      BY <1>3, <2>1, <2>2, <3>2 DEF Kept
    <3>3. ASSUME NEW g \in Gateways, g # z, Holding(g), claim[g].old >= e
          PROVE  /\ claim[g].old # k /\ claim[g].old >= claim[h].new
                 /\ claim[g].old < k => claim[g].new <= k
      <4>1. claim[g].old >= claim[h].new /\ claim[g].old < claim[g].new
        BY <1>3, <3>3 DEF Kept, SkipInv, InOrder
      <4>2. claim[g].old < m => Between(g, e, m)
        BY <3>3 DEF Between
      <4> QED BY <1>0, <3>1, <3>2, <3>3, <4>1, <4>2, ClaimFields DEF Events, SkipInv
    <3>4. ASSUME NEW g \in Gateways, Holding(g)'
          PROVE  /\ Holding(g) /\ g # z /\ claim'[g] = claim[g]
                 /\ Between(g, e, k)' => Between(g, e, m) /\ claim[g].new <= k
                 /\ claim[g].old >= e => claim[g].old >= claim[h].new
                 /\ claim[g].old # k
      <4>1. Holding(g) /\ g # z /\ claim'[g] = claim[g]
        BY <3>4
      <4>2. Between(g, e, k)' => claim[g].old >= e /\ claim[g].old < k
        BY <4>1 DEF Between
      <4>3. claim[g].old < k => claim[g].old < m
        BY <1>0, <3>1 DEF Events
      <4>4. k >= e
        BY <1>0, <1>1, <1>7, <2>2
      <4>5. claim[g].old # k
        BY <1>0, <3>3, <4>1, <4>4
      <4> QED BY <3>3, <4>1, <4>2, <4>3, <4>5 DEF Between
    <3>5. cursor' > k
      BY <1>0, <1>7, <3>1 DEF Events
    <3>6. \A g1, g2 \in Gateways :
             g1 # g2 /\ Between(g1, e, k)' /\ Between(g2, e, k)' =>
               claim'[g1].new <= claim'[g2].old \/ claim'[g2].new <= claim'[g1].old
      BY <1>3, <3>4 DEF Kept, Between
    <3>7. \A g \in Gateways :
             /\ Holding(g)' /\ claim'[g].old >= e => claim'[g].old >= claim'[h].new
             /\ Between(g, e, k)' => claim'[g].new <= k
             /\ Holding(g)' => claim'[g].old # k
      BY <1>4, <3>4 DEF Between
    <3>8. k <= happened'
      BY <1>0, <2>2
    <3> QED BY <1>4, <3>1, <3>5, <3>6, <3>7, <3>8 DEF Kept
  <2> QED BY <2>3
<1> QED BY <1>5, <1>6, <1>7, <1>0 DEF Events


\* A gateway puts the cursor back to where its batch began.
LEMMA PutsBack ==
    ASSUME SkipInv, subscribed, NEW z \in Gateways, Holding(z),
           \A g \in Gateways : Holding(g)' <=> Holding(g) /\ g # z,
           \A g \in Gateways : g # z => claim'[g] = claim[g],
           \A e \in Events : Pending(e)' => Pending(e),
           cursor = claim[z].new, cursor' = claim[z].old, happened' = happened
    PROVE  PassedInHand'
<1> SUFFICES ASSUME NEW e \in Events, Pending(e)', Passed(e)'
             PROVE  \E h \in Gateways, n \in Events : Kept(e, h, n)'
  BY DEF PassedInHand
<1>0. /\ Pending(e) /\ e \in Int /\ claim[z].old < claim[z].new
      /\ cursor \in Int /\ MaxEvents \in Nat /\ claim[z].new <= MaxEvents
      /\ \A g \in Gateways : claim[g].old \in Int /\ claim[g].new \in Int /\ claim[g].next \in Int
  <2>1. cursor \in 0..MaxEvents
    BY DEF SkipInv, NotifyInv, CountsOK
  <2> QED BY <2>1, ClaimFields, NotifyBounds DEF SkipInv, InOrder
<1>1. Passed(e)
  BY <1>0 DEF Passed
<1>2. PICK h \in Gateways, m \in Events : Kept(e, h, m)
  BY <1>0, <1>1 DEF SkipInv, PassedInHand
<1>3. /\ claim[h].new \in Int /\ m \in Int /\ claim[h].new >= e /\ claim[h].new <= m
      /\ claim[h].old < e
  <2>1. \A d \in Events : claim[h].old < d /\ d < claim[h].next => sent[d] > 0
    BY <1>2 DEF SkipInv, InOrder, Kept
  <2>2. e >= claim[h].next /\ e <= claim[h].new /\ claim[h].old < claim[h].next
    BY <1>0, <1>2 DEF Kept, InHand, Unsent, SkipInv, InOrder
  <2> QED BY <1>0, <1>2, <2>2, NotifyBounds DEF Kept, Events
<1>4. h # z
  <2> SUFFICES ASSUME h = z PROVE FALSE
    OBVIOUS
  <2>1. cursor = m /\ \A g \in Gateways : Holding(g) => claim[g].old < m
    BY <1>0, <1>2, <1>3 DEF Kept
  <2>2. PICK g \in Gateways : Holding(g) /\ g # z /\ claim[g].old >= e
    BY <1>0, <1>3 DEF Passed
  <2> QED BY <1>0, <1>2, <1>3, <2>1, <2>2 DEF Kept
<1>5. claim'[h] = claim[h] /\ Holding(h)' /\ InHand(h, e)'
  BY <1>2, <1>4 DEF Kept, InHand, Unsent
<1>6. CASE claim[z].old < e \/ claim[z].old > m
  <2>1. cursor' < e \/ cursor' > m
    BY <1>6
  <2>2. \A g \in Gateways : Holding(g)' => claim[g].old # m
    BY <1>0, <1>2, <1>3 DEF Kept
  <2>3. Kept(e, h, m)'
    BY <1>2, <1>5, <2>1, <2>2 DEF Kept, Between
  <2> QED BY <2>3
<1>7. CASE claim[z].old >= e /\ claim[z].old <= m
  <2>1. cursor = m /\ (\A g \in Gateways : Holding(g) => claim[g].old < m) /\ Between(z, e, m)
    BY <1>0, <1>2, <1>3, <1>7 DEF Kept, Between
  <2>2. PICK k \in Events : k = claim[z].old
    BY <1>0, <1>7 DEF Events
  <2>3. claim[h].new <= k /\ k < m /\ k >= e
    BY <1>0, <1>2, <1>7, <2>1, <2>2 DEF Kept, Between
  <2>4. ASSUME NEW g \in Gateways, g # z, Holding(g), claim[g].old >= e
        PROVE  /\ Between(g, e, m) /\ claim[g].old >= claim[h].new
               /\ claim[g].new <= k /\ claim[g].old < k
    <3>1. Between(g, e, m)
      BY <2>1, <2>4 DEF Between
    <3>2. claim[g].new <= k \/ claim[z].new <= claim[g].old
      BY <1>2, <2>1, <2>2, <2>4, <3>1 DEF Kept
    <3>3. claim[g].old < claim[g].new /\ claim[g].old < m
      BY <2>1, <2>4 DEF SkipInv, InOrder
    <3>4. claim[g].old >= claim[h].new
      BY <1>2, <2>4 DEF Kept
    <3> QED BY <1>0, <1>3, <2>1, <2>2, <2>3, <3>1, <3>2, <3>3, <3>4
  <2>5. \A g \in Gateways :
           /\ Holding(g)' /\ claim'[g].old >= e => claim'[g].old >= claim'[h].new
           /\ Between(g, e, k)' => Between(g, e, m) /\ claim'[g].new <= k
           /\ Holding(g)' => claim'[g].old < k
    BY <1>0, <1>5, <2>3, <2>4 DEF Between
  <2>6. cursor' = k
    BY <2>2
  <2>7. \A g1, g2 \in Gateways :
           g1 # g2 /\ Between(g1, e, k)' /\ Between(g2, e, k)' =>
             claim'[g1].new <= claim'[g2].old \/ claim'[g2].new <= claim'[g1].old
    BY <1>2, <2>5 DEF Kept, Between
  <2>8. k <= happened'
    BY <1>0, <1>2, <1>3, <2>3, ClaimFields DEF Kept, SkipInv, Events
  <2>9. Kept(e, h, k)'
    BY <1>5, <2>3, <2>5, <2>6, <2>7, <2>8 DEF Kept
  <2> QED BY <2>9
<1> QED BY <1>0, <1>3, <1>6, <1>7

\* A gateway claims what is past the cursor.
LEMMA TakesUp ==
    ASSUME SkipInv, subscribed, NEW x \in Gateways, ~Holding(x), Holding(x)',
           \A g \in Gateways : g # x => claim'[g] = claim[g],
           \A e \in Events : Pending(e)' => Pending(e),
           claim'[x].old = cursor, claim'[x].new = happened, claim'[x].next = cursor + 1,
           cursor < happened, cursor' = happened, happened' = happened
    PROVE  PassedInHand'
<1> SUFFICES ASSUME NEW e \in Events, Pending(e)', Passed(e)'
             PROVE  \E h \in Gateways, n \in Events : Kept(e, h, n)'
  BY DEF PassedInHand
<1>0. /\ Pending(e) /\ e \in Int /\ e <= happened
      /\ cursor \in Int /\ happened \in Events /\ happened \in Int
      /\ \A g \in Gateways : claim[g].old \in Int /\ claim[g].new \in Int /\ claim[g].next \in Int
      /\ \A g \in Gateways : Holding(g) => claim[g].old < claim[g].new /\ claim[g].new <= happened
  <2>1. cursor \in 0..MaxEvents /\ happened \in 0..MaxEvents /\ MaxEvents \in Nat
    BY NotifyBounds DEF SkipInv, NotifyInv, CountsOK
  <2> QED BY <2>1, ClaimFields DEF SkipInv, InOrder, Pending, Events
<1>1. \A g \in Gateways : /\ Holding(g)' <=> Holding(g) \/ g = x
                          /\ Holding(g) => g # x /\ claim'[g] = claim[g]
  BY DEF Holding
<1>2. CASE ~Passed(e)
  <2>1. cursor < e /\ \A g \in Gateways : Holding(g) => claim[g].old < e
    BY <1>0, <1>2 DEF Passed
  <2>2. \A g \in Gateways : ~Between(g, e, happened)' /\ (Holding(g)' => claim'[g].old < e)
    BY <1>0, <1>1, <2>1 DEF Between
  <2>3. PICK m \in Events : m = happened
    BY <1>0
  <2>4. InHand(x, e)'
    BY <1>0, <2>1 DEF InHand, Unsent, Holding
  <2>5. Kept(e, x, m)'
    <3>1. \A g \in Gateways : Holding(g)' => claim'[g].old < e /\ claim'[g].old \in Int
      BY <1>0, <1>1, <2>2
    <3> QED BY <1>0, <2>3, <2>4, <3>1 DEF Kept, Between
  <2> QED BY <2>5
<1>3. CASE Passed(e)
  <2>1. PICK h \in Gateways, m \in Events : Kept(e, h, m)
    BY <1>0, <1>3 DEF SkipInv, PassedInHand
  <2>2. h # x /\ claim'[h] = claim[h] /\ Holding(h)' /\ InHand(h, e)'
    BY <1>1, <2>1 DEF Kept, InHand, Unsent
  <2>3. m \in Int /\ claim[h].new <= m /\ claim[h].new >= e /\ m <= happened
    BY <1>0, <2>1, NotifyBounds DEF Kept, Events, InHand, Unsent
  <2>4. CASE cursor = m /\ \A g \in Gateways : Holding(g) => claim[g].old < m
    <3>1. PICK n \in Events : n = happened
      BY <1>0
    <3>2. \A g \in Gateways : Between(g, e, n)' => Between(g, e, m) \/ g = x
      BY <1>1, <2>4 DEF Between
    <3>3. \A g \in Gateways : Between(g, e, m) => claim[g].new <= m
      BY <2>1 DEF Kept
    <3>4. \A g \in Gateways :
             /\ Holding(g)' => claim'[g].old < n
             /\ Holding(g)' /\ claim'[g].old >= e => claim'[g].old >= claim'[h].new
             /\ Between(g, e, n)' => claim'[g].new <= n
      <4>1. ASSUME NEW g \in Gateways, Holding(g)', g # x
            PROVE  /\ claim'[g].old < n
                   /\ claim'[g].old >= e => claim'[g].old >= claim'[h].new
                   /\ claim'[g].new <= n
        BY <1>0, <1>1, <2>1, <2>2, <3>1, <4>1 DEF Kept
      <4> QED BY <1>0, <2>2, <2>3, <2>4, <3>1, <4>1 DEF Between
    <3>5. \A g1, g2 \in Gateways :
             g1 # g2 /\ Between(g1, e, n)' /\ Between(g2, e, n)' =>
               claim'[g1].new <= claim'[g2].old \/ claim'[g2].new <= claim'[g1].old
      <4>1. ASSUME NEW g \in Gateways, Between(g, e, m)
            PROVE  claim'[g] = claim[g] /\ claim'[g].new <= claim'[x].old
        BY <1>1, <2>4, <3>3, <4>1 DEF Between
      <4>2. ASSUME NEW g1 \in Gateways, NEW g2 \in Gateways, g1 # g2,
                   Between(g1, e, n)', Between(g2, e, n)'
            PROVE  claim'[g1].new <= claim'[g2].old \/ claim'[g2].new <= claim'[g1].old
        <5>1. CASE g1 = x \/ g2 = x
          BY <3>2, <4>1, <4>2, <5>1
        <5>2. CASE g1 # x /\ g2 # x
          BY <2>1, <3>2, <4>1, <4>2, <5>2 DEF Kept
        <5> QED BY <5>1, <5>2
      <4> QED BY <4>2
    <3>6. claim'[h].new <= n /\ cursor' = n /\ n <= happened'
      BY <1>0, <2>2, <2>3, <2>4, <3>1
    <3>7. Kept(e, h, n)'
      BY <2>2, <3>4, <3>5, <3>6 DEF Kept
    <3> QED BY <3>7
  <2>5. CASE (cursor < e \/ cursor > m) /\ \A g \in Gateways : Holding(g) => claim[g].old # m
    <3>1. ~Between(x, e, m)' /\ claim'[x].old # m
      BY <1>0, <2>3, <2>5, NotifyBounds DEF Between, Events
    <3>2. \A g \in Gateways : Between(g, e, m)' => Between(g, e, m) /\ claim'[g] = claim[g]
      BY <1>1, <3>1 DEF Between
    <3>3. claim'[x].old >= e => claim'[x].old >= claim'[h].new
      BY <1>0, <2>2, <2>3, <2>5
    <3>4. \A g \in Gateways : Holding(g)' => claim'[g].old # m
      BY <1>1, <2>5, <3>1
    <3>5. \/ cursor' = m /\ \A g \in Gateways : Holding(g)' => claim'[g].old < m
          \/ (cursor' < e \/ cursor' > m)
      <4>1. \A g \in Gateways : Holding(g)' => claim'[g].old < happened
        BY <1>0, <1>1
      <4> QED BY <1>0, <2>3, <4>1
    <3>6. \A g \in Gateways :
             /\ Holding(g)' /\ claim'[g].old >= e => claim'[g].old >= claim'[h].new
             /\ Between(g, e, m)' => claim'[g].new <= m
      BY <1>1, <2>1, <2>2, <3>2, <3>3 DEF Kept
    <3>7. \A g1, g2 \in Gateways :
             g1 # g2 /\ Between(g1, e, m)' /\ Between(g2, e, m)' =>
               claim'[g1].new <= claim'[g2].old \/ claim'[g2].new <= claim'[g1].old
      BY <2>1, <3>2 DEF Kept
    <3>8. claim'[h].new <= m /\ m <= happened'
      BY <2>2, <2>3
    <3>9. Kept(e, h, m)'
      BY <2>2, <3>4, <3>5, <3>6, <3>7, <3>8 DEF Kept
    <3> QED BY <3>9
  <2> QED BY <2>1, <2>4, <2>5 DEF Kept
<1> QED BY <1>2, <1>3


\* What happens is past every cursor.
LEMMA HappensSkip ==
    ASSUME SkipInv, NEW done \in BOOLEAN, Happens(done), subscribed
    PROVE  InOrder' /\ PassedInHand'
<1>1. /\ happened' = happened + 1
      /\ UNCHANGED <<subscribed, cursor, claim, sent, lost>>
  BY DEF Happens, rowVars, tellVars
<1>2. /\ cursor <= happened /\ cursor \in Int /\ happened \in Int
      /\ \A g \in Gateways : claim[g].old \in Int /\ claim[g].new \in Int
      /\ \A g \in Gateways : Holding(g) => claim[g].old < claim[g].new /\ claim[g].new <= happened
  <2>1. cursor \in 0..MaxEvents /\ happened \in 0..MaxEvents
    BY DEF SkipInv, NotifyInv, CountsOK
  <2> QED BY <2>1, ClaimFields DEF SkipInv, InOrder
<1>3. InOrder'
  BY <1>1, <1>2 DEF SkipInv, InOrder, Holding
<1>4. ASSUME NEW e \in Events, Pending(e)', Passed(e)
      PROVE  Pending(e)
  <2>1. e <= happened
    BY <1>2, <1>4, NotifyBounds DEF Passed, Events
  <2> QED BY <1>1, <1>4, <2>1 DEF Pending
<1>5. PassedInHand'
  <2>1. happened' \in Int /\ happened' >= happened
    BY <1>1, <1>2
  <2>2. \A g \in Gateways : (Holding(g)' <=> Holding(g)) /\ claim'[g] = claim[g]
    BY <1>1 DEF Holding
  <2>3. \A e \in Events, g \in Gateways : InHand(g, e) => InHand(g, e)'
    BY <1>1 DEF InHand, Unsent
  <2> QED BY <1>1, <1>4, <2>1, <2>2, <2>3, StandStill
<1> QED BY <1>3, <1>5

\* A batch that goes on where it is, having sent up to its next event.
LEMMA GoesOnSkip ==
    ASSUME SkipInv, subscribed, NEW g \in Gateways, NEW b \in Batches,
           Holding(g), claim' = [claim EXCEPT ![g] = b],
           b.at \in {"claimed", "sending", "rewinding", "dropping"},
           b.old = claim[g].old, b.new = claim[g].new, b.next >= claim[g].next,
           \A e \in Events : claim[g].next <= e /\ e < b.next => sent'[e] > 0,
           \A e \in Events : sent[e] > 0 => sent'[e] > 0,
           UNCHANGED <<subscribed, happened, cursor, lost>>
    PROVE  InOrder' /\ PassedInHand'
<1>0. /\ \A h \in Gateways : /\ claim[h].old \in Int /\ claim[h].new \in Int
                             /\ claim[h].next \in Int
      /\ b.next \in Int /\ cursor \in Int /\ happened \in Int
      /\ \A e \in Events : e \in Int /\ sent[e] \in 0..2
  <2>1. MaxEvents \in Nat /\ happened \in 0..MaxEvents
    BY NotifyBounds DEF SkipInv, NotifyInv, CountsOK
  <2> QED BY <2>1, ClaimFields, BatchFields DEF SkipInv, NotifyInv, TellsOK, Events
<1>1. /\ claim'[g] = b
      /\ \A h \in Gateways : h # g => claim'[h] = claim[h]
  BY DEF SkipInv, NotifyInv, ClaimsOK
<1>2. \A h \in Gateways : /\ Holding(h)' <=> Holding(h)
                          /\ claim'[h].old = claim[h].old /\ claim'[h].new = claim[h].new
                          /\ claim'[h].next >= claim[h].next
  BY <1>0, <1>1 DEF Holding
<1>3. InOrder'
  <2>1. ASSUME NEW h \in Gateways, Holding(h)', NEW e \in Events,
               claim'[h].old < e, e < claim'[h].next
        PROVE  sent'[e] > 0
    <3>1. e < claim[h].next => sent[e] > 0
      BY <1>2, <2>1 DEF SkipInv, InOrder
    <3>2. e >= claim[h].next => h = g
      BY <1>0, <1>1, <2>1
    <3>3. e < claim[h].next \/ claim[h].next <= e
      BY <1>0
    <3> QED BY <1>1, <2>1, <3>1, <3>2, <3>3
  <2>2. \A h \in Gateways : Holding(h)' =>
           /\ claim'[h].old < claim'[h].new /\ claim'[h].new <= happened
           /\ claim'[h].old < claim'[h].next
    BY <1>0, <1>1, <1>2 DEF SkipInv, InOrder
  <2>3. \A h \in Gateways : claim'[h].at = "leaving" => claim'[h].next > claim'[h].new
    BY <1>1 DEF SkipInv, InOrder
  <2> QED BY <2>1, <2>2, <2>3 DEF SkipInv, InOrder
<1>4. ASSUME NEW e \in Events, Pending(e)'
      PROVE  Pending(e)
  BY <1>0, <1>4 DEF Pending
<1>5. ASSUME NEW e \in Events, NEW h \in Gateways, Pending(e)', Holding(h), InHand(h, e)
      PROVE  InHand(h, e)'
  <2>1. CASE h = g
    BY <1>0, <1>1, <1>5, <2>1 DEF InHand, Unsent, Pending
  <2>2. CASE h # g
    BY <1>1, <1>5, <2>2 DEF InHand, Unsent
  <2> QED BY <2>1, <2>2
<1>6. happened' \in Int /\ happened' >= happened
  BY <1>0
<1>7. PassedInHand'
  BY <1>2, <1>4, <1>5, <1>6, StandStill
<1> QED BY <1>3, <1>7

LEMMA StagesSkip ==
    ASSUME SkipInv, subscribed, NEW g \in Gateways,
           ReadsStatus(g) \/ Disconnected(g) \/ SendRaises(g) \/ \E e \in Events : Sends(g, e)
    PROVE  InOrder' /\ PassedInHand'
<1>1. claim[g] \in Batches /\ Holding(g) /\ completed \in BOOLEAN
  BY DEF SkipInv, NotifyInv, ClaimsOK, CountsOK, Holding, ReadsStatus, Disconnected,
         SendRaises, SendRaised, Sends
<1>2. UNCHANGED <<subscribed, happened, cursor, lost>>
  BY DEF ReadsStatus, Disconnected, SendRaises, SendRaised, Sends, taskVars, rowVars, tellVars
<1>3. ASSUME ReadsStatus(g) \/ Disconnected(g) \/ SendRaises(g)
      PROVE  InOrder' /\ PassedInHand'
  <2>1. UNCHANGED sent
    BY <1>3 DEF ReadsStatus, Disconnected, SendRaises, SendRaised, tellVars
  <2>2. PICK stage \in {"sending", "rewinding", "dropping"}, d \in BOOLEAN :
          claim' = [claim EXCEPT ![g] = [claim[g] EXCEPT !.at = stage, !.done = d]]
    <3>1. CASE ReadsStatus(g)
      BY <1>1, <3>1 DEF ReadsStatus
    <3>2. CASE Disconnected(g) \/ SendRaises(g)
      <4>1. PICK a \in {"rewinding", "dropping"} : claim' = [claim EXCEPT ![g].at = a]
        BY <3>2 DEF Disconnected, SendRaises, SendRaised, GatewayGoes
      <4>2. /\ claim[g].done \in BOOLEAN
            /\ [claim[g] EXCEPT !.at = a] = [claim[g] EXCEPT !.at = a, !.done = claim[g].done]
        BY <1>1 DEF Batches
      <4>3. claim' = [claim EXCEPT ![g] = [claim[g] EXCEPT !.at = a, !.done = claim[g].done]]
        BY <4>1, <4>2
      <4> QED BY <4>2, <4>3
    <3> QED BY <1>3, <3>1, <3>2
  <2> DEFINE b == [claim[g] EXCEPT !.at = stage, !.done = d]
  <2>3. /\ b \in Batches /\ b.at = stage /\ b.old = claim[g].old /\ b.new = claim[g].new
        /\ b.next = claim[g].next /\ claim[g].next \in Int
    <3>1. claim[g].next \in Int
      BY ClaimFields DEF SkipInv
    <3> QED BY <1>1, <3>1 DEF Batches, Stages
  <2>4. claim' = [claim EXCEPT ![g] = b]
    BY <2>2
  <2> HIDE DEF b
  <2>5. \A e \in Events : ~(claim[g].next <= e /\ e < b.next)
    BY <2>3, NotifyBounds DEF Events
  <2>6. b.next >= claim[g].next
    BY <2>3
  <2> QED BY <1>1, <1>2, <2>1, <2>3, <2>4, <2>5, <2>6, GoesOnSkip
<1>4. ASSUME NEW x \in Events, Sends(g, x)
      PROVE  InOrder' /\ PassedInHand'
  <2> DEFINE b == [claim[g] EXCEPT !.next = x + 1]
  <2>1. /\ claim[g].at = "sending" /\ x = claim[g].next /\ claim' = [claim EXCEPT ![g] = b]
        /\ sent' = [sent EXCEPT ![x] = IF @ < 2 THEN @ + 1 ELSE @]
    BY <1>4 DEF Sends
  <2>2. x \in Int /\ x + 1 \in 1..(MaxEvents + 1)
    BY NotifyBounds DEF Events
  <2>3. /\ b \in Batches /\ b.at = "sending" /\ b.old = claim[g].old /\ b.new = claim[g].new
        /\ b.next = x + 1
    BY <1>1, <2>1, <2>2 DEF Batches
  <2> HIDE DEF b
  <2>4. sent \in [Events -> 0..2]
    BY DEF SkipInv, NotifyInv, TellsOK
  <2>5. \A e \in Events : /\ sent[e] > 0 => sent'[e] > 0
                          /\ e = x => sent'[e] > 0
    BY <2>1, <2>4
  <2>6. \A e \in Events : claim[g].next <= e /\ e < b.next => e = x
    BY <2>1, <2>2, <2>3, NotifyBounds DEF Events
  <2>7. b.next >= claim[g].next
    BY <2>1, <2>2, <2>3
  <2> QED BY <1>1, <1>2, <2>1, <2>3, <2>5, <2>6, <2>7, GoesOnSkip
<1> QED BY <1>3, <1>4

LEMMA ClaimsSkip ==
    ASSUME SkipInv, subscribed, NEW g \in Gateways, Claims(g)
    PROVE  InOrder' /\ PassedInHand'
<1> DEFINE b == [at |-> "claimed", old |-> cursor, new |-> happened,
                 next |-> cursor + 1, done |-> FALSE]
<1>1. /\ claim[g].at = "idle" /\ cursor < happened
      /\ claim' = [claim EXCEPT ![g] = b]
      /\ cursor' = happened
      /\ UNCHANGED <<happened, subscribed, sent, lost>>
  <2>1. cursor \in Int /\ happened \in Int
    BY ClaimFields DEF SkipInv
  <2> QED BY <2>1 DEF Claims, Claimed, taskVars, tellVars
<1>2. /\ b.at = "claimed" /\ b.old = cursor /\ b.new = happened /\ b.next = cursor + 1
  OBVIOUS
<1> HIDE DEF b
<1>3. /\ claim'[g] = b /\ \A h \in Gateways : h # g => claim'[h] = claim[h]
      /\ ~Holding(g) /\ Holding(g)'
  BY <1>1, <1>2 DEF SkipInv, NotifyInv, ClaimsOK, Holding
<1>4. InOrder'
  <2>1. cursor \in Int /\ happened \in Int /\ \A e \in Events : e \in Int
    BY ClaimFields DEF SkipInv
  <2>2. ASSUME NEW h \in Gateways, h # g
        PROVE  /\ Holding(h)' =>
                   /\ claim'[h].old < claim'[h].new /\ claim'[h].new <= happened
                   /\ claim'[h].old < claim'[h].next
                   /\ \A e \in Events : claim'[h].old < e /\ e < claim'[h].next => sent[e] > 0
               /\ claim'[h].at = "leaving" => claim'[h].next > claim'[h].new
    BY <1>3, <2>2 DEF SkipInv, InOrder, Holding
  <2>3. /\ claim'[g].old < claim'[g].new /\ claim'[g].new <= happened
        /\ claim'[g].old < claim'[g].next
        /\ \A e \in Events : ~(claim'[g].old < e /\ e < claim'[g].next)
        /\ claim'[g].at # "leaving"
    BY <1>1, <1>2, <1>3, <2>1
  <2> QED BY <1>1, <2>1, <2>2, <2>3 DEF InOrder
<1>5. \A e \in Events : Pending(e)' => Pending(e)
  BY <1>1 DEF Pending
<1>6. PassedInHand'
  BY <1>1, <1>2, <1>3, <1>5, TakesUp
<1> QED BY <1>4, <1>6


\* A batch that is let go with what it had left lost, or sent, or put back.
LEMMA GoneSkip ==
    ASSUME SkipInv, NEW g \in Gateways, claim' = [claim EXCEPT ![g] = Empty] \/
               (claim' = [claim EXCEPT ![g].at = "leaving"] /\ claim[g].next > claim[g].new),
           UNCHANGED <<subscribed, happened, sent>>, cursor' <= happened
    PROVE  /\ InOrder'
           /\ ~Holding(g)' /\ \A h \in Gateways : h # g => claim'[h] = claim[h]
           /\ \A h \in Gateways : Holding(h)' <=> Holding(h) /\ h # g
<1>1. \A h \in Gateways : h # g => claim'[h] = claim[h]
  BY DEF SkipInv, NotifyInv, ClaimsOK
<1>2. /\ claim'[g].at \in {"idle", "leaving"}
      /\ claim'[g].at = "leaving" => claim'[g].next > claim'[g].new
  <2>1. claim[g] \in Batches /\ g \in DOMAIN claim
    BY DEF SkipInv, NotifyInv, ClaimsOK
  <2>2. CASE claim' = [claim EXCEPT ![g] = Empty]
    BY <2>1, <2>2 DEF Empty
  <2>3. CASE claim' = [claim EXCEPT ![g].at = "leaving"] /\ claim[g].next > claim[g].new
    BY <2>1, <2>3 DEF Batches
  <2> QED BY <2>2, <2>3
<1>3. ~Holding(g)'
  BY <1>2 DEF Holding
<1>4. \A h \in Gateways : Holding(h)' <=> Holding(h) /\ h # g
  BY <1>1, <1>3 DEF Holding
<1>5. InOrder'
  BY <1>1, <1>2, <1>4 DEF SkipInv, InOrder
<1> QED BY <1>1, <1>3, <1>4, <1>5

LEMMA RewindsSkip ==
    ASSUME SkipInv, subscribed, NEW g \in Gateways, Rewinds(g) \/ GatewayDies(g)
    PROVE  InOrder' /\ PassedInHand'
<1>1. /\ claim' = [claim EXCEPT ![g] = Empty]
      /\ UNCHANGED <<subscribed, happened, sent>> /\ claim[g].at # "idle"
      /\ \/ cursor' = cursor /\ lost' = lost \union Unsent(g)
         \/ cursor' = claim[g].old /\ cursor = claim[g].new /\ lost' = lost /\ Holding(g)
  BY DEF Rewinds, GatewayDies, Done, taskVars, rowVars, Holding
<1>2. cursor' <= happened
  BY <1>1, ClaimFields DEF SkipInv, InOrder
<1>3. /\ InOrder' /\ \A h \in Gateways : h # g => claim'[h] = claim[h]
      /\ \A h \in Gateways : Holding(h)' <=> Holding(h) /\ h # g
  BY <1>1, <1>2, GoneSkip
<1>4. CASE cursor' = claim[g].old /\ cursor = claim[g].new /\ lost' = lost /\ Holding(g)
  <2>1. \A e \in Events : Pending(e)' => Pending(e)
    BY <1>1, <1>4 DEF Pending
  <2> QED BY <1>1, <1>3, <1>4, <2>1, PutsBack
<1>5. CASE cursor' = cursor /\ lost' = lost \union Unsent(g)
  <2>1. \A e \in Events : Pending(e)' => Pending(e) /\ ~InHand(g, e)
    BY <1>1, <1>5 DEF Pending, InHand
  <2>2. CASE Holding(g)
    BY <1>1, <1>3, <1>5, <2>1, <2>2, Leaves
  <2>3. CASE ~Holding(g)
    <3>1. ASSUME NEW e \in Events, Pending(e)', Passed(e)'
          PROVE  \E h \in Gateways, m \in Events : Kept(e, h, m)'
      <4>1. Passed(e) /\ Pending(e)
        BY <1>3, <1>5, <2>1, <2>3, <3>1 DEF Passed
      <4>2. PICK h \in Gateways, m \in Events : Kept(e, h, m)
        BY <4>1 DEF SkipInv, PassedInHand
      <4>3. \A k \in Gateways : Holding(k) => k # g /\ claim'[k] = claim[k]
        BY <1>3, <2>3
      <4>4. Holding(h)' /\ InHand(h, e)' /\ claim'[h] = claim[h]
        BY <1>3, <2>3, <4>2, <4>3 DEF Kept, InHand, Unsent
      <4>5. Kept(e, h, m)'
        BY <1>1, <1>3, <1>5, <4>2, <4>3, <4>4 DEF Kept, Between
      <4> QED BY <4>5
    <3> QED BY <1>3, <3>1 DEF PassedInHand
  <2> QED BY <2>2, <2>3
<1> QED BY <1>1, <1>4, <1>5

LEMMA AdvancesSkip ==
    ASSUME SkipInv, subscribed, NEW g \in Gateways, AdvancesCursor(g)
    PROVE  InOrder' /\ PassedInHand'
<1>1. /\ claim' = [claim EXCEPT ![g] = Empty] \/ claim' = [claim EXCEPT ![g].at = "leaving"]
      /\ claim[g].at = "sending" /\ claim[g].next > claim[g].new
      /\ cursor' = claim[g].new
      /\ UNCHANGED <<subscribed, happened, sent, lost>>
  BY DEF AdvancesCursor, Delivered, GatewayGoes, Done, taskVars
<1>2. Holding(g) /\ claim[g].new <= happened
  BY <1>1 DEF SkipInv, InOrder, Holding
<1>3. /\ InOrder' /\ \A h \in Gateways : h # g => claim'[h] = claim[h]
      /\ \A h \in Gateways : Holding(h)' <=> Holding(h) /\ h # g
  BY <1>1, <1>2, GoneSkip
<1>4. \A e \in Events : Pending(e)' => Pending(e) /\ ~InHand(g, e)
  BY <1>1, ClaimFields DEF Pending, InHand, Unsent, SkipInv
<1>5. PassedInHand'
  BY <1>1, <1>2, <1>3, <1>4, Leaves
<1> QED BY <1>3, <1>5

LEMMA SkipInvStep == SkipInv /\ [NotifyNext]_notifyVars => SkipInv'
<1> SUFFICES ASSUME SkipInv, [NotifyNext]_notifyVars PROVE SkipInv'
  OBVIOUS
<1>1. NotifyInv'
  BY NotifyInvStep DEF SkipInv
<1>2. CASE UNCHANGED notifyVars
  BY <1>1, <1>2 DEF notifyVars, SkipInv, InOrder, PassedInHand, Pending, Passed, Kept, Between,
     Holding, InHand, Unsent
<1>3. CASE ~subscribed'
  BY <1>1, <1>3 DEF SkipInv, InOrder, PassedInHand
<1>4. CASE NotifyNext /\ subscribed'
  <2>1. \A g \in Gateways : ~Unsubscribes(g)
    BY <1>4 DEF Unsubscribes
  <2>2. subscribed
    BY <1>4 DEF NotifyNext, GatewaySteps, GatewayDies, Happens, Claims, Claimed, ReadsStatus,
       Disconnected, SendRaises, SendRaised, Rewinds, AdvancesCursor, Delivered, Unsubscribes,
       Sends, rowVars
  <2>3. InOrder' /\ PassedInHand'
    BY <1>4, <2>1, <2>2, HappensSkip, StagesSkip, ClaimsSkip, RewindsSkip, AdvancesSkip
       DEF NotifyNext, GatewaySteps
  <2> QED BY <1>1, <2>3 DEF SkipInv
<1> QED BY <1>2, <1>3, <1>4

\* However the gateways interleave, die, give back their claims and advance the
\* cursor out of turn: an event behind last_event_id was sent, or is in a gateway's
\* hand, or was lost where the code itself lets go of it (claim_unseen_events_for_sub,
\* advance_notify_cursor, rewind_notify_cursor).
THEOREM NothingSkippedTheorem == NotifySpec => []NothingSkipped
<1>1. NotifyInit => SkipInv
  BY NotifyInitInv, SkipInitInv DEF SkipInv
<1>2. SkipInv => NothingSkipped
  <2> SUFFICES ASSUME SkipInv, subscribed, NEW e \in 1..cursor, sent[e] <= 0, e \notin lost
               PROVE  \E g \in Gateways : InHand(g, e)
    <3>1. ASSUME SkipInv, NEW e \in 1..cursor
          PROVE  sent[e] > 0 \/ sent[e] <= 0
      <4>1. e \in Events
        BY <3>1, NotifyBounds DEF SkipInv, NotifyInv, CountsOK, Events
      <4> QED BY <3>1, <4>1, ClaimFields DEF SkipInv, NotifyInv, TellsOK
    <3> QED BY <3>1 DEF NothingSkipped
  <2>1. cursor <= happened /\ cursor \in 0..MaxEvents /\ happened \in 0..MaxEvents /\ MaxEvents \in Nat
    BY NotifyBounds DEF SkipInv, InOrder, NotifyInv, CountsOK
  <2>2. e \in Events /\ e <= happened /\ cursor >= e
    BY <2>1 DEF Events
  <2>3. sent[e] = 0
    BY <2>2 DEF SkipInv, NotifyInv, TellsOK
  <2> QED BY <2>2, <2>3 DEF SkipInv, PassedInHand, Pending, Passed, Kept
<1> QED BY <1>1, <1>2, SkipInvStep, PTL DEF NotifySpec


=============================================================================
