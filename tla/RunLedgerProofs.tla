-------------------------- MODULE RunLedgerProofs --------------------------
(***************************************************************************)
(* What a reader of the ledger may rely on, proved from the ledger's own   *)
(* actions.                                                                *)
(***************************************************************************)
EXTENDS RunLedger, SequenceTheorems, TLAPS

LedgerSound == ledger \in Seq(Attempt) /\ OneOpenAttempt

\* Closing attempts keeps their tasks and opens none.
LEMMA ClosedRows ==
    ASSUME LedgerSound, NEW A, NEW L, Closed(A, L)
    PROVE  /\ L \in Seq(Attempt) /\ Len(L) = Len(ledger) /\ Len(L) \in Nat
           /\ \A a \in 1..Len(ledger) :
                  /\ L[a].task = ledger[a].task
                  /\ L[a].outcome = "open" => IsOpen(a)
<1>1. L \in Seq(Attempt) /\ Len(L) = Len(ledger) /\ Len(L) \in Nat
  BY LenProperties DEF Closed
<1>2. ASSUME NEW a \in 1..Len(ledger), L[a].outcome = "open"
      PROVE  IsOpen(a)
  BY <1>2 DEF Closed, IsOpen
<1> QED BY <1>1, <1>2 DEF Closed

LEMMA CloseSound ==
    ASSUME LedgerSound, Close
    PROVE  LedgerSound'
<1>1. PICK A \in SUBSET (1..Len(ledger)) : Closed(A, ledger')
  BY DEF Close
<1>2. /\ ledger' \in Seq(Attempt) /\ Len(ledger') = Len(ledger)
      /\ \A a \in 1..Len(ledger) :
             /\ ledger'[a].task = ledger[a].task
             /\ ledger'[a].outcome = "open" => IsOpen(a)
  BY <1>1, ClosedRows
<1> QED BY <1>2 DEF LedgerSound, OneOpenAttempt, IsOpen

LEMMA StartSound ==
    ASSUME LedgerSound, NEW t \in Tasks, Start(t)
    PROVE  LedgerSound'
<1> DEFINE n == Len(ledger)
           L == SubSeq(ledger', 1, n)
           new == [task |-> t, outcome |-> "open"]
<1>1. PICK A \in SUBSET {a \in 1..n : ledger[a].task = t} :
          /\ ledger' = Append(L, new)
          /\ Closed(A, L)
          /\ \A a \in 1..n : ledger[a].task = t => L[a].outcome # "open"
  BY DEF Start
<1>2. /\ L \in Seq(Attempt) /\ Len(L) = n /\ n \in Nat
      /\ \A a \in 1..n :
             /\ L[a].task = ledger[a].task
             /\ L[a].outcome = "open" => IsOpen(a)
  BY <1>1, ClosedRows
<1>3. new \in Attempt
  BY DEF Attempt
<1> HIDE DEF L
<1>4. /\ ledger' \in Seq(Attempt) /\ Len(ledger') = n + 1 /\ ledger'[n + 1] = new
      /\ \A a \in 1..n : ledger'[a] = L[a]
  BY <1>1, <1>2, <1>3
<1>5. ASSUME NEW a \in 1..(n + 1), NEW b \in 1..(n + 1),
             ledger'[a].outcome = "open", ledger'[b].outcome = "open",
             ledger'[a].task = ledger'[b].task
      PROVE  a = b
  <2>1. CASE a = n + 1 \/ b = n + 1
    BY <1>1, <1>2, <1>4, <1>5, <2>1
  <2>2. CASE a # n + 1 /\ b # n + 1
    <3>1. a \in 1..n /\ b \in 1..n
      BY <1>2, <2>2
    <3> QED BY <1>2, <1>4, <1>5, <3>1 DEF LedgerSound, OneOpenAttempt
  <2> QED BY <2>1, <2>2
<1> QED BY <1>4, <1>5 DEF LedgerSound, OneOpenAttempt, IsOpen

LEMMA RecordSound ==
    ASSUME LedgerSound, NEW t \in Tasks, NEW o \in Outcomes \ {"open"}, Record(t, o)
    PROVE  LedgerSound'
<1> DEFINE new == [task |-> t, outcome |-> o]
<1>1. new \in Attempt /\ new.outcome # "open"
  BY DEF Attempt
<1>2. /\ ledger' \in Seq(Attempt) /\ Len(ledger) \in Nat
      /\ Len(ledger') = Len(ledger) + 1 /\ ledger'[Len(ledger) + 1] = new
      /\ \A a \in 1..Len(ledger) : ledger'[a] = ledger[a]
  BY <1>1 DEF Record, LedgerSound
<1> QED BY <1>1, <1>2 DEF LedgerSound, OneOpenAttempt, IsOpen

LEMMA EraseSound ==
    ASSUME LedgerSound, NEW t \in Tasks, Erase(t)
    PROVE  LedgerSound'
<1> DEFINE row(a) == IF ledger[a].task = t THEN [task |-> t, outcome |-> "deleted"]
                     ELSE ledger[a]
<1>1. Len(ledger) \in Nat /\ \A a \in 1..Len(ledger) : ledger[a] \in Attempt
  BY ElementOfSeq, LenProperties DEF LedgerSound
<1>2. \A a \in 1..Len(ledger) : row(a) \in Attempt
  BY <1>1 DEF Attempt
<1>3. ledger' = [a \in 1..Len(ledger) |-> row(a)]
  BY DEF Erase
<1>4. ledger' \in Seq(Attempt) /\ Len(ledger') = Len(ledger)
  BY <1>1, <1>2, <1>3
<1>5. \A a \in 1..Len(ledger) :
          /\ ledger'[a].task = ledger[a].task
          /\ ledger'[a].outcome = "open" => IsOpen(a)
  BY <1>3 DEF IsOpen
<1> QED BY <1>4, <1>5 DEF LedgerSound, OneOpenAttempt, IsOpen

\* Whoever follows the ledger sees at most one open attempt of a task: two
\* claims that both won would show as two.
THEOREM LedgerOneOpen == Spec => []OneOpenAttempt
<1>1. Init => LedgerSound
  BY DEF Init, LedgerSound, OneOpenAttempt
<1>2. LedgerSound /\ [Next]_ledger => LedgerSound'
  <2> SUFFICES ASSUME LedgerSound, [Next]_ledger PROVE LedgerSound'
    OBVIOUS
  <2>1. CASE UNCHANGED ledger
    BY <2>1 DEF LedgerSound, OneOpenAttempt, IsOpen
  <2> QED BY <2>1, CloseSound, StartSound, RecordSound, EraseSound DEF Next
<1>3. LedgerSound => OneOpenAttempt
  BY DEF LedgerSound
<1> QED BY <1>1, <1>2, <1>3, PTL DEF Spec

=============================================================================
