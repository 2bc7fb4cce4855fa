--------------------------- MODULE AgentRuns_proofs ---------------------------
(* Proofs about sub-agent runs: the ledger answers for every settlement    *)
(* once, the runs of the tool, the engine and the swarm use it only in the *)
(* ways its specification allows, and what runs stays within the limit.    *)
EXTENDS AgentRuns, FiniteSetTheorems, FunctionTheorems, TLAPS

-----------------------------------------------------------------------------
(* The ledger.                                                             *)

Entry == [id : Ids, status : Ledger!Terminal, session : {Session} \cup {None}, done : BOOLEAN]

\* What the tables hold of a run that has ended is what is due, and nothing else.
Consistent(id) ==
  /\ ~Ledger!Due(id) => owed[id] = None
  /\ Ledger!Due(id) => owed[id] # None /\ owed[id].status = settlement[id].status
  /\ \A i \in DOMAIN recent : recent[i].id = id =>
       /\ recent[i].done <=> ~Ledger!Due(id)
       /\ Ledger!Due(id) => recent[i].status = settlement[id].status

\* The invariant of the ledger.
LedgerInv ==
  /\ Ledger!TypeOK
  /\ \A id \in Ids : Ledger!Live(id) => settlement[id] = Ledger!Open
  /\ \A id \in Ids : ~Ledger!Live(id) => Consistent(id)

\* What the assumptions on the constants say here.
LEMMA Assumed ==
  /\ None # Session /\ None \notin Ledger!Facts
  /\ Limit \in Nat /\ SWARM_CONCURRENCY \in Nat \ {0} /\ RECENT_CAP \in Nat \ {0}
  /\ MaxTasks \in Nat
  BY RunsAssumption DEF Ledger!Parameters, Ledger!Facts

\* The table of settled runs takes an entry and keeps, of the others, some.
LEMMA Remembered ==
  ASSUME recent \in Seq(Ledger!Settled), Len(recent) <= RECENT_CAP,
         NEW e \in Ledger!Settled
  PROVE  /\ Ledger!Remember(e) \in Seq(Ledger!Settled)
         /\ Len(Ledger!Remember(e)) <= RECENT_CAP
         /\ \A i \in DOMAIN Ledger!Remember(e) :
              \/ Ledger!Remember(e)[i] = e
              \/ /\ Ledger!Remember(e)[i].id # e.id
                 /\ \E j \in DOMAIN recent : Ledger!Remember(e)[i] = recent[j]
<1> USE Assumed
<1>1. CASE Ledger!IndexOf(e.id) # {}
  <2>1. Ledger!Remember(e) = [i \in DOMAIN recent |-> IF recent[i].id = e.id THEN e ELSE recent[i]]
    BY <1>1 DEF Ledger!Remember
  <2>2. DOMAIN recent = 1..Len(recent)  OBVIOUS
  <2>3. Ledger!Remember(e) \in [1..Len(recent) -> Ledger!Settled]  BY <2>1, <2>2
  <2>4. Ledger!Remember(e) \in Seq(Ledger!Settled) /\ Len(Ledger!Remember(e)) = Len(recent)
    BY <2>3
  <2>5. QED  BY <2>1, <2>4
<1>2. CASE Ledger!IndexOf(e.id) = {}
  <2>1. \A i \in DOMAIN recent : recent[i].id # e.id  BY <1>2 DEF Ledger!IndexOf
  <2>2. CASE Len(recent) < RECENT_CAP
    <3>1. Ledger!Remember(e) = Append(recent, e)  BY <1>2, <2>2 DEF Ledger!Remember
    <3>2. QED  BY <2>1, <2>2, <3>1
  <2>3. CASE ~(Len(recent) < RECENT_CAP)
    <3>1. Ledger!Remember(e) = Append(Tail(recent), e)  BY <1>2, <2>3 DEF Ledger!Remember
    <3>2. Len(recent) > 0  BY <2>3
    <3>3. QED  BY <2>1, <2>3, <3>1, <3>2
  <2>4. QED  BY <2>2, <2>3
<1>3. QED  BY <1>1, <1>2

\* The ledger starts without runs and owes nothing.
LEMMA LedgerInit == Ledger!Init => LedgerInv
<1>1. SUFFICES ASSUME Ledger!Init PROVE LedgerInv  OBVIOUS
<1>2. Ledger!TypeOK
  BY <1>1, Assumed DEF Ledger!Init, Ledger!TypeOK, Ledger!NoRun, Ledger!Open
<1>3. QED
  BY <1>1, <1>2 DEF LedgerInv, Ledger!Init, Ledger!Live, Ledger!NoRun, Ledger!Open,
                    Consistent, Ledger!Due, Ledger!Terminal

\* A run that is registered is open; nothing else changes.
LEMMA RegisterStep ==
  ASSUME LedgerInv, NEW id \in Ids, NEW session \in {Session} \cup {None},
         NEW weight \in 0..SWARM_CONCURRENCY, Ledger!Register(id, session, weight)
  PROVE  LedgerInv'
<1> USE DEF LedgerInv, Ledger!Register
<1>1. Ledger!Run(session, weight) \in
        [status : {"none", "running", "cancel_requested"}, session : {Session} \cup {None},
         weight : 0..SWARM_CONCURRENCY]
  BY DEF Ledger!Run
<1>2. Ledger!TypeOK'
  BY <1>1 DEF Ledger!TypeOK, Ledger!Open
<1>3. ASSUME NEW x \in Ids
      PROVE  /\ Ledger!Live(x)' => settlement'[x] = Ledger!Open
             /\ ~Ledger!Live(x)' => Consistent(x)'
  <2>1. CASE x = id
    <3>1. Ledger!Live(x)' /\ settlement'[x] = Ledger!Open
      BY <2>1 DEF Ledger!TypeOK, Ledger!Live, Ledger!Run
    <3>2. QED  BY <3>1
  <2>2. CASE x # id
    <3>1. active'[x] = active[x] /\ settlement'[x] = settlement[x]
      BY <2>2 DEF Ledger!TypeOK
    <3>2. QED  BY <3>1 DEF Ledger!Live, Consistent, Ledger!Due
  <2>3. QED  BY <2>1, <2>2
<1>4. QED  BY <1>2, <1>3

\* What is settled, and what becomes of it, concerns one id only.
LEMMA ConsistentElsewhere ==
  ASSUME LedgerInv, NEW id \in Ids, NEW x \in Ids, x # id,
         active'[x] = active[x], owed'[x] = owed[x], settlement'[x] = settlement[x],
         \A i \in DOMAIN recent' : recent'[i].id = x => \E j \in DOMAIN recent : recent'[i] = recent[j]
  PROVE  /\ Ledger!Live(x)' => settlement'[x] = Ledger!Open
         /\ ~Ledger!Live(x)' => Consistent(x)'
<1>1. Ledger!Live(x)' = Ledger!Live(x) /\ Ledger!Due(x)' = Ledger!Due(x)
  BY DEF Ledger!Live, Ledger!Due
<1>2. ASSUME ~Ledger!Live(x)  PROVE Consistent(x)'
  <2>1. Consistent(x)  BY <1>2 DEF LedgerInv
  <2>2. QED  BY <1>1, <2>1 DEF Consistent
<1>3. QED  BY <1>1, <1>2 DEF LedgerInv

\* settle(): the settlement is owed, and remembered as not done.
LEMMA SettleStep ==
  ASSUME LedgerInv, NEW id \in Ids, NEW status \in Ledger!Terminal, Ledger!Settle(id, status)
  PROVE  LedgerInv'
<1>1. CASE ~Ledger!Live(id)
  <2>1. UNCHANGED ledgerVars  BY <1>1 DEF Ledger!Settle, Ledger!ledgerVars, ledgerVars
  <2>2. QED  BY <2>1 DEF ledgerVars, LedgerInv, Ledger!TypeOK, Ledger!Live, Consistent, Ledger!Due
<1>2. CASE Ledger!Live(id)
  <2> DEFINE e == [id |-> id, status |-> status, session |-> active[id].session, done |-> FALSE]
             facts == [status |-> status, session |-> active[id].session]
  <2>1. /\ active' = [active EXCEPT ![id] = Ledger!NoRun]
        /\ recent' = Ledger!Remember(e)
        /\ owed' = [owed EXCEPT ![id] = facts]
        /\ settlement' = [settlement EXCEPT ![id] = [status |-> status, claimed |-> FALSE]]
    BY <1>2 DEF Ledger!Settle
  <2>2. Ledger!TypeOK  BY DEF LedgerInv
  <2>3. facts \in Ledger!Facts /\ e \in Ledger!Settled
    BY <2>2 DEF Ledger!TypeOK, Ledger!Facts, Ledger!Settled
  <2>4. /\ recent' \in Seq(Ledger!Settled) /\ Len(recent') <= RECENT_CAP
        /\ \A i \in DOMAIN recent' :
             recent'[i] = e \/ (recent'[i].id # e.id /\ \E j \in DOMAIN recent : recent'[i] = recent[j])
    <3> HIDE DEF e
    <3>1. QED  BY <2>1, <2>2, <2>3, Remembered DEF Ledger!TypeOK
  <2>5. Ledger!TypeOK'
    BY <2>1, <2>2, <2>3, <2>4, Assumed DEF Ledger!TypeOK, Ledger!NoRun, Ledger!Terminal
  <2>6. ASSUME NEW x \in Ids
        PROVE  /\ Ledger!Live(x)' => settlement'[x] = Ledger!Open
               /\ ~Ledger!Live(x)' => Consistent(x)'
    <3>1. CASE x # id
      <4>1. e.id # x  BY <3>1
      <4>2. active'[x] = active[x] /\ owed'[x] = owed[x] /\ settlement'[x] = settlement[x]
        BY <2>1, <2>2, <3>1 DEF Ledger!TypeOK
      <4>3. \A i \in DOMAIN recent' :
              recent'[i].id = x => \E j \in DOMAIN recent : recent'[i] = recent[j]
        BY <2>4, <4>1
      <4>4. QED  BY <3>1, <4>2, <4>3, ConsistentElsewhere
    <3>2. CASE x = id
      <4>1. ~Ledger!Live(x)' /\ Ledger!Due(x)'
        BY <2>1, <2>2, <3>2 DEF Ledger!TypeOK, Ledger!Live, Ledger!NoRun, Ledger!Due
      <4>2. owed'[x] = facts /\ facts # None /\ settlement'[x].status = status
        BY <2>1, <2>2, <2>3, <3>2, Assumed DEF Ledger!TypeOK
      <4>3. \A i \in DOMAIN recent' : recent'[i].id = x => ~recent'[i].done /\ recent'[i].status = status
        BY <2>4, <3>2
      <4>4. QED  BY <4>1, <4>2, <4>3 DEF Consistent
    <3>3. QED  BY <3>1, <3>2
  <2>7. QED  BY <2>5, <2>6 DEF LedgerInv
<1>3. QED  BY <1>1, <1>2

\* What the claim answers is what the ledger owes.
LEMMA Answer ==
  ASSUME LedgerInv, NEW id \in Ids, ~Ledger!Live(id)
  PROVE  Ledger!Claimable(id) # None <=> Ledger!Due(id)
<1>1. Consistent(id)  BY DEF LedgerInv
<1>2. CASE Ledger!IndexOf(id) = {}
  BY <1>1, <1>2 DEF Ledger!Claimable, Consistent
<1>3. CASE Ledger!IndexOf(id) # {}
  <2> DEFINE i == CHOOSE j \in Ledger!IndexOf(id) : TRUE
  <2>1. i \in DOMAIN recent /\ recent[i].id = id  BY <1>3 DEF Ledger!IndexOf
  <2>2. recent[i].done <=> ~Ledger!Due(id)  BY <1>1, <2>1 DEF Consistent
  <2>3. Ledger!FactsOf(recent[i]) # None
    <3>1. recent[i] \in Ledger!Settled  BY <2>1 DEF LedgerInv, Ledger!TypeOK
    <3>2. QED  BY <3>1, Assumed DEF Ledger!FactsOf, Ledger!Settled, Ledger!Facts
  <2>4. Ledger!Claimable(id) = IF recent[i].done THEN None ELSE Ledger!FactsOf(recent[i])
    BY <1>3 DEF Ledger!Claimable
  <2>5. QED  BY <2>2, <2>3, <2>4
<1>4. QED  BY <1>2, <1>3

\* settle() and claim in one block: nothing is owed any more.
LEMMA SettleAndClaimStep ==
  ASSUME LedgerInv, NEW id \in Ids, NEW status \in Ledger!Terminal,
         Ledger!SettleAndClaim(id, status)
  PROVE  LedgerInv'
<1>0. Ledger!TypeOK  BY DEF LedgerInv
<1>1. active' = [active EXCEPT ![id] = Ledger!NoRun]  BY DEF Ledger!SettleAndClaim
<1>2. CASE Ledger!Live(id)
  <2> DEFINE e == [id |-> id, status |-> status, session |-> active[id].session, done |-> TRUE]
  <2>1. /\ recent' = Ledger!Remember(e)
        /\ settlement' = [settlement EXCEPT ![id] = [status |-> status, claimed |-> TRUE]]
    BY <1>2 DEF Ledger!SettleAndClaim
  <2>2. e \in Ledger!Settled /\ [status |-> status, session |-> active[id].session] \in Ledger!Facts
    BY <1>0 DEF Ledger!TypeOK, Ledger!Settled, Ledger!Facts
  <2>3. owed' = [owed EXCEPT ![id] = None]
    BY <1>2, <2>2, Assumed DEF Ledger!SettleAndClaim, Ledger!ClaimAnswer
  <2>4. /\ recent' \in Seq(Ledger!Settled) /\ Len(recent') <= RECENT_CAP
        /\ \A i \in DOMAIN recent' :
             recent'[i] = e \/ (recent'[i].id # e.id /\ \E j \in DOMAIN recent : recent'[i] = recent[j])
    <3> HIDE DEF e
    <3>1. QED  BY <1>0, <2>1, <2>2, Remembered DEF Ledger!TypeOK
  <2>5. Ledger!TypeOK'
    BY <1>0, <1>1, <2>1, <2>3, <2>4, Assumed DEF Ledger!TypeOK, Ledger!NoRun, Ledger!Terminal
  <2>6. ASSUME NEW x \in Ids
        PROVE  /\ Ledger!Live(x)' => settlement'[x] = Ledger!Open
               /\ ~Ledger!Live(x)' => Consistent(x)'
    <3>1. CASE x # id
      <4>1. e.id # x  BY <3>1
      <4>2. active'[x] = active[x] /\ owed'[x] = owed[x] /\ settlement'[x] = settlement[x]
        BY <1>0, <1>1, <2>1, <2>3, <3>1 DEF Ledger!TypeOK
      <4>3. \A i \in DOMAIN recent' :
              recent'[i].id = x => \E j \in DOMAIN recent : recent'[i] = recent[j]
        BY <2>4, <4>1
      <4>4. QED  BY <3>1, <4>2, <4>3, ConsistentElsewhere
    <3>2. CASE x = id
      <4>1. ~Ledger!Live(x)' /\ ~Ledger!Due(x)'
        BY <1>0, <1>1, <2>1, <3>2 DEF Ledger!TypeOK, Ledger!Live, Ledger!NoRun, Ledger!Due
      <4>2. owed'[x] = None  BY <1>0, <2>3, <3>2 DEF Ledger!TypeOK
      <4>3. \A i \in DOMAIN recent' : recent'[i].id = x => recent'[i].done
        BY <2>4, <3>2
      <4>4. QED  BY <4>1, <4>2, <4>3 DEF Consistent
    <3>3. QED  BY <3>1, <3>2
  <2>7. QED  BY <2>5, <2>6 DEF LedgerInv
<1>3. CASE ~Ledger!Live(id)
  <2>1. recent' = [i \in DOMAIN recent |->
          IF recent[i].id = id THEN [recent[i] EXCEPT !.done = TRUE] ELSE recent[i]]
    BY <1>3 DEF Ledger!SettleAndClaim
  <2>2. /\ owed' = IF Ledger!Due(id) THEN [owed EXCEPT ![id] = None] ELSE owed
        /\ settlement' = IF Ledger!Due(id)
                         THEN [settlement EXCEPT ![id].claimed = TRUE] ELSE settlement
    BY <1>3, Answer DEF Ledger!SettleAndClaim, Ledger!ClaimAnswer
  <2>3. recent' \in Seq(Ledger!Settled) /\ Len(recent') = Len(recent) /\ DOMAIN recent' = DOMAIN recent
    <3>1. DOMAIN recent = 1..Len(recent) /\ Len(recent) \in Nat  BY <1>0 DEF Ledger!TypeOK
    <3>2. \A i \in DOMAIN recent : recent[i] \in Ledger!Settled  BY <1>0 DEF Ledger!TypeOK
    <3>3. \A i \in DOMAIN recent : recent'[i] \in Ledger!Settled
      BY <2>1, <3>2 DEF Ledger!Settled
    <3>4. recent' \in [1..Len(recent) -> Ledger!Settled]  BY <2>1, <3>1, <3>3
    <3>5. QED  BY <2>1, <3>1, <3>4
  <2>4. Ledger!TypeOK'
    <3>1. active' \in [Ids -> [status : {"none", "running", "cancel_requested"},
                         session : {Session} \cup {None}, weight : 0..SWARM_CONCURRENCY]]
      BY <1>0, <1>1, Assumed DEF Ledger!TypeOK, Ledger!NoRun
    <3>2. owed' \in [Ids -> Ledger!Facts \cup {None}]  BY <1>0, <2>2 DEF Ledger!TypeOK
    <3>3. settlement' \in [Ids -> [status : Ledger!Terminal \cup {"open"}, claimed : BOOLEAN]]
      BY <1>0, <2>2 DEF Ledger!TypeOK
    <3>4. QED  BY <1>0, <2>3, <3>1, <3>2, <3>3 DEF Ledger!TypeOK
  <2>5. ASSUME NEW x \in Ids
        PROVE  /\ Ledger!Live(x)' => settlement'[x] = Ledger!Open
               /\ ~Ledger!Live(x)' => Consistent(x)'
    <3>1. CASE x # id
      <4>1. active'[x] = active[x] /\ owed'[x] = owed[x] /\ settlement'[x] = settlement[x]
        BY <1>0, <1>1, <2>2, <3>1 DEF Ledger!TypeOK
      <4>2. \A i \in DOMAIN recent' :
              recent'[i].id = x => \E j \in DOMAIN recent : recent'[i] = recent[j]
        <5>1. ASSUME NEW i \in DOMAIN recent', recent'[i].id = x PROVE recent[i].id # id
          <6>1. recent[i] \in Ledger!Settled  BY <1>0, <2>3, <5>1 DEF Ledger!TypeOK
          <6>2. recent[i].id = id => recent'[i].id = id
            BY <2>1, <2>3, <5>1, <6>1 DEF Ledger!Settled
          <6>3. QED  BY <3>1, <5>1, <6>2
        <5>2. QED  BY <2>1, <2>3, <5>1
      <4>3. QED  BY <3>1, <4>1, <4>2, ConsistentElsewhere
    <3>2. CASE x = id
      <4>1. ~Ledger!Live(x)' /\ ~Ledger!Due(x)'
        BY <1>0, <1>1, <2>2, <3>2 DEF Ledger!TypeOK, Ledger!Live, Ledger!NoRun, Ledger!Due
      <4>2. owed'[x] = None
        BY <1>0, <1>3, <2>2, <3>2 DEF Ledger!TypeOK, LedgerInv, Consistent
      <4>3. \A i \in DOMAIN recent' : recent'[i].id = x => recent'[i].done
        <5>1. ASSUME NEW i \in DOMAIN recent', recent'[i].id = x PROVE recent'[i].done
          <6>1. recent[i] \in Ledger!Settled  BY <1>0, <2>3, <5>1 DEF Ledger!TypeOK
          <6>2. recent[i].id = id  BY <2>1, <2>3, <3>2, <5>1
          <6>3. QED  BY <2>1, <2>3, <5>1, <6>1, <6>2 DEF Ledger!Settled
        <5>2. QED  BY <5>1
      <4>4. QED  BY <4>1, <4>2, <4>3 DEF Consistent
    <3>3. QED  BY <3>1, <3>2
  <2>6. QED  BY <2>4, <2>5 DEF LedgerInv
<1>4. QED  BY <1>2, <1>3

\* A run is covered, or is registered anew.
LEMMA EnsureStep ==
  ASSUME LedgerInv, NEW id \in Ids, NEW session \in {Session} \cup {None},
         Ledger!EnsureCovered(id, session)
  PROVE  LedgerInv'
<1>1. CASE ~Ledger!Live(id)
  <2>1. Ledger!Register(id, session, 0)  BY <1>1 DEF Ledger!EnsureCovered
  <2>2. QED  BY <2>1, RegisterStep, Assumed
<1>2. CASE Ledger!Live(id)
  <2>1. /\ active' = [active EXCEPT ![id].session = IF @ = None THEN session ELSE @]
        /\ UNCHANGED <<recent, owed, settlement>>
    BY <1>2 DEF Ledger!EnsureCovered
  <2>2. Ledger!TypeOK'
    <3>1. Ledger!TypeOK  BY DEF LedgerInv
    <3>2. [active[id] EXCEPT !.session = IF @ = None THEN session ELSE @] \in
            [status : {"none", "running", "cancel_requested"}, session : {Session} \cup {None},
             weight : 0..SWARM_CONCURRENCY]
      BY <3>1 DEF Ledger!TypeOK
    <3>3. active' = [active EXCEPT ![id] = [active[id] EXCEPT !.session = IF @ = None THEN session ELSE @]]
      BY <2>1, <3>1 DEF Ledger!TypeOK
    <3>4. active' \in [Ids -> [status : {"none", "running", "cancel_requested"},
                         session : {Session} \cup {None}, weight : 0..SWARM_CONCURRENCY]]
      BY <3>1, <3>2, <3>3 DEF Ledger!TypeOK
    <3>5. QED  BY <2>1, <3>1, <3>4 DEF Ledger!TypeOK
  <2>3. \A x \in Ids : Ledger!Live(x)' = Ledger!Live(x)
    BY <2>1 DEF LedgerInv, Ledger!TypeOK, Ledger!Live
  <2>4. \A x \in Ids : Consistent(x)' = Consistent(x)  BY <2>1 DEF Consistent, Ledger!Due
  <2>5. QED  BY <2>1, <2>2, <2>3, <2>4 DEF LedgerInv
<1>3. QED  BY <1>1, <1>2

\* A cancellation settles nothing.
LEMMA CancelStep ==
  ASSUME LedgerInv, NEW ids \in SUBSET Ids, Ledger!RequestCancel(ids)
  PROVE  LedgerInv'
<1>1. Ledger!TypeOK'
  BY DEF LedgerInv, Ledger!TypeOK, Ledger!RequestCancel
<1>2. \A x \in Ids : Ledger!Live(x)' = Ledger!Live(x)
  BY DEF LedgerInv, Ledger!TypeOK, Ledger!Live, Ledger!RequestCancel
<1>3. \A x \in Ids : Consistent(x)' = Consistent(x)
  BY DEF Consistent, Ledger!Due, Ledger!RequestCancel
<1>4. QED  BY <1>1, <1>2, <1>3 DEF LedgerInv, Ledger!RequestCancel

\* The invariant of the ledger is inductive, for every use its specification allows.
LEMMA LedgerStep == LedgerInv /\ [Ledger!Next]_ledgerVars => LedgerInv'
<1>1. SUFFICES ASSUME LedgerInv, [Ledger!Next]_ledgerVars PROVE LedgerInv'  OBVIOUS
<1>2. CASE UNCHANGED ledgerVars
  BY <1>1, <1>2 DEF ledgerVars, LedgerInv, Ledger!TypeOK, Ledger!Live, Consistent, Ledger!Due
<1>3. ASSUME NEW id \in Ids, NEW session \in {Session} \cup {None},
             NEW weight \in 1..SWARM_CONCURRENCY, Ledger!TryReserve(id, session, weight)
      PROVE  LedgerInv'
  BY <1>1, <1>3, RegisterStep, Assumed DEF Ledger!TryReserve
<1>4. QED
  BY <1>1, <1>2, <1>3, EnsureStep, CancelStep, SettleStep, SettleAndClaimStep DEF Ledger!Next

\* The ledger alone keeps its invariant.
LEMMA LedgerInvariance == Ledger!Spec => []LedgerInv
<1>1. LedgerInv /\ [Ledger!Next]_Ledger!ledgerVars => LedgerInv'
  BY LedgerStep DEF ledgerVars, Ledger!ledgerVars
<1>2. QED  BY <1>1, LedgerInit, PTL DEF Ledger!Spec

\* A claim is answered from the tables as the settlement says.
LEMMA LedgerAnswers == LedgerInv => AnswersOncePerSettlement
<1>1. SUFFICES ASSUME LedgerInv, NEW id \in Ids, ~Ledger!Live(id)
               PROVE  IF Ledger!Due(id)
                      THEN /\ Ledger!Claimable(id) # None
                           /\ Ledger!Claimable(id).status = settlement[id].status
                      ELSE Ledger!Claimable(id) = None
  BY DEF AnswersOncePerSettlement, Ledger!AnswersOncePerSettlement
<1>2. Consistent(id)  BY <1>1 DEF LedgerInv
<1>3. CASE Ledger!IndexOf(id) = {}
  BY <1>2, <1>3 DEF Consistent, Ledger!Claimable
<1>4. CASE Ledger!IndexOf(id) # {}
  <2> DEFINE i == CHOOSE j \in Ledger!IndexOf(id) : TRUE
  <2>1. i \in DOMAIN recent /\ recent[i].id = id  BY <1>4 DEF Ledger!IndexOf
  <2>2. Ledger!Claimable(id) = IF recent[i].done THEN None ELSE Ledger!FactsOf(recent[i])
    BY <1>4 DEF Ledger!Claimable
  <2>3. /\ recent[i].done <=> ~Ledger!Due(id)
        /\ Ledger!Due(id) => recent[i].status = settlement[id].status
    BY <1>2, <2>1 DEF Consistent
  <2>4. Ledger!FactsOf(recent[i]).status = recent[i].status  BY DEF Ledger!FactsOf
  <2>5. QED  BY <1>1, <2>2, <2>3, <2>4, Answer
<1>5. QED  BY <1>3, <1>4

\* The first report of a run stands.
Stands(id) ==
  settlement[id].status \in Ledger!Terminal =>
    \/ settlement'[id].status = settlement[id].status /\ (Ledger!Live(id)' => Ledger!Live(id))
    \/ settlement'[id] = Ledger!Open /\ active'[id].status = "running"

\* No step of the ledger rewrites a first report.
LEMMA FirstReport ==
  ASSUME LedgerInv, [Ledger!Next]_ledgerVars, NEW x \in Ids
  PROVE  Stands(x)
<1>0. Ledger!TypeOK  BY DEF LedgerInv
<1>1. SUFFICES ASSUME settlement[x].status \in Ledger!Terminal PROVE Stands(x)
  BY DEF Stands
<1>2. ~Ledger!Live(x)
  <2>1. Ledger!Open.status \notin Ledger!Terminal  BY DEF Ledger!Open, Ledger!Terminal
  <2>2. QED  BY <1>1, <2>1 DEF LedgerInv
<1>3. CASE UNCHANGED ledgerVars  BY <1>3 DEF Stands, ledgerVars, Ledger!Live
<1>4. ASSUME NEW id \in Ids, NEW session, NEW weight, Ledger!Register(id, session, weight)
      PROVE  Stands(x)
  BY <1>0, <1>4 DEF Ledger!Register, Ledger!Run, Ledger!TypeOK, Ledger!Live, Stands
<1>5. ASSUME NEW id \in Ids, NEW session, Ledger!EnsureCovered(id, session)
      PROVE  Stands(x)
  <2>1. CASE Ledger!Live(id)
    BY <1>0, <1>2, <1>5, <2>1 DEF Ledger!EnsureCovered, Ledger!TypeOK, Ledger!Live, Stands
  <2>2. CASE ~Ledger!Live(id)  BY <1>4, <1>5, <2>2 DEF Ledger!EnsureCovered
  <2>3. QED  BY <2>1, <2>2
<1>6. ASSUME NEW ids \in SUBSET Ids, Ledger!RequestCancel(ids)  PROVE Stands(x)
  BY <1>0, <1>2, <1>6 DEF Ledger!RequestCancel, Ledger!TypeOK, Ledger!Live, Stands
<1>7. ASSUME NEW id \in Ids, NEW status \in Ledger!Terminal, Ledger!Settle(id, status)
      PROVE  Stands(x)
  <2>1. CASE Ledger!Live(id)
    <3>1. x # id  BY <1>2, <2>1
    <3>2. active'[x] = active[x] /\ settlement'[x] = settlement[x]
      BY <1>0, <1>7, <2>1, <3>1 DEF Ledger!Settle, Ledger!TypeOK
    <3>3. QED  BY <3>2 DEF Ledger!Live, Stands
  <2>2. CASE ~Ledger!Live(id)
    BY <1>7, <2>2 DEF Ledger!Settle, Ledger!ledgerVars, Ledger!Live, Stands
  <2>3. QED  BY <2>1, <2>2
<1>8. ASSUME NEW id \in Ids, NEW status \in Ledger!Terminal, Ledger!SettleAndClaim(id, status)
      PROVE  Stands(x)
  <2>1. ~Ledger!Live(x)'
    BY <1>0, <1>2, <1>8 DEF Ledger!SettleAndClaim, Ledger!TypeOK, Ledger!Live, Ledger!NoRun
  <2>2. settlement'[x].status = settlement[x].status
    <3>1. CASE Ledger!Live(id)
      <4>1. x # id  BY <1>2, <3>1
      <4>2. QED  BY <1>0, <1>8, <3>1, <4>1 DEF Ledger!SettleAndClaim, Ledger!TypeOK
    <3>2. CASE ~Ledger!Live(id)
      BY <1>0, <1>8, <3>2 DEF Ledger!SettleAndClaim, Ledger!TypeOK
    <3>3. QED  BY <3>1, <3>2
  <2>3. QED  BY <2>1, <2>2 DEF Stands
<1>9. ASSUME NEW id \in Ids, NEW session, NEW weight, Ledger!TryReserve(id, session, weight)
      PROVE  Stands(x)
  BY <1>4, <1>9 DEF Ledger!TryReserve
<1>10. QED
  BY <1>3, <1>5, <1>6, <1>7, <1>8, <1>9 DEF Ledger!Next

-----------------------------------------------------------------------------
(* The runs: the inductive invariant, call by call.                        *)

Pcs == {"idle", "refused", "begin", "dispatch", "direct", "engine", "swarm", "persist",
        "notify", "wrapup", "done"}

KeyLists == {<<>>} \cup UNION {[1..n -> 1..MaxTasks] : n \in 0..MaxTasks}

ItemStates == Busy \cup {"queued", "ok", "failed", "passed", "rejected"}

Item  == [state : ItemStates, round : {1, 2}]
Batch == [phase : {"off", "work", "gate", "synth", "synthesizing", "end"},
          aborted : BOOLEAN, verify : BOOLEAN]

CallRec == [pc : Pcs, background : BOOLEAN, keys : KeyLists, weight : Nat, caught : BOOLEAN,
            claim : Ledger!Facts \cup {None}]

\* The types of all variables, the histories included.
Typed ==
  /\ call \in [Calls -> CallRec]
  /\ handle \in [Ids -> Ids \cup {None}]
  /\ exec \in [Ids -> [state : {"idle", "running", "ended"}, aborted : BOOLEAN,
                       completed : BOOLEAN]]
  /\ swarm \in [Calls -> Batch]
  /\ item \in [Calls -> [1..MaxTasks -> Item]]
  /\ row \in [Ids -> {"none", "running", "cancel_requested", "completed", "failed"}]
  /\ marks \subseteq Ids
  /\ notified \in [Calls -> Nat]

\* A batch runs while its call waits for it, with tasks of its own.
Keyed(c) ==
  /\ call[c].keys \in Batches[c] \cup {<<>>}
  /\ call[c].pc \in {"idle", "refused"} => call[c].keys = <<>>
  /\ call[c].pc = "swarm" <=> swarm[c].phase # "off"
  /\ call[c].pc = "swarm" => call[c].keys # <<>>
  /\ swarm[c].phase = "off" => item[c] = NoItems
  /\ \A i \in 1..MaxTasks :
       /\ item[c][i].state # "queued" => i \in Tasks(c)
       /\ item[c][i].state \in Busy => swarm[c].phase \in {"work", "gate"}

\* An execution that has not been collected is where its caller is.
Place(e) ==
  /\ e = Own(e[1]) =>
       /\ call[e[1]].pc \in {"engine", "persist", "notify", "wrapup", "done"}
       /\ Running(e) => call[e[1]].pc = "engine"
  /\ e # Own(e[1]) /\ e[2] = 0 => swarm[e[1]].phase = "synthesizing"
  /\ e[2] # 0 /\ e[3] = 0 => item[e[1]][e[2]].state = "running"
  /\ e[2] # 0 /\ e[3] # 0 => item[e[1]][e[2]] = [state |-> "verifying", round |-> e[3]]

\* Nothing runs, or waits to be collected, that nobody waits for.
Placed(c) == \A e \in IdsOf(c) : exec[e].state # "idle" => Place(e)

\* A handle is that of a running execution of its id, and beside the call's own
\* run nothing is live without one.
Handled(c) ==
  \A id \in IdsOf(c) :
    /\ handle[id] # None =>
         handle[id] \in IdsOf(c) /\ IdOf(handle[id]) = id /\ Running(handle[id])
    /\ id # Own(c) /\ Ledger!Live(id) => handle[id] # None

\* How far the settlement of the call's own run has come.
Staged(c) ==
  LET s == settlement[Own(c)] IN
  /\ call[c].pc \in {"idle", "refused"} => ~Ledger!Live(Own(c)) /\ s = Ledger!Open
  /\ call[c].pc \in {"begin", "dispatch", "direct", "swarm"} => Ledger!Live(Own(c))
  /\ call[c].pc = "engine" =>
       IF Running(Own(c))
       THEN Ledger!Live(Own(c)) /\ handle[Own(c)] = Own(c)
       ELSE Ended(Own(c)) /\ ~Ledger!Live(Own(c)) /\ Ledger!Due(Own(c))
  /\ call[c].pc = "persist" => call[c].claim # None /\ call[c].claim.status = s.status
  /\ call[c].pc \in {"persist", "notify", "wrapup", "done"} => ~Ledger!Live(Own(c)) /\ s.claimed
  /\ notified[c] = IF call[c].pc \in {"wrapup", "done"} THEN 1 ELSE 0
  /\ row[Own(c)] \in Ledger!Terminal =>
       call[c].pc \in {"notify", "wrapup", "done"} /\ row[Own(c)] = s.status

\* The property AbortReachesAll, for one call.
AbortReaches(c) == swarm[c].aborted => \A e \in ExecsOf(c) : exec[e].aborted

\* The invariant of one call ...
CallInv(c) == Keyed(c) /\ Placed(c) /\ Handled(c) /\ Staged(c) /\ AbortReaches(c)

\* ... and of the system.
RunsInv == LedgerInv /\ Typed /\ \A c \in Calls : CallInv(c)

-----------------------------------------------------------------------------
(* Ids.                                                                    *)

\* The ids of a call are triples that name it.
LEMMA IdFacts ==
  ASSUME NEW c \in Calls, NEW e \in IdsOf(c)
  PROVE  /\ e \in Ids /\ e[1] = c /\ e = <<c, e[2], e[3]>> /\ e # None
         /\ e[2] \in 0..MaxTasks /\ e[3] \in 0..2
         /\ e # Own(c) => ~(Batches[c] \subseteq {<<>>})
         /\ e[2] = 0 /\ e # Own(c) => e[3] = 1
<1>1. e \in Ids /\ e # None  BY RunsAssumption DEF Ids
<1>2. CASE Batches[c] \subseteq {<<>>}
  <2>1. e = <<c, 0, 0>>  BY <1>2 DEF IdsOf
  <2>2. QED  BY <1>1, <2>1, Assumed DEF Own
<1>3. CASE ~(Batches[c] \subseteq {<<>>})
  <2>1. \/ e = <<c, 0, 0>>
        \/ e = <<c, 0, 1>>
        \/ \E i \in 1..MaxTasks, n \in 0..2 : e = <<c, i, n>>
    BY <1>3 DEF IdsOf
  <2>2. CASE e = <<c, 0, 0>>  BY <1>1, <1>3, <2>2, Assumed DEF Own
  <2>3. CASE e = <<c, 0, 1>>  BY <1>1, <1>3, <2>3, Assumed DEF Own
  <2>4. CASE \E i \in 1..MaxTasks, n \in 0..2 : e = <<c, i, n>>
    BY <1>1, <1>3, <2>4, Assumed DEF Own
  <2>5. QED  BY <2>1, <2>2, <2>3, <2>4
<1>4. QED  BY <1>2, <1>3

\* Every call has a run of its own.
LEMMA OwnId == ASSUME NEW c \in Calls PROVE Own(c) \in IdsOf(c)
  BY DEF IdsOf, Own

\* The ids a batch gives to its tasks, their verifiers and the synthesizer are its own.
LEMMA BatchIds ==
  ASSUME Typed, NEW c \in Calls, Keyed(c), call[c].keys # <<>>
  PROVE  /\ <<c, 0, 1>> \in IdsOf(c)
         /\ \A i \in 1..MaxTasks, n \in 0..2 : <<c, i, n>> \in IdsOf(c)
         /\ \A i \in Tasks(c) : i \in 1..MaxTasks /\ call[c].keys[i] \in 1..MaxTasks
<1>1. ~(Batches[c] \subseteq {<<>>})  BY DEF Keyed
<1>0. call[c].keys \in KeyLists  BY DEF Typed, CallRec
<1>2. PICK m \in 0..MaxTasks : call[c].keys \in [1..m -> 1..MaxTasks]
  BY <1>0 DEF KeyLists
<1>3. \A i \in Tasks(c) : i \in 1..MaxTasks /\ call[c].keys[i] \in 1..MaxTasks
  BY <1>2, Assumed DEF Tasks
<1>4. IdsOf(c) = {<<c, 0, 0>>, <<c, 0, 1>>} \cup {<<c, i, n>> : i \in 1..MaxTasks, n \in 0..2}
  BY <1>1 DEF IdsOf
<1>5. QED  BY <1>3, <1>4

\* Executions of a call are registered under ids of the call, batch executions never
\* under that of the call's own run.
LEMMA IdOfFacts ==
  ASSUME Typed, NEW c \in Calls, Keyed(c), NEW e \in IdsOf(c),
         WorkerOf(e) => e[2] \in Tasks(c)
  PROVE  /\ IdOf(e) \in IdsOf(c)
         /\ e = Own(c) => IdOf(e) = e
         /\ e # Own(c) => IdOf(e) # Own(c)
<1>1. CASE WorkerOf(e)
  <2>1. e[1] = c /\ e[2] > 0 /\ e[2] \in Tasks(c)  BY <1>1, IdFacts DEF WorkerOf
  <2>2. IdOf(e) = <<c, call[c].keys[e[2]], 0>>  BY <1>1, <2>1 DEF IdOf
  <2>3. call[c].keys # <<>>  BY <2>1 DEF Tasks
  <2>4. call[c].keys[e[2]] \in 1..MaxTasks  BY <2>1, <2>3, BatchIds
  <2>5. IdOf(e) \in IdsOf(c)
    <3>1. \A i \in 1..MaxTasks, n \in 0..2 : <<c, i, n>> \in IdsOf(c)  BY <2>3, BatchIds
    <3>0. 0 \in 0..2  OBVIOUS
    <3>2. \A k \in 1..MaxTasks : <<c, k, 0>> \in IdsOf(c)  BY <3>0, <3>1, Zenon
    <3>3. PICK k \in 1..MaxTasks : k = call[c].keys[e[2]]  BY <2>4
    <3>4. IdOf(e) = <<c, k, 0>>  BY <2>2, <3>3
    <3>5. QED  BY <3>2, <3>4
  <2>6. IdOf(e) # Own(c)  BY <2>2, <2>4, Assumed DEF Own
  <2>7. e # Own(c)  BY <2>1 DEF Own
  <2>8. QED  BY <2>5, <2>6, <2>7
<1>2. CASE ~WorkerOf(e)
  BY <1>2 DEF IdOf
<1>3. QED  BY <1>1, <1>2

-----------------------------------------------------------------------------
(* What a step does to the calls it is not about: nothing.                 *)

\* Nothing of call d changes.
Same(d) ==
  /\ call'[d] = call[d] /\ swarm'[d] = swarm[d] /\ item'[d] = item[d]
  /\ notified'[d] = notified[d]
  /\ \A id \in IdsOf(d) :
       /\ handle'[id] = handle[id] /\ exec'[id] = exec[id] /\ row'[id] = row[id]
       /\ Ledger!Live(id)' = Ledger!Live(id) /\ settlement'[id] = settlement[id]

\* A call whose state is left alone keeps its invariant.
LEMMA Undisturbed ==
  ASSUME Typed, NEW d \in Calls, CallInv(d), Same(d)
  PROVE  CallInv(d)'
<1> USE DEF Same
<1>0. Own(d) \in IdsOf(d)  BY OwnId
<1>1. Keyed(d)'  BY DEF CallInv, Keyed, Tasks
<1>2. Placed(d)'
  <2>1. SUFFICES ASSUME NEW e \in IdsOf(d), exec'[e].state # "idle" PROVE Place(e)'
    BY DEF Placed
  <2>2. Place(e) /\ e[1] = d  BY <2>1, IdFacts DEF CallInv, Placed
  <2>3. QED  BY <2>1, <2>2 DEF Place, Running
<1>3. Handled(d)'
  <2>1. SUFFICES ASSUME NEW id \in IdsOf(d)
                 PROVE  /\ handle'[id] # None =>
                             /\ handle'[id] \in IdsOf(d) /\ IdOf(handle[id])' = id
                             /\ Running(handle[id])'
                        /\ id # Own(d) /\ Ledger!Live(id)' => handle'[id] # None
    BY DEF Handled
  <2>2. CASE handle[id] # None
    <3>1. handle[id] \in IdsOf(d) /\ IdOf(handle[id]) = id /\ Running(handle[id])
      BY <2>2 DEF CallInv, Handled
    <3>2. handle[id][1] = d  BY <3>1, IdFacts
    <3>3. IdOf(handle[id])' = IdOf(handle[id])  BY <3>2 DEF IdOf, WorkerOf
    <3>4. Running(handle[id])'  BY <3>1 DEF Running
    <3>5. handle'[id] = handle[id]  OBVIOUS
    <3>6. handle'[id] # None => /\ handle'[id] \in IdsOf(d) /\ IdOf(handle[id])' = id
                                /\ Running(handle[id])'
      BY <3>1, <3>3, <3>4, <3>5
    <3>7. QED  BY <2>2, <3>5, <3>6
  <2>3. CASE handle[id] = None  BY <2>3 DEF CallInv, Handled
  <2>4. QED  BY <2>2, <2>3
<1>4. Staged(d)'
  <2>1. Staged(d)  BY DEF CallInv
  <2>2. /\ Running(Own(d))' = Running(Own(d)) /\ Ended(Own(d))' = Ended(Own(d))
        /\ Ledger!Due(Own(d))' = Ledger!Due(Own(d))
        /\ Ledger!Live(Own(d))' = Ledger!Live(Own(d))
        /\ settlement'[Own(d)] = settlement[Own(d)] /\ handle'[Own(d)] = handle[Own(d)]
        /\ row'[Own(d)] = row[Own(d)]
    BY <1>0 DEF Running, Ended, Ledger!Due
  <2>3. QED  BY <2>1, <2>2 DEF Staged
<1>5. AbortReaches(d)'
  BY DEF CallInv, AbortReaches, ExecsOf, Running
<1>6. QED  BY <1>1, <1>2, <1>3, <1>4, <1>5 DEF CallInv

\* An id belongs to one call.
LEMMA Apart ==
  ASSUME NEW c \in Calls, NEW id \in IdsOf(c), NEW d \in Calls, d # c, NEW x \in IdsOf(d)
  PROVE  x # id
  BY IdFacts

-----------------------------------------------------------------------------
(* What a step of the ledger does to its runs.                             *)

\* All runs but id are as live and as settled as before.
OtherRuns(id) ==
  \A x \in Ids \ {id} : Ledger!Live(x)' = Ledger!Live(x) /\ settlement'[x] = settlement[x]

\* settle() touches one id; a live run is then due.
LEMMA SettleEffect ==
  ASSUME LedgerInv, NEW id \in Ids, NEW status \in Ledger!Terminal, Ledger!Settle(id, status)
  PROVE  /\ [Ledger!Next]_ledgerVars
         /\ ~Ledger!Live(id)' /\ OtherRuns(id)
         /\ settlement'[id] = IF Ledger!Live(id) THEN [status |-> status, claimed |-> FALSE]
                                                 ELSE settlement[id]
<1>0. Ledger!TypeOK  BY DEF LedgerInv
<1>1. [Ledger!Next]_ledgerVars  BY DEF Ledger!Next
<1>2. CASE Ledger!Live(id)
  <2>1. /\ active' = [active EXCEPT ![id] = Ledger!NoRun]
        /\ settlement' = [settlement EXCEPT ![id] = [status |-> status, claimed |-> FALSE]]
    BY <1>2 DEF Ledger!Settle
  <2>2. QED
    BY <1>0, <1>1, <1>2, <2>1 DEF Ledger!TypeOK, Ledger!Live, Ledger!NoRun, OtherRuns
<1>3. CASE ~Ledger!Live(id)
  BY <1>1, <1>3 DEF Ledger!Settle, Ledger!ledgerVars, Ledger!Live, OtherRuns
<1>4. QED  BY <1>2, <1>3

\* Settling and claiming touches one id; what was live or due is then claimed.
LEMMA ClaimEffect ==
  ASSUME LedgerInv, NEW id \in Ids, NEW status \in Ledger!Terminal,
         Ledger!SettleAndClaim(id, status)
  PROVE  /\ [Ledger!Next]_ledgerVars
         /\ ~Ledger!Live(id)' /\ OtherRuns(id)
         /\ Ledger!Live(id) \/ Ledger!Due(id) =>
              /\ Ledger!ClaimAnswer(id, status) \in Ledger!Facts
              /\ settlement'[id] = [status |-> Ledger!ClaimAnswer(id, status).status,
                                    claimed |-> TRUE]
         /\ ~Ledger!Live(id) /\ ~Ledger!Due(id) =>
              /\ Ledger!ClaimAnswer(id, status) = None
              /\ settlement'[id] = settlement[id]
<1>0. Ledger!TypeOK  BY DEF LedgerInv
<1>1. [Ledger!Next]_ledgerVars  BY DEF Ledger!Next
<1>2. CASE Ledger!Live(id)
  <2>1. Ledger!ClaimAnswer(id, status) = [status |-> status, session |-> active[id].session]
    BY <1>2 DEF Ledger!ClaimAnswer
  <2>2. Ledger!ClaimAnswer(id, status) \in Ledger!Facts
    BY <1>0, <2>1 DEF Ledger!Facts, Ledger!TypeOK
  <2>3. QED
    BY <1>0, <1>1, <1>2, <2>1, <2>2
       DEF Ledger!SettleAndClaim, Ledger!TypeOK, Ledger!Live, Ledger!NoRun, OtherRuns
<1>3. CASE ~Ledger!Live(id)
  <2>1. Ledger!ClaimAnswer(id, status) = Ledger!Claimable(id)
    BY <1>3 DEF Ledger!ClaimAnswer
  <2>2. Ledger!Claimable(id) # None <=> Ledger!Due(id)  BY <1>3, Answer
  <2>3. Ledger!Due(id) => Ledger!Claimable(id).status = settlement[id].status
    BY <1>3, LedgerAnswers DEF AnswersOncePerSettlement, Ledger!AnswersOncePerSettlement
  <2>4. Ledger!Claimable(id) \in Ledger!Facts \cup {None}
    <3>1. CASE Ledger!IndexOf(id) = {}
      BY <1>0, <3>1 DEF Ledger!Claimable, Ledger!TypeOK
    <3>2. CASE Ledger!IndexOf(id) # {}
      <4> DEFINE i == CHOOSE j \in Ledger!IndexOf(id) : TRUE
      <4>1. i \in DOMAIN recent  BY <3>2 DEF Ledger!IndexOf
      <4>2. recent[i] \in Ledger!Settled  BY <1>0, <4>1 DEF Ledger!TypeOK
      <4>3. Ledger!FactsOf(recent[i]) \in Ledger!Facts
        BY <4>2 DEF Ledger!FactsOf, Ledger!Settled, Ledger!Facts
      <4>4. QED  BY <3>2, <4>3 DEF Ledger!Claimable
    <3>3. QED  BY <3>1, <3>2
  <2>5. /\ ~Ledger!Live(id)' /\ OtherRuns(id)
        /\ settlement' = IF Ledger!Claimable(id) # None
                         THEN [settlement EXCEPT ![id].claimed = TRUE] ELSE settlement
    BY <1>0, <1>3
       DEF Ledger!SettleAndClaim, Ledger!TypeOK, Ledger!Live, Ledger!NoRun, OtherRuns
  <2>6. settlement[id] = [status |-> settlement[id].status, claimed |-> settlement[id].claimed]
    BY <1>0 DEF Ledger!TypeOK
  <2>7. Ledger!Due(id) =>
          settlement'[id] = [status |-> settlement[id].status, claimed |-> TRUE]
    BY <1>0, <2>2, <2>5, <2>6 DEF Ledger!TypeOK
  <2>8. QED  BY <1>1, <1>3, <2>1, <2>2, <2>3, <2>4, <2>5, <2>7
<1>4. QED  BY <1>2, <1>3

\* After ensureCovered the id is live, and settled as before if it was live.
LEMMA CoverEffect ==
  ASSUME LedgerInv, NEW id \in Ids, Ledger!EnsureCovered(id, Session)
  PROVE  /\ [Ledger!Next]_ledgerVars
         /\ Ledger!Live(id)' /\ OtherRuns(id)
         /\ Ledger!Live(id) => settlement'[id] = settlement[id]
<1>0. Ledger!TypeOK  BY DEF LedgerInv
<1>1. [Ledger!Next]_ledgerVars  BY DEF Ledger!Next
<1>2. CASE Ledger!Live(id)
  BY <1>0, <1>1, <1>2 DEF Ledger!EnsureCovered, Ledger!TypeOK, Ledger!Live, OtherRuns
<1>3. CASE ~Ledger!Live(id)
  BY <1>0, <1>1, <1>3
     DEF Ledger!EnsureCovered, Ledger!Register, Ledger!Run, Ledger!TypeOK, Ledger!Live, OtherRuns
<1>4. QED  BY <1>2, <1>3

\* A reservation registers one id anew.
LEMMA ReserveEffect ==
  ASSUME LedgerInv, NEW id \in Ids, NEW weight \in 1..SWARM_CONCURRENCY,
         Ledger!TryReserve(id, Session, weight)
  PROVE  /\ [Ledger!Next]_ledgerVars
         /\ Ledger!Live(id)' /\ OtherRuns(id)
         /\ settlement'[id] = Ledger!Open
<1>0. Ledger!TypeOK  BY DEF LedgerInv
<1>1. [Ledger!Next]_ledgerVars  BY DEF Ledger!Next
<1>2. Ledger!Register(id, Session, weight)  BY DEF Ledger!TryReserve
<1>3. QED
  BY <1>0, <1>1, <1>2
     DEF Ledger!Register, Ledger!Run, Ledger!TypeOK, Ledger!Live, OtherRuns

\* A cancellation leaves every run live and every settlement as it is.
LEMMA CancelEffect ==
  ASSUME LedgerInv, NEW ids \in SUBSET Ids, Ledger!RequestCancel(ids)
  PROVE  /\ [Ledger!Next]_ledgerVars
         /\ \A x \in Ids : Ledger!Live(x)' = Ledger!Live(x)
         /\ settlement' = settlement
<1>0. Ledger!TypeOK  BY DEF LedgerInv
<1>1. [Ledger!Next]_ledgerVars  BY DEF Ledger!Next
<1>2. QED  BY <1>0, <1>1 DEF Ledger!RequestCancel, Ledger!TypeOK, Ledger!Live

-----------------------------------------------------------------------------
(* What a step leaves alone in its own call.                               *)

\* A step that concerns call c only, uses the ledger as specified and keeps the invariant
\* of c.
StepOf(c) ==
  /\ [Ledger!Next]_ledgerVars
  /\ Typed'
  /\ CallInv(c)'
  /\ \A d \in Calls \ {c} : Same(d)

\* A step that is about one call and keeps its invariant keeps that of all.
LEMMA StepInv ==
  ASSUME RunsInv, NEW c \in Calls, StepOf(c)
  PROVE  RunsInv'
<1>1. LedgerInv'  BY LedgerStep DEF RunsInv, StepOf
<1>2. ASSUME NEW d \in Calls PROVE CallInv(d)'
  <2>1. CASE d = c  BY <2>1 DEF StepOf
  <2>2. CASE d # c  BY <2>2, Undisturbed DEF RunsInv, StepOf
  <2>3. QED  BY <2>1, <2>2
<1>3. QED  BY <1>1, <1>2 DEF RunsInv, StepOf

\* A step that concerns the ids of c, and of the calls c alone.
LEMMA SameOthers ==
  ASSUME NEW c \in Calls, NEW d \in Calls, d # c,
         call'[d] = call[d], swarm'[d] = swarm[d], item'[d] = item[d], notified'[d] = notified[d],
         \A id \in Ids : id[1] # c =>
           /\ handle'[id] = handle[id] /\ exec'[id] = exec[id] /\ row'[id] = row[id]
           /\ Ledger!Live(id)' = Ledger!Live(id) /\ settlement'[id] = settlement[id]
  PROVE  Same(d)
<1>1. \A id \in IdsOf(d) : id \in Ids /\ id[1] # c  BY IdFacts
<1>2. QED  BY <1>1 DEF Same

\* Executions that are not started stay where their callers are.
LEMMA StillPlaced ==
  ASSUME NEW c \in Calls, Placed(c),
         item'[c] = item[c], swarm'[c].phase = swarm[c].phase,
         \A e \in IdsOf(c) : e # Own(c) /\ exec'[e].state # "idle" => exec[e].state # "idle",
         exec'[Own(c)].state # "idle" => Place(Own(c))'
  PROVE  Placed(c)'
<1>1. SUFFICES ASSUME NEW e \in IdsOf(c), exec'[e].state # "idle" PROVE Place(e)'
  BY DEF Placed
<1>2. e[1] = c  BY IdFacts
<1>3. CASE e = Own(c)  BY <1>1, <1>3
<1>4. CASE e # Own(c)
  <2>1. Place(e)  BY <1>1, <1>4 DEF Placed
  <2>2. QED  BY <1>2, <1>4, <2>1 DEF Place
<1>5. QED  BY <1>3, <1>4

\* Handles stay those of running executions while none of these ends.
LEMMA StillHandled ==
  ASSUME NEW c \in Calls, Handled(c), call'[c].keys = call[c].keys,
         \A id \in IdsOf(c) :
           /\ handle'[id] = handle[id]
           /\ exec[id].state = "running" => exec'[id].state = "running"
           /\ id # Own(c) => Ledger!Live(id)' = Ledger!Live(id)
  PROVE  Handled(c)'
<1>1. SUFFICES ASSUME NEW id \in IdsOf(c), handle[id] # None
               PROVE  IdOf(handle[id])' = id /\ Running(handle[id])'
  BY DEF Handled
<1>2. handle[id] \in IdsOf(c) /\ IdOf(handle[id]) = id /\ Running(handle[id])
  BY <1>1 DEF Handled
<1>3. handle[id][1] = c  BY <1>2, IdFacts
<1>4. IdOf(handle[id])' = IdOf(handle[id])
  <2>1. handle'[id] = handle[id]  OBVIOUS
  <2>2. QED  BY <1>3, <2>1 DEF IdOf, WorkerOf
<1>5. Running(handle[id])'  BY <1>2 DEF Running
<1>6. QED  BY <1>2, <1>4, <1>5

\* An abort goes on reaching a batch that starts nothing.
LEMMA StillReached ==
  ASSUME NEW c \in Calls, AbortReaches(c), swarm'[c].aborted => swarm[c].aborted,
         \A e \in IdsOf(c) : e # Own(c) /\ exec'[e].state = "running" =>
           exec[e].state = "running" /\ exec'[e].aborted = exec[e].aborted
  PROVE  AbortReaches(c)'
<1>1. SUFFICES ASSUME swarm'[c].aborted, NEW e \in IdsOf(c), e # Own(c), exec'[e].state = "running"
               PROVE  exec'[e].aborted
  BY DEF AbortReaches, ExecsOf, Running
<1>2. QED  BY <1>1 DEF AbortReaches, ExecsOf, Running

\* A step of the tool call itself, outside the swarm.
LEMMA CallMoves ==
  ASSUME RunsInv, NEW c \in Calls,
         [Ledger!Next]_ledgerVars, OtherRuns(Own(c)), Typed',
         UNCHANGED <<handle, swarm, item>>,
         \A d \in Calls \ {c} : call'[d] = call[d] /\ notified'[d] = notified[d],
         \A id \in Ids \ {Own(c)} : exec'[id] = exec[id] /\ row'[id] = row[id],
         call'[c].keys = call[c].keys,
         call[c].pc # "swarm", call'[c].pc \notin {"idle", "refused", "swarm"},
         Running(Own(c)) => Running(Own(c))',
         exec'[Own(c)].state # "idle" => Place(Own(c))',
         Staged(c)'
  PROVE  StepOf(c)
<1>0. LedgerInv /\ Typed /\ CallInv(c) /\ Own(c) \in IdsOf(c)  BY OwnId DEF RunsInv
<1>1. Keyed(c)'  BY <1>0 DEF CallInv, Keyed, Tasks
<1>2. Placed(c)'
  <2>1. \A e \in IdsOf(c) : e # Own(c) => exec'[e] = exec[e]  BY IdFacts
  <2>2. QED  BY <1>0, <2>1, StillPlaced DEF CallInv
<1>3. Handled(c)'
  <2>1. \A id \in IdsOf(c) :
          /\ handle'[id] = handle[id]
          /\ exec[id].state = "running" => exec'[id].state = "running"
          /\ id # Own(c) => Ledger!Live(id)' = Ledger!Live(id)
    BY IdFacts DEF OtherRuns, Running
  <2>2. QED  BY <1>0, <2>1, StillHandled DEF CallInv
<1>4. AbortReaches(c)'
  <2>1. \A e \in IdsOf(c) : e # Own(c) => exec'[e] = exec[e]  BY IdFacts
  <2>2. QED  BY <1>0, <2>1, StillReached DEF CallInv
<1>5. ASSUME NEW d \in Calls \ {c} PROVE Same(d)
  <2>1. \A id \in Ids : id[1] # c =>
          /\ handle'[id] = handle[id] /\ exec'[id] = exec[id] /\ row'[id] = row[id]
          /\ Ledger!Live(id)' = Ledger!Live(id) /\ settlement'[id] = settlement[id]
    BY <1>0, IdFacts DEF OtherRuns
  <2>2. QED  BY <1>5, <2>1, SameOthers
<1>6. QED  BY <1>1, <1>2, <1>3, <1>4, <1>5 DEF StepOf, CallInv

\* What the call's own run may be, where the call stands.
LEMMA OwnIdle ==
  ASSUME RunsInv, NEW c \in Calls,
         call[c].pc \notin {"engine", "persist", "notify", "wrapup", "done"}
  PROVE  exec[Own(c)].state = "idle"
<1>1. Own(c) \in IdsOf(c) /\ Own(c)[1] = c  BY OwnId DEF Own
<1>2. QED  BY <1>1 DEF RunsInv, CallInv, Placed, Place

\* A move of the program counter of a call.
LEMMA Gone ==
  ASSUME Typed, NEW c \in Calls, NEW pc \in Pcs, Goto(c, pc)
  PROVE  /\ call' \in [Calls -> CallRec]
         /\ \A d \in Calls \ {c} : call'[d] = call[d]
         /\ call'[c].pc = pc /\ call'[c].keys = call[c].keys /\ call'[c].claim = call[c].claim
<1>1. call[c] \in CallRec /\ call \in [Calls -> CallRec]  BY DEF Typed
<1>2. [call[c] EXCEPT !.pc = pc] \in CallRec  BY <1>1 DEF CallRec
<1>3. call' = [call EXCEPT ![c] = [call[c] EXCEPT !.pc = pc]]  BY DEF Goto
<1>4. QED  BY <1>1, <1>2, <1>3 DEF CallRec

\* The row of the run is started.
LEMMA BeginRunStep == ASSUME RunsInv, NEW c \in Calls, BeginRun(c) PROVE StepOf(c)
<1>0. LedgerInv /\ Typed /\ CallInv(c) /\ Own(c) \in IdsOf(c) /\ Own(c) \in Ids
  BY OwnId, IdFacts DEF RunsInv
<1>1. /\ Goto(c, "dispatch") /\ row' = [row EXCEPT ![Own(c)] = "running"]
      /\ UNCHANGED <<ledgerVars, handle, exec, swarm, item, marks, notified>>
      /\ call[c].pc = "begin"
  BY DEF BeginRun, At, StartRow, engineVars, swarmVars
<1>2. /\ call' \in [Calls -> CallRec] /\ \A d \in Calls \ {c} : call'[d] = call[d]
      /\ call'[c].pc = "dispatch" /\ call'[c].keys = call[c].keys /\ call'[c].claim = call[c].claim
  BY <1>0, <1>1, Gone DEF Pcs
<1>3. Typed' /\ row'[Own(c)] = "running"  BY <1>0, <1>1, <1>2 DEF Typed
<1>4. [Ledger!Next]_ledgerVars /\ OtherRuns(Own(c)) /\ Ledger!Live(Own(c))' = Ledger!Live(Own(c))
  BY <1>1 DEF OtherRuns, ledgerVars, Ledger!Live
<1>5. Staged(c)'
  BY <1>0, <1>1, <1>2, <1>3, <1>4 DEF CallInv, Staged, ledgerVars, Ledger!Terminal
<1>6. exec[Own(c)].state = "idle"  BY <1>1, OwnIdle
<1>7. QED  BY <1>0, <1>1, <1>2, <1>3, <1>4, <1>5, <1>6, CallMoves DEF Typed, Running

\* A simple task needs no engine.
LEMMA CallDirectStep == ASSUME RunsInv, NEW c \in Calls, CallDirect(c) PROVE StepOf(c)
<1>0. LedgerInv /\ Typed /\ CallInv(c) /\ Own(c) \in IdsOf(c) /\ Own(c) \in Ids
  BY OwnId, IdFacts DEF RunsInv
<1>1. /\ Goto(c, "direct")
      /\ UNCHANGED <<ledgerVars, handle, exec, swarm, item, row, marks, notified>>
      /\ call[c].pc = "dispatch"
  BY DEF CallDirect, At, diskVars, engineVars, swarmVars
<1>2. /\ call' \in [Calls -> CallRec] /\ \A d \in Calls \ {c} : call'[d] = call[d]
      /\ call'[c].pc = "direct" /\ call'[c].keys = call[c].keys /\ call'[c].claim = call[c].claim
  BY <1>0, <1>1, Gone DEF Pcs
<1>3. Typed'  BY <1>0, <1>1, <1>2 DEF Typed
<1>4. [Ledger!Next]_ledgerVars /\ OtherRuns(Own(c)) /\ Ledger!Live(Own(c))' = Ledger!Live(Own(c))
  BY <1>1 DEF OtherRuns, ledgerVars, Ledger!Live
<1>5. Staged(c)'
  BY <1>0, <1>1, <1>2, <1>3, <1>4 DEF CallInv, Staged, ledgerVars, Ledger!Terminal
<1>6. exec[Own(c)].state = "idle"  BY <1>1, OwnIdle
<1>7. QED  BY <1>0, <1>1, <1>2, <1>3, <1>4, <1>5, <1>6, CallMoves DEF Typed, Running

\* The row gets the status that was settled, or keeps the one it has.
LEMMA PersistStep == ASSUME RunsInv, NEW c \in Calls, Persist(c) PROVE StepOf(c)
<1>0. LedgerInv /\ Typed /\ CallInv(c) /\ Own(c) \in IdsOf(c) /\ Own(c) \in Ids
  BY OwnId, IdFacts DEF RunsInv
<1>1. /\ Goto(c, "notify")
      /\ UNCHANGED <<ledgerVars, handle, exec, swarm, item, marks, notified>>
      /\ call[c].pc = "persist"
      /\ row' = row \/ SettleRow(Own(c), call[c].claim.status)
  BY DEF Persist, At, engineVars, swarmVars
<1>2. call[c].claim \in Ledger!Facts /\ call[c].claim.status = settlement[Own(c)].status
  BY <1>0, <1>1 DEF CallInv, Staged, Typed, CallRec
<1>3. /\ row' \in [Ids -> {"none", "running", "cancel_requested", "completed", "failed"}]
      /\ \A id \in Ids \ {Own(c)} : row'[id] = row[id]
      /\ row'[Own(c)] = row[Own(c)] \/ row'[Own(c)] = call[c].claim.status
  BY <1>0, <1>1, <1>2 DEF SettleRow, Typed, Ledger!Facts, Ledger!Terminal
<1>4. /\ call' \in [Calls -> CallRec] /\ \A d \in Calls \ {c} : call'[d] = call[d]
      /\ call'[c].pc = "notify" /\ call'[c].keys = call[c].keys /\ call'[c].claim = call[c].claim
  BY <1>0, <1>1, Gone DEF Pcs
<1>5. Typed'  BY <1>0, <1>1, <1>3, <1>4 DEF Typed
<1>6. [Ledger!Next]_ledgerVars /\ OtherRuns(Own(c)) /\ Ledger!Live(Own(c))' = Ledger!Live(Own(c))
  BY <1>1 DEF OtherRuns, ledgerVars, Ledger!Live
<1>7. Staged(c)'
  BY <1>0, <1>1, <1>2, <1>3, <1>4, <1>6 DEF CallInv, Staged, ledgerVars
<1>8. exec[Own(c)].state # "idle" => Place(Own(c))'
  BY <1>0, <1>1, <1>4 DEF CallInv, Placed, Place, Own, Running
<1>9. QED  BY <1>0, <1>1, <1>3, <1>4, <1>5, <1>6, <1>7, <1>8, CallMoves DEF Typed, Running

\* The session is told, for the first time.
LEMMA NotifyStep == ASSUME RunsInv, NEW c \in Calls, Notify(c) PROVE StepOf(c)
<1>0. LedgerInv /\ Typed /\ CallInv(c) /\ Own(c) \in IdsOf(c) /\ Own(c) \in Ids
  BY OwnId, IdFacts DEF RunsInv
<1>1. /\ Goto(c, "wrapup") /\ notified' = [notified EXCEPT ![c] = @ + 1]
      /\ UNCHANGED <<ledgerVars, handle, exec, swarm, item, row, marks>>
      /\ call[c].pc = "notify"
  BY DEF Notify, At, diskVars, engineVars, swarmVars
<1>2. /\ call' \in [Calls -> CallRec] /\ \A d \in Calls \ {c} : call'[d] = call[d]
      /\ call'[c].pc = "wrapup" /\ call'[c].keys = call[c].keys /\ call'[c].claim = call[c].claim
  BY <1>0, <1>1, Gone DEF Pcs
<1>3. Typed' /\ notified'[c] = notified[c] + 1
  <2>1. notified'[c] = notified[c] + 1 /\ notified' \in [Calls -> Nat]
    BY <1>0, <1>1 DEF Typed
  <2>2. QED  BY <1>0, <1>1, <1>2, <2>1 DEF Typed
<1>4. [Ledger!Next]_ledgerVars /\ OtherRuns(Own(c)) /\ Ledger!Live(Own(c))' = Ledger!Live(Own(c))
  BY <1>1 DEF OtherRuns, ledgerVars, Ledger!Live
<1>5. Staged(c)'
  BY <1>0, <1>1, <1>2, <1>3, <1>4 DEF CallInv, Staged, ledgerVars
<1>6. exec[Own(c)].state # "idle" => Place(Own(c))'
  BY <1>0, <1>1, <1>2 DEF CallInv, Placed, Place, Own, Running
<1>7. QED  BY <1>0, <1>1, <1>2, <1>3, <1>4, <1>5, <1>6, CallMoves DEF Typed, Running

\* settleRun(): the first to come gets the side effects and persists what was settled,
\* whoever comes later goes on.
LEMMA SettleRunEffect ==
  ASSUME RunsInv, NEW c \in Calls, NEW status \in Ledger!Terminal, NEW caught \in BOOLEAN,
         SettleRun(c, status, caught), UNCHANGED <<row, notified>>,
         \/ call[c].pc \in {"begin", "dispatch", "direct", "swarm", "wrapup"}
         \/ call[c].pc = "engine" /\ Ended(Own(c))
  PROVE  /\ [Ledger!Next]_ledgerVars /\ OtherRuns(Own(c))
         /\ call' \in [Calls -> CallRec]
         /\ \A d \in Calls \ {c} : call'[d] = call[d]
         /\ call'[c].keys = call[c].keys /\ call'[c].pc \in {"persist", "wrapup"}
         /\ Staged(c)'
<1> DEFINE answer == Ledger!ClaimAnswer(Own(c), status)
<1>0. /\ LedgerInv /\ Typed /\ Own(c) \in Ids /\ Staged(c)
      /\ call[c] \in CallRec /\ call \in [Calls -> CallRec]
  BY OwnId, IdFacts DEF RunsInv, CallInv, Typed
<1>1. /\ Ledger!SettleAndClaim(Own(c), status)
      /\ call' = [call EXCEPT ![c].pc = IF answer = None THEN "wrapup" ELSE "persist",
                              ![c].claim = answer,
                              ![c].caught = @ \/ caught]
  BY DEF SettleRun
<1>2. /\ [Ledger!Next]_ledgerVars
      /\ ~Ledger!Live(Own(c))' /\ OtherRuns(Own(c))
      /\ Ledger!Live(Own(c)) \/ Ledger!Due(Own(c)) =>
           /\ answer \in Ledger!Facts
           /\ settlement'[Own(c)] = [status |-> answer.status, claimed |-> TRUE]
      /\ ~Ledger!Live(Own(c)) /\ ~Ledger!Due(Own(c)) =>
           answer = None /\ settlement'[Own(c)] = settlement[Own(c)]
  BY <1>0, <1>1, ClaimEffect
<1>3. answer \in Ledger!Facts \cup {None}  BY <1>2
<1>4. /\ call' \in [Calls -> CallRec]
      /\ \A d \in Calls \ {c} : call'[d] = call[d]
      /\ call'[c].keys = call[c].keys /\ call'[c].claim = answer
      /\ call'[c].pc = IF answer = None THEN "wrapup" ELSE "persist"
  <2> HIDE DEF answer
  <2>1. (call[c].caught \/ caught) \in BOOLEAN  BY <1>0 DEF CallRec
  <2>2. (IF answer = None THEN "wrapup" ELSE "persist") \in Pcs  BY DEF Pcs
  <2> DEFINE r == [call[c] EXCEPT !.pc = IF answer = None THEN "wrapup" ELSE "persist",
                                  !.claim = answer, !.caught = call[c].caught \/ caught]
  <2>3. /\ r \in CallRec /\ r.keys = call[c].keys /\ r.claim = answer
        /\ r.pc = IF answer = None THEN "wrapup" ELSE "persist"
    BY <1>0, <1>3, <2>1, <2>2 DEF CallRec
  <2>4. call' = [call EXCEPT ![c] = r]  BY <1>0, <1>1
  <2> HIDE DEF r
  <2>5. call'[c] = r /\ \A d \in Calls \ {c} : call'[d] = call[d]  BY <1>0, <2>4
  <2>6. call' \in [Calls -> CallRec]  BY <1>0, <2>3, <2>4
  <2>7. QED  BY <2>3, <2>5, <2>6
<1>5. call[c].pc = "wrapup" \/ Ledger!Live(Own(c)) \/ Ledger!Due(Own(c))
  BY <1>0 DEF Staged, Running, Ended
<1>6. call[c].pc = "wrapup" <=> answer = None
  <2>1. call[c].pc = "wrapup" => ~Ledger!Live(Own(c)) /\ ~Ledger!Due(Own(c))
    BY <1>0 DEF Staged, Ledger!Due
  <2>2. QED  BY <1>2, <1>5, <2>1, Assumed
<1>7. Staged(c)'
  <2> HIDE DEF answer
  <2>1. CASE call[c].pc = "wrapup"
    <3>1. call'[c].pc = "wrapup" /\ settlement'[Own(c)] = settlement[Own(c)]
      BY <1>2, <1>4, <1>5, <1>6, <2>1, Assumed
    <3>2. QED  BY <1>0, <1>2, <2>1, <3>1 DEF Staged
  <2>2. CASE call[c].pc # "wrapup"
    <3>1. /\ call'[c].pc = "persist" /\ call'[c].claim = answer /\ answer # None
          /\ settlement'[Own(c)].status = answer.status /\ settlement'[Own(c)].claimed
      BY <1>2, <1>4, <1>5, <1>6, <2>2
    <3>2. notified[c] = 0 /\ row[Own(c)] \notin Ledger!Terminal
      BY <1>0, <2>2 DEF Staged
    <3>3. QED  BY <1>2, <3>1, <3>2 DEF Staged
  <2>3. QED  BY <2>1, <2>2
<1>8. QED  BY <1>2, <1>4, <1>7

\* Where a call may settle its run.
Settling(c) ==
  \/ call[c].pc \in {"begin", "dispatch", "direct", "wrapup"}
  \/ call[c].pc = "engine" /\ Ended(Own(c))

\* The engine is left alone, or the caller collects the execution e.
Collecting(e) ==
  \/ exec' = exec
  \/ Ended(e) /\ Collect(e)

\* A step that settles the run and leaves the engine alone, but for what it collects.
LEMMA SettlingStep ==
  ASSUME RunsInv, NEW c \in Calls, NEW status \in Ledger!Terminal, NEW caught \in BOOLEAN,
         SettleRun(c, status, caught), UNCHANGED <<handle, swarm, item, row, marks, notified>>,
         Settling(c), Collecting(Own(c))
  PROVE  StepOf(c)
<1>0. Typed /\ CallInv(c) /\ Own(c) \in IdsOf(c) /\ Own(c) \in Ids /\ Own(c)[1] = c
  BY OwnId, IdFacts DEF RunsInv
<1>1. /\ [Ledger!Next]_ledgerVars /\ OtherRuns(Own(c))
      /\ call' \in [Calls -> CallRec]
      /\ \A d \in Calls \ {c} : call'[d] = call[d]
      /\ call'[c].keys = call[c].keys /\ call'[c].pc \in {"persist", "wrapup"}
      /\ Staged(c)'
  BY SettleRunEffect DEF Settling
<1>2. /\ exec' \in [Ids -> [state : {"idle", "running", "ended"}, aborted : BOOLEAN,
                            completed : BOOLEAN]]
      /\ \A e \in Ids \ {Own(c)} : exec'[e] = exec[e]
      /\ exec'[Own(c)].state \in {"idle", exec[Own(c)].state}
  <2>1. CASE exec' = exec  BY <1>0, <2>1 DEF Typed
  <2>2. CASE Collect(Own(c))  BY <1>0, <2>2 DEF Typed, Collect, IdleExec
  <2>3. QED  BY <2>1, <2>2 DEF Collecting
<1>3. Typed'  BY <1>0, <1>1, <1>2 DEF Typed
<1>4. ~Running(Own(c))
  <2>1. CASE call[c].pc = "engine"  BY <2>1 DEF Settling, Running, Ended
  <2>2. CASE call[c].pc # "engine"
    BY <1>0, <2>2 DEF Settling, CallInv, Placed, Place, Running
  <2>3. QED  BY <2>1, <2>2
<1>5. exec'[Own(c)].state # "idle" => Place(Own(c))'
  <2>1. ~Running(Own(c))'  BY <1>2, <1>4 DEF Running
  <2>2. QED  BY <1>0, <1>1, <2>1 DEF Place, Own
<1>6. call[c].pc # "swarm" /\ call'[c].pc \notin {"idle", "refused", "swarm"}
  BY <1>1 DEF Settling
<1>7. \A id \in Ids \ {Own(c)} : exec'[id] = exec[id] /\ row'[id] = row[id]  BY <1>2
<1>8. \A d \in Calls \ {c} : call'[d] = call[d] /\ notified'[d] = notified[d]  BY <1>1
<1>9. QED  BY <1>1, <1>3, <1>4, <1>5, <1>6, <1>7, <1>8, CallMoves

\* A rejected call settles its run as failed.
LEMMA RejectStep == ASSUME RunsInv, NEW c \in Calls, Reject(c) PROVE StepOf(c)
<1>1. "failed" \in Ledger!Terminal /\ FALSE \in BOOLEAN  BY DEF Ledger!Terminal
<1>2. SettleRun(c, "failed", FALSE)  BY DEF Reject
<1>3. /\ At(c, "dispatch")
      /\ UNCHANGED <<engineVars, swarmVars, diskVars, notified>>
  BY DEF Reject
<1>4. Settling(c)  BY <1>3 DEF Settling, At
<1>5. exec' = exec /\ UNCHANGED <<handle, swarm, item, row, marks, notified>>
  BY <1>3 DEF engineVars, swarmVars, diskVars
<1>6. Collecting(Own(c))  BY <1>5 DEF Collecting
<1>7. QED  BY <1>1, <1>2, <1>4, <1>5, <1>6, SettlingStep

\* So does a call that throws, unless it is settled already.
LEMMA ThrowStep == ASSUME RunsInv, NEW c \in Calls, Throw(c) PROVE StepOf(c)
<1>1. "failed" \in Ledger!Terminal /\ TRUE \in BOOLEAN  BY DEF Ledger!Terminal
<1>2. SettleRun(c, "failed", TRUE)  BY DEF Throw
<1>3. /\ \/ call[c].pc \in {"begin", "dispatch", "direct"}
         \/ At(c, "engine") /\ Ended(Own(c))
         \/ At(c, "wrapup") /\ ~call[c].caught
      /\ UNCHANGED <<engineVars, swarmVars, diskVars, notified>>
  BY DEF Throw
<1>4. Settling(c)  BY <1>3 DEF Settling, At
<1>5. exec' = exec /\ UNCHANGED <<handle, swarm, item, row, marks, notified>>
  BY <1>3 DEF engineVars, swarmVars, diskVars
<1>6. Collecting(Own(c))  BY <1>5 DEF Collecting
<1>7. QED  BY <1>1, <1>2, <1>4, <1>5, <1>6, SettlingStep

\* A direct call settles its run.
LEMMA DirectReturnsStep == ASSUME RunsInv, NEW c \in Calls, DirectReturns(c) PROVE StepOf(c)
<1>1. "completed" \in Ledger!Terminal /\ FALSE \in BOOLEAN  BY DEF Ledger!Terminal
<1>2. SettleRun(c, "completed", FALSE)  BY DEF DirectReturns
<1>3. /\ At(c, "direct")
      /\ UNCHANGED <<engineVars, swarmVars, diskVars, notified>>
  BY DEF DirectReturns
<1>4. Settling(c)  BY <1>3 DEF Settling, At
<1>5. exec' = exec /\ UNCHANGED <<handle, swarm, item, row, marks, notified>>
  BY <1>3 DEF engineVars, swarmVars, diskVars
<1>6. Collecting(Own(c))  BY <1>5 DEF Collecting
<1>7. QED  BY <1>1, <1>2, <1>4, <1>5, <1>6, SettlingStep

\* The tool settles after the engine: it finds the settlement due.
LEMMA AgentReturnsStep == ASSUME RunsInv, NEW c \in Calls, AgentReturns(c) PROVE StepOf(c)
<1>1. Status(exec[Own(c)].completed) \in Ledger!Terminal /\ FALSE \in BOOLEAN  BY DEF Ledger!Terminal, Status
<1>2. SettleRun(c, Status(exec[Own(c)].completed), FALSE)  BY DEF AgentReturns
<1>3. /\ Settling(c) /\ Collecting(Own(c))
      /\ UNCHANGED <<handle, swarm, item, row, marks, notified>>
  BY DEF AgentReturns, Settling, Collecting, At, swarmVars, diskVars
<1>4. QED  BY <1>1, <1>2, <1>3, SettlingStep

\* The reservation is given back, which changes nothing for a settled run.
LEMMA FinallyStep == ASSUME RunsInv, NEW c \in Calls, Finally(c) PROVE StepOf(c)
<1>0. LedgerInv /\ Typed /\ CallInv(c) /\ Own(c) \in IdsOf(c) /\ Own(c) \in Ids /\ Own(c)[1] = c
  BY OwnId, IdFacts DEF RunsInv
<1>1. /\ Goto(c, "done")
      /\ UNCHANGED <<handle, exec, swarm, item, row, marks, notified>>
      /\ call[c].pc = "wrapup"
      /\ ledgerVars' = ledgerVars \/ Ledger!Settle(Own(c), "failed")
  BY DEF Finally, At, diskVars, engineVars, swarmVars
<1>2. /\ call' \in [Calls -> CallRec] /\ \A d \in Calls \ {c} : call'[d] = call[d]
      /\ call'[c].pc = "done" /\ call'[c].keys = call[c].keys
  BY <1>0, <1>1, Gone DEF Pcs
<1>3. Typed'  BY <1>0, <1>1, <1>2 DEF Typed
<1>4. ~Ledger!Live(Own(c))  BY <1>0, <1>1 DEF CallInv, Staged
<1>5. /\ [Ledger!Next]_ledgerVars /\ OtherRuns(Own(c))
      /\ ~Ledger!Live(Own(c))' /\ settlement'[Own(c)] = settlement[Own(c)]
  <2>1. CASE ledgerVars' = ledgerVars
    BY <1>4, <2>1 DEF OtherRuns, ledgerVars, Ledger!Live
  <2>2. CASE Ledger!Settle(Own(c), "failed")
    <3>1. "failed" \in Ledger!Terminal  BY DEF Ledger!Terminal
    <3>2. QED  BY <1>0, <1>4, <2>2, <3>1, SettleEffect
  <2>3. QED  BY <1>1, <2>1, <2>2
<1>6. Staged(c)'
  BY <1>0, <1>1, <1>2, <1>5 DEF CallInv, Staged
<1>7. exec[Own(c)].state # "idle" => Place(Own(c))'
  BY <1>0, <1>1, <1>2 DEF CallInv, Placed, Place, Own, Running
<1>8. QED  BY <1>0, <1>1, <1>2, <1>3, <1>5, <1>6, <1>7, CallMoves DEF Typed, Running

\* A call that has nothing in the engine.
Quiet(c) == \A e \in IdsOf(c) : exec[e].state = "idle"

\* Before its launch, and when its batch has collected everything, a call is quiet.
LEMMA QuietCall ==
  ASSUME RunsInv, NEW c \in Calls, call[c].pc \in {"idle", "dispatch", "swarm"},
         swarm[c].phase # "synthesizing",
         \A i \in 1..MaxTasks : item[c][i].state \notin {"running", "verifying"}
  PROVE  Quiet(c)
<1>1. SUFFICES ASSUME NEW e \in IdsOf(c), exec[e].state # "idle" PROVE FALSE
  BY DEF Quiet
<1>2. Place(e) /\ e[1] = c /\ e[2] \in 0..MaxTasks /\ e[3] \in 0..2
  BY <1>1, IdFacts DEF RunsInv, CallInv, Placed
<1>3. e[2] = 0 \/ e[2] \in 1..MaxTasks  BY <1>2, Assumed
<1>4. e # Own(c)  BY <1>2 DEF Place
<1>5. QED  BY <1>2, <1>3, <1>4 DEF Place

\* A step of a call that has nothing in the engine.
LEMMA QuietStep ==
  ASSUME RunsInv, NEW c \in Calls, Quiet(c),
         [Ledger!Next]_ledgerVars, OtherRuns(Own(c)), Typed',
         UNCHANGED <<handle, exec, row>>,
         \A d \in Calls \ {c} : /\ call'[d] = call[d] /\ notified'[d] = notified[d]
                               /\ swarm'[d] = swarm[d] /\ item'[d] = item[d],
         Keyed(c)', Staged(c)'
  PROVE  StepOf(c)
<1>1. \A id \in IdsOf(c) : handle[id] = None /\ (id # Own(c) => ~Ledger!Live(id))
  BY DEF RunsInv, CallInv, Handled, Quiet, Running
<1>2. Placed(c)'  BY DEF Placed, Quiet
<1>3. Handled(c)'
  <2>1. \A id \in IdsOf(c) : id # Own(c) => ~Ledger!Live(id)'
    BY <1>1, IdFacts DEF OtherRuns
  <2>2. QED  BY <1>1, <2>1 DEF Handled
<1>4. AbortReaches(c)'  BY DEF AbortReaches, ExecsOf, Running, Quiet
<1>5. ASSUME NEW d \in Calls \ {c} PROVE Same(d)
  <2>1. \A id \in Ids : id[1] # c =>
          /\ handle'[id] = handle[id] /\ exec'[id] = exec[id] /\ row'[id] = row[id]
          /\ Ledger!Live(id)' = Ledger!Live(id) /\ settlement'[id] = settlement[id]
    BY DEF OtherRuns, Own
  <2>2. QED  BY <2>1, SameOthers
<1>6. QED  BY <1>2, <1>3, <1>4, <1>5 DEF StepOf, CallInv

\* A batch that returns has collected everything it started.
LEMMA SwarmEnds ==
  ASSUME RunsInv, NEW c \in Calls, NEW status \in Ledger!Terminal, NEW caught \in BOOLEAN,
         SettleRun(c, status, caught), UNCHANGED <<handle, exec, row, marks, notified>>,
         call[c].pc = "swarm", swarm[c].phase # "synthesizing",
         \A i \in 1..MaxTasks : item[c][i].state \notin {"running", "verifying"},
         swarm' = [swarm EXCEPT ![c] = NoSwarm], item' = [item EXCEPT ![c] = NoItems]
  PROVE  StepOf(c)
<1>0. LedgerInv /\ Typed /\ CallInv(c) /\ Own(c) \in IdsOf(c) /\ Own(c) \in Ids
  BY OwnId, IdFacts DEF RunsInv
<1>1. /\ [Ledger!Next]_ledgerVars /\ OtherRuns(Own(c))
      /\ call' \in [Calls -> CallRec]
      /\ \A d \in Calls \ {c} : call'[d] = call[d]
      /\ call'[c].keys = call[c].keys /\ call'[c].pc \in {"persist", "wrapup"}
      /\ Staged(c)'
  BY SettleRunEffect
<1>2. /\ swarm'[c] = NoSwarm /\ item'[c] = NoItems
      /\ \A d \in Calls \ {c} : swarm'[d] = swarm[d] /\ item'[d] = item[d]
  BY <1>0 DEF Typed
<1>3. Typed'
  <2>1. NoSwarm \in Batch /\ NoItems \in [1..MaxTasks -> Item]
    BY DEF NoSwarm, Batch, NoItems, Item, ItemStates
  <2>2. swarm' \in [Calls -> Batch] /\ item' \in [Calls -> [1..MaxTasks -> Item]]
    BY <1>0, <2>1 DEF Typed
  <2>3. QED  BY <1>0, <1>1, <2>2 DEF Typed
<1>4. Quiet(c)  BY QuietCall
<1>5. Keyed(c)'
  <2>1. \A i \in 1..MaxTasks : item'[c][i].state = "queued"
    <3>1. \A i \in 1..MaxTasks : NoItems[i].state = "queued"  BY DEF NoItems
    <3>2. item'[c] = NoItems  BY <1>2
    <3>3. QED  BY <3>1, <3>2
  <2>2. swarm'[c].phase = "off"  BY <1>2 DEF NoSwarm
  <2>3. QED  BY <1>0, <1>1, <1>2, <2>1, <2>2 DEF CallInv, Keyed, Busy
<1>6. QED  BY <1>1, <1>2, <1>3, <1>4, <1>5, QuietStep

\* A batch that throws before its first slice has started nothing.
LEMMA ResolveFailsStep == ASSUME RunsInv, NEW c \in Calls, ResolveFails(c) PROVE StepOf(c)
<1>1. "failed" \in Ledger!Terminal /\ TRUE \in BOOLEAN  BY DEF Ledger!Terminal
<1>2. SettleRun(c, "failed", TRUE)  BY DEF ResolveFails
<1>3. /\ At(c, "swarm") /\ swarm[c].phase = "work" /\ item[c] = NoItems
      /\ UNCHANGED <<engineVars, item, diskVars, notified>>
      /\ swarm' = [swarm EXCEPT ![c] = NoSwarm]
  BY DEF ResolveFails
<1>4. /\ UNCHANGED <<handle, exec, row, marks, notified>> /\ call[c].pc = "swarm"
      /\ item' = item /\ swarm[c].phase # "synthesizing"
  BY <1>3 DEF At, engineVars, diskVars
<1>5. item' = [item EXCEPT ![c] = NoItems]
  <2>1. item \in [Calls -> [1..MaxTasks -> Item]]  BY DEF RunsInv, Typed
  <2>2. QED  BY <1>3, <1>4, <2>1
<1>6. \A i \in 1..MaxTasks : item[c][i].state \notin {"running", "verifying"}
  BY <1>3 DEF NoItems
<1>7. QED  BY <1>1, <1>2, <1>3, <1>4, <1>5, <1>6, SwarmEnds

\* A batch returns when its last phase has collected everything.
LEMMA SwarmReturnsStep == ASSUME RunsInv, NEW c \in Calls, SwarmReturns(c) PROVE StepOf(c)
<1>1. Status(AllPassed(c)) \in Ledger!Terminal /\ FALSE \in BOOLEAN
  BY DEF Ledger!Terminal, Status
<1>2. SettleRun(c, Status(AllPassed(c)), FALSE)  BY DEF SwarmReturns
<1>3. /\ At(c, "swarm") /\ swarm[c].phase = "end"
      /\ UNCHANGED <<engineVars, diskVars, upsets, notified>>
      /\ swarm' = [swarm EXCEPT ![c] = NoSwarm] /\ item' = [item EXCEPT ![c] = NoItems]
  BY DEF SwarmReturns
<1>4. /\ UNCHANGED <<handle, exec, row, marks, notified>> /\ call[c].pc = "swarm"
      /\ swarm[c].phase # "synthesizing"
  BY <1>3 DEF At, engineVars, diskVars
<1>5. \A i \in 1..MaxTasks : item[c][i].state \notin {"running", "verifying"}
  BY <1>3 DEF RunsInv, CallInv, Keyed, Busy
<1>6. QED  BY <1>1, <1>2, <1>3, <1>4, <1>5, SwarmEnds

\* A step of a batch that starts nothing in the engine; it may collect what has ended.
Gathers(c) ==
  /\ exec' \in [Ids -> [state : {"idle", "running", "ended"}, aborted : BOOLEAN,
                        completed : BOOLEAN]]
  /\ \A e \in Ids :
       exec'[e] # exec[e] => e[1] = c /\ e # Own(c) /\ Ended(e) /\ exec'[e].state = "idle"

\* Rows of the batch of c are written, not that of its own run.
Writes(c) ==
  /\ row' \in [Ids -> {"none", "running", "cancel_requested", "completed", "failed"}]
  /\ \A id \in Ids : row'[id] # row[id] => id[1] = c /\ id # Own(c)

\* A step of a batch that starts nothing keeps the invariant where its items and
\* executions agree.
LEMMA BatchMoves ==
  ASSUME RunsInv, NEW c \in Calls,
         UNCHANGED <<ledgerVars, call, handle, marks, notified>>, Gathers(c), Writes(c),
         swarm' \in [Calls -> Batch], item' \in [Calls -> [1..MaxTasks -> Item]],
         \A d \in Calls \ {c} : swarm'[d] = swarm[d] /\ item'[d] = item[d],
         swarm'[c].aborted => swarm[c].aborted,
         Keyed(c)', Placed(c)'
  PROVE  StepOf(c)
<1>0. LedgerInv /\ Typed /\ CallInv(c) /\ Own(c) \in IdsOf(c) /\ Own(c) \in Ids /\ Own(c)[1] = c
  BY OwnId, IdFacts DEF RunsInv
<1>1. [Ledger!Next]_ledgerVars  OBVIOUS
<1>2. Typed'  BY <1>0 DEF Typed, Gathers, Writes
<1>3. \A id \in Ids : Ledger!Live(id)' = Ledger!Live(id) /\ settlement'[id] = settlement[id]
  BY DEF ledgerVars, Ledger!Live
<1>4. \A e \in IdsOf(c) : e \in Ids  BY IdFacts
<1>5. Handled(c)'
  <2>1. \A id \in IdsOf(c) :
          /\ handle'[id] = handle[id]
          /\ exec[id].state = "running" => exec'[id].state = "running"
          /\ id # Own(c) => Ledger!Live(id)' = Ledger!Live(id)
    BY <1>3, <1>4 DEF Gathers, Ended
  <2>2. QED  BY <1>0, <2>1, StillHandled DEF CallInv
<1>6. Staged(c)'
  <2>1. exec'[Own(c)] = exec[Own(c)] /\ row'[Own(c)] = row[Own(c)]
    BY <1>0 DEF Gathers, Writes
  <2>2. QED
    BY <1>0, <1>3, <2>1 DEF CallInv, Staged, Running, Ended, Ledger!Due
<1>7. AbortReaches(c)'
  <2>1. \A e \in IdsOf(c) : e # Own(c) /\ exec'[e].state = "running" =>
          exec[e].state = "running" /\ exec'[e].aborted = exec[e].aborted
    BY <1>4 DEF Gathers
  <2>2. QED  BY <1>0, <2>1, StillReached DEF CallInv
<1>8. ASSUME NEW d \in Calls \ {c} PROVE Same(d)
  <2>1. \A id \in Ids : id[1] # c =>
          /\ handle'[id] = handle[id] /\ exec'[id] = exec[id] /\ row'[id] = row[id]
          /\ Ledger!Live(id)' = Ledger!Live(id) /\ settlement'[id] = settlement[id]
    BY <1>3 DEF Gathers, Writes
  <2>2. QED  BY <2>1, SameOthers
<1>9. QED  BY <1>1, <1>2, <1>5, <1>6, <1>7, <1>8 DEF StepOf, CallInv

\* One task of a batch moves on, when what ran for it has been collected.
LEMMA ItemMoves ==
  ASSUME RunsInv, NEW c \in Calls, NEW i \in 1..MaxTasks, NEW r \in Item,
         item' = [item EXCEPT ![c][i] = r], item[c][i].state \in Busy,
         UNCHANGED <<ledgerVars, call, handle, swarm, marks, notified>>, Gathers(c), Writes(c),
         \A e \in IdsOf(c) : e[2] = i => exec'[e].state = "idle"
  PROVE  StepOf(c)
<1>0. Typed /\ CallInv(c)  BY DEF RunsInv
<1>1. /\ item' \in [Calls -> [1..MaxTasks -> Item]]
      /\ \A d \in Calls \ {c} : item'[d] = item[d]
      /\ item'[c][i] = r /\ \A j \in 1..MaxTasks \ {i} : item'[c][j] = item[c][j]
  BY <1>0 DEF Typed
<1>2. swarm[c].phase \in {"work", "gate"} /\ i \in Tasks(c)
  BY <1>0 DEF CallInv, Keyed, Busy
<1>3. Keyed(c)'
  <2>1. \A j \in 1..MaxTasks :
          /\ item'[c][j].state # "queued" => j \in Tasks(c)
          /\ item'[c][j].state \in Busy => swarm[c].phase \in {"work", "gate"}
    BY <1>0, <1>1, <1>2 DEF CallInv, Keyed
  <2>2. QED  BY <1>0, <1>2, <2>1 DEF CallInv, Keyed, Tasks
<1>4. Placed(c)'
  <2>1. SUFFICES ASSUME NEW e \in IdsOf(c), exec'[e].state # "idle" PROVE Place(e)'
    BY DEF Placed
  <2>2. e \in Ids /\ e[1] = c /\ e[2] \in 0..MaxTasks /\ e[2] # i  BY <2>1, IdFacts
  <2>3. exec'[e] = exec[e]  BY <2>1, <2>2 DEF Gathers
  <2>4. Place(e)  BY <1>0, <2>1, <2>3 DEF CallInv, Placed
  <2>5. e[2] # 0 => item'[c][e[2]] = item[c][e[2]]  BY <1>1, <2>2
  <2>6. QED  BY <2>2, <2>3, <2>4, <2>5 DEF Place, Running
<1>5. swarm' \in [Calls -> Batch]  BY <1>0 DEF Typed
<1>6. QED  BY <1>1, <1>3, <1>4, <1>5, BatchMoves

\* A task gets a state.
LEMMA ItemSet ==
  ASSUME Typed, NEW c \in Calls, NEW i \in 1..MaxTasks, NEW state \in ItemStates,
         SetItem(c, i, state)
  PROVE  \E r \in Item : item' = [item EXCEPT ![c][i] = r]
<1>1. item[c][i] \in Item /\ item \in [Calls -> [1..MaxTasks -> Item]]  BY DEF Typed
<1>2. [item[c][i] EXCEPT !.state = state] \in Item  BY <1>1 DEF Item
<1>3. item' = [item EXCEPT ![c][i] = [item[c][i] EXCEPT !.state = state]]
  BY <1>1 DEF SetItem
<1>4. QED  BY <1>2, <1>3

\* What runs for a task stands with the task.
LEMMA ItemExecs ==
  ASSUME RunsInv, NEW c \in Calls, NEW i \in 1..MaxTasks, NEW e \in IdsOf(c), e[2] = i
  PROVE  /\ item[c][i].state \notin {"running", "verifying"} => exec[e].state = "idle"
         /\ item[c][i].state = "running" /\ e # <<c, i, 0>> => exec[e].state = "idle"
         /\ item[c][i].state = "verifying" /\ e # <<c, i, item[c][i].round>> =>
              exec[e].state = "idle"
<1>1. SUFFICES ASSUME exec[e].state # "idle"
               PROVE  \/ item[c][i].state = "running" /\ e = <<c, i, 0>>
                      \/ item[c][i].state = "verifying" /\ e = <<c, i, item[c][i].round>>
  OBVIOUS
<1>2. Place(e) /\ e[1] = c /\ e = <<c, i, e[3]>> /\ i # 0
  BY <1>1, IdFacts, Assumed DEF RunsInv, CallInv, Placed
<1>3. CASE e[3] = 0  BY <1>2, <1>3 DEF Place
<1>4. CASE e[3] # 0  BY <1>2, <1>4 DEF Place
<1>5. QED  BY <1>3, <1>4

\* The id of a worker is one of its call, and not that of the call's own run.
LEMMA TaskId ==
  ASSUME RunsInv, NEW c \in Calls, NEW i \in 1..MaxTasks, item[c][i].state \in Busy
  PROVE  /\ WorkerId(c, i) \in IdsOf(c) /\ WorkerId(c, i)[1] = c /\ WorkerId(c, i) # Own(c)
         /\ WorkerId(c, i) \in Ids /\ i \in Tasks(c) /\ call[c].keys # <<>>
         /\ \A n \in 0..2 : <<c, i, n>> \in IdsOf(c)
<1>1. i \in Tasks(c) /\ Keyed(c) /\ Typed  BY DEF RunsInv, CallInv, Keyed, Busy
<1>2. call[c].keys # <<>>  BY <1>1 DEF Tasks
<1>3. call[c].keys[i] \in 1..MaxTasks /\ \A j \in 1..MaxTasks, n \in 0..2 : <<c, j, n>> \in IdsOf(c)
  BY <1>1, <1>2, BatchIds
<1>4. PICK k \in 1..MaxTasks : k = call[c].keys[i]  BY <1>3
<1>5. <<c, k, 0>> \in IdsOf(c) /\ WorkerId(c, i) = <<c, k, 0>>
  <2>1. 0 \in 0..2  OBVIOUS
  <2>2. <<c, k, 0>> \in IdsOf(c)  BY <1>3, <2>1, Zenon
  <2>3. QED  BY <1>4, <2>2 DEF WorkerId
<1>6. <<c, k, 0>> # Own(c)  BY Assumed DEF Own
<1>7. QED  BY <1>1, <1>2, <1>3, <1>5, <1>6, IdFacts

\* The row of one worker is written.
LEMMA WritesRow ==
  ASSUME Typed, NEW c \in Calls, NEW id \in Ids, id[1] = c, id # Own(c),
         NEW status \in Ledger!Terminal,
         row' = row \/ StartRow(id) \/ SettleRow(id, status)
  PROVE  Writes(c)
<1>1. CASE row' = row  BY <1>1 DEF Typed, Writes
<1>2. CASE StartRow(id)  BY <1>2 DEF Typed, Writes, StartRow
<1>3. CASE SettleRow(id, status)  BY <1>3 DEF Typed, Writes, SettleRow, Ledger!Terminal
<1>4. QED  BY <1>1, <1>2, <1>3

\* A worker writes its row and is launched next, or fails.
LEMMA StartWorkerRowStep ==
  ASSUME RunsInv, NEW c \in Calls, NEW i \in 1..MaxTasks, StartWorkerRow(c, i)
  PROVE  StepOf(c)
<1>0. Typed  BY DEF RunsInv
<1>1. /\ item[c][i].state = "starting" /\ UNCHANGED <<ledgerVars, call, handle, exec, swarm, marks, notified>>
      /\ row' = row \/ StartRow(WorkerId(c, i))
      /\ SetItem(c, i, "launch") \/ SetItem(c, i, FailedState(c, i))
  BY DEF StartWorkerRow, engineVars
<1>2. PICK r \in Item : item' = [item EXCEPT ![c][i] = r]
  <2>1. "launch" \in ItemStates /\ FailedState(c, i) \in ItemStates
    BY DEF ItemStates, Busy, FailedState
  <2>2. QED  BY <1>0, <1>1, <2>1, ItemSet
<1>3. Gathers(c)  BY <1>0, <1>1 DEF Typed, Gathers
<1>4. item[c][i].state \in Busy  BY <1>1 DEF Busy
<1>5. Writes(c)
  <2>1. /\ WorkerId(c, i) \in Ids /\ WorkerId(c, i)[1] = c /\ WorkerId(c, i) # Own(c)
        /\ "failed" \in Ledger!Terminal
    BY <1>4, TaskId DEF Ledger!Terminal
  <2>2. QED  BY <1>0, <1>1, <2>1, WritesRow
<1>6. \A e \in IdsOf(c) : e[2] = i => exec'[e].state = "idle"  BY <1>1, ItemExecs
<1>7. QED  BY <1>1, <1>2, <1>3, <1>4, <1>5, <1>6, ItemMoves

\* A worker fails without an execution.
LEMMA FailClosedStep ==
  ASSUME RunsInv, NEW c \in Calls, NEW i \in 1..MaxTasks, FailClosed(c, i)
  PROVE  StepOf(c)
<1>0. Typed  BY DEF RunsInv
<1>1. /\ item[c][i].state = "launch" /\ UNCHANGED <<ledgerVars, call, handle, exec, swarm, marks, notified>>
      /\ SettleRow(WorkerId(c, i), "failed") /\ SetItem(c, i, "failed")
  BY DEF FailClosed, engineVars
<1>2. PICK r \in Item : item' = [item EXCEPT ![c][i] = r]
  <2>1. "failed" \in ItemStates  BY DEF ItemStates
  <2>2. QED  BY <1>0, <1>1, <2>1, ItemSet
<1>3. Gathers(c)  BY <1>0, <1>1 DEF Typed, Gathers
<1>4. item[c][i].state \in Busy  BY <1>1 DEF Busy
<1>5. Writes(c)
  <2>1. /\ WorkerId(c, i) \in Ids /\ WorkerId(c, i)[1] = c /\ WorkerId(c, i) # Own(c)
        /\ "failed" \in Ledger!Terminal
    BY <1>4, TaskId DEF Ledger!Terminal
  <2>2. QED  BY <1>0, <1>1, <2>1, WritesRow
<1>6. \A e \in IdsOf(c) : e[2] = i => exec'[e].state = "idle"  BY <1>1, ItemExecs
<1>7. QED  BY <1>1, <1>2, <1>3, <1>4, <1>5, <1>6, ItemMoves

\* A caller collects an execution of its batch that has ended.
LEMMA CollectItem ==
  ASSUME RunsInv, NEW c \in Calls, NEW e \in IdsOf(c), e # Own(c), Ended(e), Collect(e)
  PROVE  Gathers(c) /\ exec'[e].state = "idle" /\ \A x \in Ids \ {e} : exec'[x] = exec[x]
<1>1. e \in Ids /\ e[1] = c  BY IdFacts
<1>2. exec \in [Ids -> [state : {"idle", "running", "ended"}, aborted : BOOLEAN,
                        completed : BOOLEAN]]
  BY DEF RunsInv, Typed
<1>3. /\ IdleExec \in [state : {"idle", "running", "ended"}, aborted : BOOLEAN,
                       completed : BOOLEAN]
      /\ IdleExec.state = "idle"
  BY DEF IdleExec
<1>4. exec' = [exec EXCEPT ![e] = IdleExec]  BY DEF Collect
<1>5. QED  BY <1>1, <1>2, <1>3, <1>4 DEF Gathers

\* A worker is collected and its row settled.
LEMMA WorkerReturnsStep ==
  ASSUME RunsInv, NEW c \in Calls, NEW i \in 1..MaxTasks, WorkerReturns(c, i)
  PROVE  StepOf(c)
<1> DEFINE e == <<c, i, 0>>
           worked == exec[e].completed
<1>0. Typed  BY DEF RunsInv
<1>1. /\ item[c][i].state = "running" /\ Ended(e) /\ Collect(e)
      /\ UNCHANGED <<ledgerVars, call, handle, swarm, marks, notified>>
      /\ row' = row \/ SettleRow(WorkerId(c, i), Status(worked))
      /\ \/ SetItem(c, i, FailedState(c, i))
         \/ SetItem(c, i, IF worked THEN WorkedState(c, i) ELSE FailedState(c, i))
  BY DEF WorkerReturns
<1>2. PICK r \in Item : item' = [item EXCEPT ![c][i] = r]
  <2>1. /\ FailedState(c, i) \in ItemStates
        /\ (IF worked THEN WorkedState(c, i) ELSE FailedState(c, i)) \in ItemStates
    BY DEF ItemStates, Busy, FailedState, WorkedState
  <2>2. QED  BY <1>0, <1>1, <2>1, ItemSet
<1>3. item[c][i].state \in Busy  BY <1>1 DEF Busy
<1>4. e \in IdsOf(c) /\ e # Own(c)
  <2>1. 0 \in 0..2 /\ \A n \in 0..2 : <<c, i, n>> \in IdsOf(c)  BY <1>3, TaskId
  <2>2. e \in IdsOf(c)  BY <2>1, Zenon
  <2>3. QED  BY <2>2, Assumed DEF Own
<1>5. Gathers(c) /\ exec'[e].state = "idle" /\ \A x \in Ids \ {e} : exec'[x] = exec[x]
  BY <1>1, <1>4, CollectItem
<1>6. Writes(c)
  <2>1. /\ WorkerId(c, i) \in Ids /\ WorkerId(c, i)[1] = c /\ WorkerId(c, i) # Own(c)
        /\ Status(worked) \in Ledger!Terminal
    BY <1>3, TaskId DEF Ledger!Terminal, Status
  <2>2. QED  BY <1>0, <1>1, <2>1, WritesRow
<1>7. ASSUME NEW x \in IdsOf(c), x[2] = i PROVE exec'[x].state = "idle"
  <2>1. CASE x = e  BY <1>5, <2>1
  <2>2. CASE x # e  BY <1>1, <1>5, <1>7, <2>2, ItemExecs, IdFacts
  <2>3. QED  BY <2>1, <2>2
<1>8. QED  BY <1>1, <1>2, <1>3, <1>5, <1>6, <1>7, ItemMoves

\* A verifier is collected; its task is done with or starts again.
LEMMA VerifierReturnsStep ==
  ASSUME RunsInv, NEW c \in Calls, NEW i \in 1..MaxTasks, VerifierReturns(c, i)
  PROVE  StepOf(c)
<1> DEFINE e == <<c, i, item[c][i].round>>
<1>0. Typed  BY DEF RunsInv
<1>1. /\ item[c][i].state = "verifying" /\ Ended(e) /\ Collect(e)
      /\ UNCHANGED <<ledgerVars, call, handle, swarm, row, marks, notified>>
      /\ \/ SetItem(c, i, "passed")
         \/ SetItem(c, i, "rejected")
         \/ item' = [item EXCEPT ![c][i] = [state |-> "starting", round |-> 2]]
  BY DEF VerifierReturns, diskVars
<1>2. PICK r \in Item : item' = [item EXCEPT ![c][i] = r]
  <2>1. /\ "passed" \in ItemStates /\ "rejected" \in ItemStates
        /\ [state |-> "starting", round |-> 2] \in Item
    BY DEF ItemStates, Busy, Item
  <2>2. QED  BY <1>0, <1>1, <2>1, ItemSet
<1>3. item[c][i].state \in Busy  BY <1>1 DEF Busy
<1>4. e \in IdsOf(c) /\ e # Own(c)
  <2>1. item[c][i].round \in 0..2 /\ \A n \in 0..2 : <<c, i, n>> \in IdsOf(c)
    <3>1. item[c][i] \in Item  BY <1>0 DEF Typed
    <3>2. item[c][i].round \in 0..2  BY <3>1 DEF Item
    <3>3. QED  BY <1>3, <3>2, TaskId
  <2>2. e \in IdsOf(c)  BY <2>1, Zenon
  <2>3. QED  BY <2>2, Assumed DEF Own
<1>5. Gathers(c) /\ exec'[e].state = "idle" /\ \A x \in Ids \ {e} : exec'[x] = exec[x]
  BY <1>1, <1>4, CollectItem
<1>6. Writes(c)  BY <1>0, <1>1 DEF Typed, Writes
<1>7. ASSUME NEW x \in IdsOf(c), x[2] = i PROVE exec'[x].state = "idle"
  <2>1. CASE x = e  BY <1>5, <2>1
  <2>2. CASE x # e  BY <1>1, <1>5, <1>7, <2>2, ItemExecs, IdFacts
  <2>3. QED  BY <2>1, <2>2
<1>8. QED  BY <1>1, <1>2, <1>3, <1>5, <1>6, <1>7, ItemMoves

\* A slice starts tasks that have nothing in the engine.
LEMMA StartSliceStep == ASSUME RunsInv, NEW c \in Calls, StartSlice(c) PROVE StepOf(c)
<1>0. Typed /\ CallInv(c)  BY DEF RunsInv
<1>1. /\ swarm[c].phase \in {"work", "gate"} /\ InFlight(c) = {}
      /\ UNCHANGED <<ledgerVars, call, handle, exec, swarm, row, marks, notified>>
      /\ item' = [item EXCEPT ![c] = [i \in DOMAIN @ |->
           IF i \in Slice(c)
           THEN [@[i] EXCEPT !.state = IF swarm[c].phase = "work" THEN "starting" ELSE "gate"]
           ELSE @[i]]]
  BY DEF StartSlice, engineVars, diskVars
<1>2. item[c] \in [1..MaxTasks -> Item] /\ DOMAIN item[c] = 1..MaxTasks
  BY <1>0 DEF Typed
<1>3. \A i \in Slice(c) : i \in Tasks(c) /\ item[c][i].state \notin Busy
  BY <1>1 DEF Slice, Queue, InFlight
<1> DEFINE put == IF swarm[c].phase = "work" THEN "starting" ELSE "gate"
           new == [i \in 1..MaxTasks |-> IF i \in Slice(c) THEN [item[c][i] EXCEPT !.state = put]
                                                            ELSE item[c][i]]
<1>4. /\ put \in ItemStates /\ item' = [item EXCEPT ![c] = new]
  BY <1>1, <1>2 DEF ItemStates, Busy
<1>5. new \in [1..MaxTasks -> Item]
  <2>1. ASSUME NEW i \in 1..MaxTasks PROVE [item[c][i] EXCEPT !.state = put] \in Item
    <3> HIDE DEF put
    <3>1. item[c][i] \in Item  BY <1>2
    <3>2. QED  BY <1>4, <3>1 DEF Item
  <2> HIDE DEF put
  <2>2. QED  BY <1>2, <2>1
<1> HIDE DEF new, put
<1>6. /\ item' \in [Calls -> [1..MaxTasks -> Item]] /\ item'[c] = new
      /\ \A d \in Calls \ {c} : item'[d] = item[d]
  BY <1>0, <1>4, <1>5 DEF Typed
<1>7. \A i \in 1..MaxTasks : i \notin Slice(c) => item'[c][i] = item[c][i]
  BY <1>6 DEF new
<1>8. Keyed(c)'
  <2>1. \A i \in 1..MaxTasks : item'[c][i].state # "queued" => i \in Tasks(c)
    BY <1>0, <1>3, <1>7 DEF CallInv, Keyed
  <2>2. QED  BY <1>0, <1>1, <2>1 DEF CallInv, Keyed, Tasks
<1>9. Placed(c)'
  <2>1. SUFFICES ASSUME NEW e \in IdsOf(c), exec'[e].state # "idle" PROVE Place(e)'
    BY DEF Placed
  <2>2. e \in Ids /\ e[1] = c /\ e[2] \in 0..MaxTasks /\ Place(e)
    BY <1>0, <1>1, <2>1, IdFacts DEF CallInv, Placed
  <2>3. e[2] # 0 => e[2] \in 1..MaxTasks  BY <2>2, Assumed
  <2>4. e[2] # 0 => e[2] \notin Slice(c)  BY <1>3, <2>2 DEF Place, Busy
  <2>5. e[2] # 0 => item'[c][e[2]] = item[c][e[2]]  BY <1>7, <2>3, <2>4
  <2>6. QED  BY <1>1, <2>2, <2>5 DEF Place, Running
<1>10. Gathers(c) /\ Writes(c)  BY <1>0, <1>1 DEF Typed, Gathers, Writes
<1>11. swarm' \in [Calls -> Batch]  BY <1>0, <1>1 DEF Typed
<1>12. QED  BY <1>1, <1>6, <1>8, <1>9, <1>10, <1>11, BatchMoves

\* A batch gets a phase.
LEMMA PhaseSet ==
  ASSUME Typed, NEW c \in Calls, SetPhase(c, "gate") \/ SetPhase(c, "synth")
           \/ SetPhase(c, "synthesizing") \/ SetPhase(c, "end")
  PROVE  /\ swarm' \in [Calls -> Batch] /\ \A d \in Calls \ {c} : swarm'[d] = swarm[d]
         /\ swarm'[c].aborted = swarm[c].aborted /\ swarm'[c].phase # "off"
         /\ swarm'[c].phase # swarm[c].phase =>
              swarm'[c].phase \in {"gate", "synth", "synthesizing", "end"}
<1>1. PICK phase \in {"gate", "synth", "synthesizing", "end"} : SetPhase(c, phase)
  OBVIOUS
<1>2. swarm[c] \in Batch /\ swarm \in [Calls -> Batch]  BY DEF Typed
<1>3. [swarm[c] EXCEPT !.phase = phase] \in Batch  BY <1>2 DEF Batch
<1>4. swarm' = [swarm EXCEPT ![c] = [swarm[c] EXCEPT !.phase = phase]]  BY <1>1 DEF SetPhase
<1>5. swarm'[c] = [swarm[c] EXCEPT !.phase = phase]  BY <1>2, <1>4
<1>6. swarm'[c].aborted = swarm[c].aborted /\ swarm'[c].phase = phase
  BY <1>2, <1>5 DEF Batch
<1>7. QED  BY <1>2, <1>3, <1>4, <1>6

\* A phase ends when nothing is in flight.
LEMMA EndPhaseStep == ASSUME RunsInv, NEW c \in Calls, EndPhase(c) PROVE StepOf(c)
<1>0. Typed /\ CallInv(c)  BY DEF RunsInv
<1>1. /\ swarm[c].phase \in {"work", "gate"} /\ InFlight(c) = {}
      /\ UNCHANGED <<ledgerVars, call, handle, exec, item, row, marks, notified>>
      /\ SetPhase(c, "gate") \/ SetPhase(c, "synth") \/ SetPhase(c, "synthesizing")
           \/ SetPhase(c, "end")
  BY DEF EndPhase, engineVars, diskVars
<1>2. /\ swarm' \in [Calls -> Batch] /\ \A d \in Calls \ {c} : swarm'[d] = swarm[d]
      /\ swarm'[c].aborted = swarm[c].aborted /\ swarm'[c].phase # "off"
  BY <1>0, <1>1, PhaseSet
<1>3. \A i \in 1..MaxTasks : item[c][i].state \notin Busy
  BY <1>0, <1>1 DEF CallInv, Keyed, InFlight, Busy
<1>4. Keyed(c)'
  BY <1>0, <1>1, <1>2, <1>3 DEF CallInv, Keyed, Tasks
<1>5. Placed(c)'
  <2>1. SUFFICES ASSUME NEW e \in IdsOf(c), exec'[e].state # "idle" PROVE Place(e)'
    BY DEF Placed
  <2>2. e \in Ids /\ e[1] = c /\ e[2] \in 0..MaxTasks /\ Place(e)
    BY <1>0, <1>1, <2>1, IdFacts DEF CallInv, Placed
  <2>3. e[2] # 0 => e[2] \in 1..MaxTasks  BY <2>2, Assumed
  <2>4. e[2] = 0  BY <1>3, <2>2, <2>3 DEF Place, Busy
  <2>5. e = Own(c)  BY <1>1, <2>2, <2>4 DEF Place
  <2>6. QED  BY <1>1, <2>2, <2>4, <2>5 DEF Place, Running
<1>6. Gathers(c) /\ Writes(c)  BY <1>0, <1>1 DEF Typed, Gathers, Writes
<1>7. item' \in [Calls -> [1..MaxTasks -> Item]]  BY <1>0, <1>1 DEF Typed
<1>8. QED  BY <1>1, <1>2, <1>4, <1>5, <1>6, <1>7, BatchMoves

\* The synthesizer is collected.
LEMMA SynthesizerReturnsStep ==
  ASSUME RunsInv, NEW c \in Calls, SynthesizerReturns(c) PROVE StepOf(c)
<1> DEFINE e == <<c, 0, 1>>
<1>0. Typed /\ CallInv(c)  BY DEF RunsInv
<1>1. /\ swarm[c].phase = "synthesizing" /\ Ended(e) /\ Collect(e)
      /\ UNCHANGED <<ledgerVars, call, handle, item, row, marks, notified>>
      /\ SetPhase(c, "gate") \/ SetPhase(c, "synth") \/ SetPhase(c, "synthesizing")
           \/ SetPhase(c, "end")
  BY DEF SynthesizerReturns, diskVars
<1>2. /\ swarm' \in [Calls -> Batch] /\ \A d \in Calls \ {c} : swarm'[d] = swarm[d]
      /\ swarm'[c].aborted = swarm[c].aborted /\ swarm'[c].phase # "off"
  BY <1>0, <1>1, PhaseSet
<1>3. \A i \in 1..MaxTasks : item[c][i].state \notin Busy
  BY <1>0, <1>1 DEF CallInv, Keyed
<1>4. call[c].pc = "swarm" /\ call[c].keys # <<>>  BY <1>0, <1>1 DEF CallInv, Keyed
<1>5. e \in IdsOf(c) /\ e # Own(c)  BY <1>0, <1>4, BatchIds DEF CallInv, Own
<1>6. Gathers(c) /\ exec'[e].state = "idle"  BY <1>1, <1>5, CollectItem
<1>7. Keyed(c)'
  BY <1>0, <1>1, <1>2, <1>3 DEF CallInv, Keyed, Tasks
<1>8. Placed(c)'
  <2>1. SUFFICES ASSUME NEW x \in IdsOf(c), exec'[x].state # "idle" PROVE FALSE
    BY DEF Placed
  <2>2. /\ x \in Ids /\ x[1] = c /\ x[2] \in 0..MaxTasks /\ x # e /\ x = <<c, x[2], x[3]>>
        /\ x[2] = 0 /\ x # Own(c) => x[3] = 1
    BY <1>6, <2>1, IdFacts
  <2>3. exec'[x] = exec[x]  BY <2>1, <2>2, <1>6 DEF Gathers
  <2>4. Place(x)  BY <1>0, <2>1, <2>3 DEF CallInv, Placed
  <2>5. x # Own(c)  BY <1>4, <2>2, <2>4 DEF Place
  <2>6. x[2] # 0  BY <2>2, <2>5
  <2>7. x[2] \in 1..MaxTasks  BY <2>2, <2>6, Assumed
  <2>8. QED  BY <1>3, <2>2, <2>4, <2>6, <2>7 DEF Place, Busy
<1>9. Writes(c)  BY <1>0, <1>1 DEF Typed, Writes
<1>10. item' \in [Calls -> [1..MaxTasks -> Item]]  BY <1>0, <1>1 DEF Typed
<1>11. QED  BY <1>1, <1>2, <1>6, <1>7, <1>8, <1>9, <1>10, BatchMoves

\* A batch starts with all its tasks queued.
LEMMA StartSwarmStep == ASSUME RunsInv, NEW c \in Calls, StartSwarm(c) PROVE StepOf(c)
<1>0. LedgerInv /\ Typed /\ CallInv(c)  BY DEF RunsInv
<1>1. /\ call[c].pc = "dispatch" /\ call[c].keys # <<>> /\ Goto(c, "swarm")
      /\ UNCHANGED <<ledgerVars, handle, exec, item, row, marks, notified>>
  BY DEF StartSwarm, At, engineVars, diskVars
<1>2. PICK verify \in {FALSE, call[c].keys \in Verified} :
        swarm' = [swarm EXCEPT ![c] = [NoSwarm EXCEPT !.phase = "work", !.verify = verify]]
  BY DEF StartSwarm
<1>3. /\ call' \in [Calls -> CallRec] /\ \A d \in Calls \ {c} : call'[d] = call[d]
      /\ call'[c].pc = "swarm" /\ call'[c].keys = call[c].keys
  BY <1>0, <1>1, Gone DEF Pcs
<1>4. /\ swarm' \in [Calls -> Batch] /\ \A d \in Calls \ {c} : swarm'[d] = swarm[d]
      /\ swarm'[c].phase = "work"
  <2>1. verify \in BOOLEAN
    <3>1. (call[c].keys \in Verified) \in BOOLEAN /\ FALSE \in BOOLEAN  OBVIOUS
    <3>2. verify = FALSE \/ verify = (call[c].keys \in Verified)  OBVIOUS
    <3>3. QED  BY <3>1, <3>2, Zenon
  <2> DEFINE r == [NoSwarm EXCEPT !.phase = "work", !.verify = verify]
  <2>2. r \in Batch /\ r.phase = "work"  BY <2>1 DEF NoSwarm, Batch
  <2>3. swarm' = [swarm EXCEPT ![c] = r]  BY <1>2
  <2> HIDE DEF r
  <2>4. QED  BY <1>0, <2>2, <2>3 DEF Typed
<1>5. Typed'  BY <1>0, <1>1, <1>3, <1>4 DEF Typed
<1>6. [Ledger!Next]_ledgerVars /\ OtherRuns(Own(c)) /\ Ledger!Live(Own(c))' = Ledger!Live(Own(c))
  BY <1>1 DEF OtherRuns, ledgerVars, Ledger!Live
<1>7. swarm[c].phase = "off" /\ \A i \in 1..MaxTasks : item[c][i].state = "queued"
  <2>1. swarm[c].phase = "off" /\ item[c] = NoItems  BY <1>0, <1>1 DEF CallInv, Keyed
  <2>2. \A i \in 1..MaxTasks : NoItems[i].state = "queued"  BY DEF NoItems
  <2>3. QED  BY <2>1, <2>2
<1>8. Keyed(c)'  BY <1>0, <1>1, <1>3, <1>4, <1>7 DEF CallInv, Keyed
<1>9. Staged(c)'  BY <1>0, <1>1, <1>3, <1>6 DEF CallInv, Staged
<1>10. Quiet(c)  BY <1>1, <1>7, QuietCall
<1>11. QED  BY <1>1, <1>3, <1>4, <1>5, <1>6, <1>8, <1>9, <1>10, QuietStep

\* An admitted call has a live run, a refused one has none.
LEMMA ReserveStep == ASSUME RunsInv, NEW c \in Calls, Reserve(c) PROVE StepOf(c)
<1>0. LedgerInv /\ Typed /\ CallInv(c) /\ Own(c) \in Ids  BY OwnId, IdFacts DEF RunsInv
<1>1. PICK keys \in Batches[c], background \in BOOLEAN :
        \/ /\ Ledger!TryReserve(Own(c), Session, Weight(keys))
           /\ call' = [call EXCEPT ![c] = [NoCall EXCEPT
                         !.pc = "begin", !.background = background,
                         !.keys = keys, !.weight = Weight(keys)]]
        \/ Goto(c, "refused") /\ UNCHANGED ledgerVars
  BY DEF Reserve
<1>2. /\ call[c].pc = "idle" /\ UNCHANGED <<handle, exec, swarm, item, row, marks, notified>>
  BY DEF Reserve, At, engineVars, swarmVars, diskVars
<1>3. keys \in KeyLists /\ Weight(keys) \in 1..SWARM_CONCURRENCY
  <2>1. keys \in UNION {[1..n -> 1..MaxTasks] : n \in 0..MaxTasks}
    BY RunsAssumption
  <2>2. PICK m \in 0..MaxTasks : keys \in [1..m -> 1..MaxTasks]  BY <2>1
  <2>3. Len(keys) \in Nat  BY <2>2, Assumed
  <2>4. QED  BY <2>1, <2>3, Assumed DEF KeyLists, Weight
<1>4. /\ call' \in [Calls -> CallRec] /\ \A d \in Calls \ {c} : call'[d] = call[d]
      /\ call'[c].keys \in Batches[c] \cup {<<>>}
      /\ call'[c].pc \in {"begin", "refused"}
      /\ call'[c].pc = "refused" => call'[c].keys = <<>> /\ UNCHANGED ledgerVars
      /\ call'[c].pc = "begin" => Ledger!TryReserve(Own(c), Session, Weight(keys))
  <2>1. CASE Goto(c, "refused") /\ UNCHANGED ledgerVars
    <3>1. /\ call' \in [Calls -> CallRec] /\ \A d \in Calls \ {c} : call'[d] = call[d]
          /\ call'[c].pc = "refused" /\ call'[c].keys = call[c].keys
      BY <1>0, <2>1, Gone DEF Pcs
    <3>2. QED  BY <1>0, <1>2, <2>1, <3>1 DEF CallInv, Keyed
  <2>2. CASE /\ Ledger!TryReserve(Own(c), Session, Weight(keys))
             /\ call' = [call EXCEPT ![c] = [NoCall EXCEPT
                           !.pc = "begin", !.background = background,
                           !.keys = keys, !.weight = Weight(keys)]]
    <3> DEFINE w == Weight(keys)
    <3>1. w \in Nat  BY <1>3, Assumed
    <3> HIDE DEF w
    <3> DEFINE r == [NoCall EXCEPT !.pc = "begin", !.background = background,
                                   !.keys = keys, !.weight = w]
    <3>2. r \in CallRec  BY <1>3, <3>1 DEF NoCall, CallRec, Pcs
    <3>3. call' = [call EXCEPT ![c] = r]  BY <2>2 DEF w
    <3>4. r.pc = "begin" /\ r.keys = keys  BY DEF NoCall
    <3> HIDE DEF r
    <3>5. /\ call' \in [Calls -> CallRec] /\ \A d \in Calls \ {c} : call'[d] = call[d]
          /\ call'[c] = r
      BY <1>0, <3>2, <3>3 DEF Typed
    <3>6. QED  BY <2>2, <3>4, <3>5
  <2>3. QED  BY <1>1, <2>1, <2>2
<1>5. Typed'  BY <1>0, <1>2, <1>4 DEF Typed
<1>6. /\ [Ledger!Next]_ledgerVars /\ OtherRuns(Own(c))
      /\ call'[c].pc = "begin" => Ledger!Live(Own(c))'
      /\ call'[c].pc = "refused" => Ledger!Live(Own(c))' = Ledger!Live(Own(c))
      /\ settlement'[Own(c)] = Ledger!Open
  <2>1. CASE call'[c].pc = "begin"  BY <1>0, <1>3, <1>4, <2>1, ReserveEffect
  <2>2. CASE call'[c].pc = "refused"
    BY <1>0, <1>2, <1>4, <2>2 DEF OtherRuns, ledgerVars, Ledger!Live, CallInv, Staged
  <2>3. QED  BY <1>4, <2>1, <2>2
<1>7. swarm[c].phase = "off" /\ item[c] = NoItems /\ \A i \in 1..MaxTasks : item[c][i].state = "queued"
  <2>1. swarm[c].phase = "off" /\ item[c] = NoItems  BY <1>0, <1>2 DEF CallInv, Keyed
  <2>2. \A i \in 1..MaxTasks : NoItems[i].state = "queued"  BY DEF NoItems
  <2>3. QED  BY <2>1, <2>2
<1>8. Keyed(c)'  BY <1>2, <1>4, <1>7 DEF Keyed, Busy
<1>9. Staged(c)'
  BY <1>0, <1>2, <1>4, <1>6 DEF CallInv, Staged
<1>10. Quiet(c)  BY <1>2, <1>7, QuietCall
<1>11. QED  BY <1>2, <1>4, <1>5, <1>6, <1>8, <1>9, <1>10, QuietStep

-----------------------------------------------------------------------------
(* The engine starts an execution.                                         *)

ExecRec == [state : {"idle", "running", "ended"}, aborted : BOOLEAN, completed : BOOLEAN]

\* execute() up to its first await: a handle, a run in the ledger, a running execution.
LEMMA Launched ==
  ASSUME RunsInv, NEW c \in Calls, NEW e \in IdsOf(c), NEW aborted \in BOOLEAN,
         Launch(e, aborted), WorkerOf(e) => e[2] \in Tasks(c), call'[c].keys = call[c].keys,
         NEW id, id = IdOf(e)
  PROVE  /\ [Ledger!Next]_ledgerVars /\ OtherRuns(id) /\ Ledger!Live(id)'
         /\ id \in IdsOf(c)
         /\ handle' \in [Ids -> Ids \cup {None}] /\ handle'[id] = e
         /\ \A x \in Ids \ {id} : handle'[x] = handle[x]
         /\ exec' \in [Ids -> ExecRec] /\ exec[e].state = "idle"
         /\ exec'[e].state = "running" /\ exec'[e].aborted = aborted
         /\ \A x \in Ids \ {e} : exec'[x] = exec[x]
         /\ Handled(c)'
<1>0. LedgerInv /\ Typed /\ CallInv(c) /\ e \in Ids  BY IdFacts DEF RunsInv
<1>1. id \in IdsOf(c) /\ id \in Ids  BY <1>0, IdOfFacts, IdFacts DEF CallInv
<1>2. /\ exec[e].state = "idle" /\ Ledger!EnsureCovered(id, Session)
      /\ handle' = [handle EXCEPT ![id] = e]
      /\ exec' = [exec EXCEPT ![e] = [state |-> "running", aborted |-> aborted, completed |-> FALSE]]
  BY DEF Launch
<1>3. IdOf(e)' = id  BY IdFacts DEF IdOf, WorkerOf
<1>4. [Ledger!Next]_ledgerVars /\ OtherRuns(id) /\ Ledger!Live(id)'
  BY <1>0, <1>1, <1>2, CoverEffect
<1>5. /\ handle' \in [Ids -> Ids \cup {None}] /\ handle'[id] = e
      /\ \A x \in Ids \ {id} : handle'[x] = handle[x]
  BY <1>0, <1>1, <1>2 DEF Typed
<1>6. /\ exec' \in [Ids -> ExecRec]
      /\ exec'[e].state = "running" /\ exec'[e].aborted = aborted
      /\ \A x \in Ids \ {e} : exec'[x] = exec[x]
  <2> DEFINE r == [state |-> "running", aborted |-> aborted, completed |-> FALSE]
  <2>1. r \in ExecRec /\ r.state = "running" /\ r.aborted = aborted  BY DEF ExecRec
  <2>2. exec \in [Ids -> ExecRec] /\ exec' = [exec EXCEPT ![e] = r]
    BY <1>0, <1>2 DEF Typed, ExecRec
  <2> HIDE DEF r
  <2>3. QED  BY <1>0, <2>1, <2>2
<1>7. Handled(c)'
  <2>1. SUFFICES ASSUME NEW x \in IdsOf(c)
                 PROVE  /\ handle'[x] # None =>
                             /\ handle'[x] \in IdsOf(c) /\ IdOf(handle[x])' = x
                             /\ Running(handle[x])'
                        /\ x # Own(c) /\ Ledger!Live(x)' => handle'[x] # None
    BY DEF Handled
  <2>2. x \in Ids  BY IdFacts
  <2>3. CASE x = id
    <3>1. handle'[x] = e  BY <1>5, <2>3
    <3>2. IdOf(handle[x])' = id  BY <1>3, <3>1 DEF IdOf, WorkerOf
    <3>3. Running(handle[x])'  BY <1>6, <3>1 DEF Running
    <3>4. e # None  BY IdFacts
    <3>5. QED  BY <2>3, <3>1, <3>2, <3>3, <3>4
  <2>4. CASE x # id
    <3>1. handle'[x] = handle[x] /\ (Ledger!Live(x)' = Ledger!Live(x))
      BY <1>4, <1>5, <2>2, <2>4 DEF OtherRuns
    <3>2. CASE handle[x] # None
      <4>1. handle[x] \in IdsOf(c) /\ IdOf(handle[x]) = x /\ Running(handle[x])
        BY <1>0, <3>2 DEF CallInv, Handled
      <4>2. handle[x] # e /\ handle[x] \in Ids /\ handle[x][1] = c
        BY <2>4, <4>1, IdFacts
      <4>3. Running(handle[x])'  BY <1>6, <3>1, <4>1, <4>2 DEF Running
      <4>4. IdOf(handle[x])' = IdOf(handle[x])  BY <3>1, <4>2 DEF IdOf, WorkerOf
      <4>5. QED  BY <3>1, <3>2, <4>1, <4>3, <4>4
    <3>3. CASE handle[x] = None  BY <1>0, <3>1, <3>3 DEF CallInv, Handled
    <3>4. QED  BY <3>2, <3>3
  <2>5. QED  BY <2>3, <2>4
<1>8. QED  BY <1>1, <1>2, <1>4, <1>5, <1>6, <1>7

\* A launch keeps the invariant if the one who waits for it is where Place says, and the
\* signal it gets is that of the batch.
LEMMA LaunchMoves ==
  ASSUME RunsInv, NEW c \in Calls, NEW e \in IdsOf(c), NEW aborted \in BOOLEAN,
         Launch(e, aborted), WorkerOf(e) => e[2] \in Tasks(c), call'[c].keys = call[c].keys,
         UNCHANGED <<row, marks, notified>>,
         call' \in [Calls -> CallRec], swarm' \in [Calls -> Batch],
         item' \in [Calls -> [1..MaxTasks -> Item]],
         \A d \in Calls \ {c} : call'[d] = call[d] /\ swarm'[d] = swarm[d] /\ item'[d] = item[d],
         Keyed(c)', Staged(c)', Place(e)',
         \A x \in IdsOf(c) \ {e} : exec[x].state # "idle" => Place(x)',
         swarm'[c].aborted => e = Own(c) \/ aborted, swarm'[c].aborted => swarm[c].aborted
  PROVE  StepOf(c)
<1>0. LedgerInv /\ Typed /\ CallInv(c) /\ e \in Ids /\ e[1] = c  BY IdFacts DEF RunsInv
<1> PICK id : id = IdOf(e)  OBVIOUS
<1>1. /\ [Ledger!Next]_ledgerVars /\ OtherRuns(id)
      /\ id \in IdsOf(c)
      /\ handle' \in [Ids -> Ids \cup {None}]
      /\ \A x \in Ids \ {id} : handle'[x] = handle[x]
      /\ exec' \in [Ids -> ExecRec]
      /\ exec'[e].aborted = aborted
      /\ \A x \in Ids \ {e} : exec'[x] = exec[x]
      /\ Handled(c)'
  BY Launched
<1>2. Typed'  BY <1>0, <1>1 DEF Typed, ExecRec
<1>3. Placed(c)'
  <2>1. SUFFICES ASSUME NEW x \in IdsOf(c), exec'[x].state # "idle" PROVE Place(x)'
    BY DEF Placed
  <2>2. CASE x = e  BY <2>2
  <2>3. CASE x # e  BY <1>1, <2>1, <2>3, IdFacts
  <2>4. QED  BY <2>2, <2>3
<1>4. AbortReaches(c)'
  <2>1. SUFFICES ASSUME swarm'[c].aborted, NEW x \in IdsOf(c), x # Own(c), exec'[x].state = "running"
                 PROVE  exec'[x].aborted
    BY DEF AbortReaches, ExecsOf, Running
  <2>2. CASE x = e  BY <1>1, <2>1, <2>2
  <2>3. CASE x # e
    BY <1>0, <1>1, <2>1, <2>3, IdFacts DEF CallInv, AbortReaches, ExecsOf, Running
  <2>4. QED  BY <2>2, <2>3
<1>5. ASSUME NEW d \in Calls \ {c} PROVE Same(d)
  <2>1. id[1] = c  BY <1>1, IdFacts
  <2>2. \A x \in Ids : x[1] # c =>
          /\ handle'[x] = handle[x] /\ exec'[x] = exec[x] /\ row'[x] = row[x]
          /\ Ledger!Live(x)' = Ledger!Live(x) /\ settlement'[x] = settlement[x]
    BY <1>0, <1>1, <2>1 DEF OtherRuns
  <2>3. QED  BY <2>2, SameOthers
<1>6. QED  BY <1>1, <1>2, <1>3, <1>4, <1>5 DEF StepOf, CallInv

\* The call's own run goes to the engine.
LEMMA LaunchAgentStep == ASSUME RunsInv, NEW c \in Calls, LaunchAgent(c) PROVE StepOf(c)
<1>0. LedgerInv /\ Typed /\ CallInv(c) /\ Own(c) \in IdsOf(c) /\ Own(c) \in Ids
  BY OwnId, IdFacts DEF RunsInv
<1>1. /\ call[c].pc = "dispatch" /\ call[c].keys = <<>> /\ Launch(Own(c), FALSE)
      /\ Goto(c, "engine") /\ UNCHANGED <<swarm, item, row, marks, notified>>
  BY DEF LaunchAgent, At, swarmVars, diskVars
<1>2. /\ call' \in [Calls -> CallRec] /\ \A d \in Calls \ {c} : call'[d] = call[d]
      /\ call'[c].pc = "engine" /\ call'[c].keys = call[c].keys
  BY <1>0, <1>1, Gone DEF Pcs
<1>3. ~WorkerOf(Own(c)) /\ IdOf(Own(c)) = Own(c) /\ FALSE \in BOOLEAN
  BY DEF IdOf, WorkerOf, Own
<1>4. /\ Ledger!Live(Own(c))' /\ handle'[Own(c)] = Own(c) /\ exec'[Own(c)].state = "running"
  <2>1. PICK id : id = Own(c)  OBVIOUS
  <2>2. id = IdOf(Own(c))  BY <1>3, <2>1
  <2>3. Ledger!Live(id)' /\ handle'[id] = Own(c) /\ exec'[Own(c)].state = "running"
    <3> PICK aborted \in BOOLEAN : aborted = FALSE  OBVIOUS
    <3> PICK e \in IdsOf(c) : e = Own(c)  BY <1>0
    <3>1. Launch(e, aborted)  BY <1>1
    <3>2. (WorkerOf(e) => e[2] \in Tasks(c)) /\ id = IdOf(e) /\ call'[c].keys = call[c].keys
      BY <1>2, <1>3, <2>2
    <3>3. Ledger!Live(id)' /\ handle'[id] = e /\ exec'[e].state = "running"
      BY <3>1, <3>2, Launched
    <3>4. QED  BY <3>3
  <2>4. QED  BY <2>1, <2>3
<1>5. swarm[c].phase = "off" /\ \A i \in 1..MaxTasks : item[c][i].state = "queued"
  <2>1. swarm[c].phase = "off" /\ item[c] = NoItems  BY <1>0, <1>1 DEF CallInv, Keyed
  <2>2. \A i \in 1..MaxTasks : NoItems[i].state = "queued"  BY DEF NoItems
  <2>3. QED  BY <2>1, <2>2
<1>6. Quiet(c)  BY <1>1, <1>5, QuietCall
<1>7. Keyed(c)'  BY <1>0, <1>1, <1>2, <1>5 DEF CallInv, Keyed, Busy
<1>8. Staged(c)'
  BY <1>0, <1>1, <1>2, <1>4 DEF CallInv, Staged, Running
<1>9. Place(Own(c))'  BY <1>2 DEF Place, Own
<1>10. ~swarm[c].aborted \/ swarm[c].aborted  OBVIOUS
<1>11. /\ swarm' \in [Calls -> Batch] /\ item' \in [Calls -> [1..MaxTasks -> Item]]
  BY <1>0, <1>1 DEF Typed
<1>12. \A x \in IdsOf(c) \ {Own(c)} : exec[x].state # "idle" => Place(x)'
  BY <1>6 DEF Quiet
<1>13. QED
  BY <1>0, <1>1, <1>2, <1>3, <1>7, <1>8, <1>9, <1>11, <1>12, LaunchMoves

\* The batch of a call starts an execution: the call's own run is not concerned.
LEMMA BatchLaunches ==
  ASSUME RunsInv, NEW c \in Calls, NEW e \in IdsOf(c), e # Own(c),
         Launch(e, swarm[c].aborted), WorkerOf(e) => e[2] \in Tasks(c),
         UNCHANGED <<call, row, marks, notified>>,
         swarm' \in [Calls -> Batch], item' \in [Calls -> [1..MaxTasks -> Item]],
         \A d \in Calls \ {c} : swarm'[d] = swarm[d] /\ item'[d] = item[d],
         swarm'[c].aborted = swarm[c].aborted,
         Keyed(c)', Place(e)',
         \A x \in IdsOf(c) \ {e} : exec[x].state # "idle" => Place(x)'
  PROVE  StepOf(c)
<1>0. Typed /\ CallInv(c) /\ e \in Ids /\ Own(c) \in IdsOf(c) /\ Own(c) \in Ids
  BY OwnId, IdFacts DEF RunsInv
<1> PICK aborted : aborted = swarm[c].aborted  OBVIOUS
<1>1. aborted \in BOOLEAN
  <2>1. swarm[c] \in Batch  BY <1>0 DEF Typed
  <2>2. QED  BY <2>1 DEF Batch
<1>2. Launch(e, aborted)  OBVIOUS
<1>3. Staged(c)'
  <2> PICK id : id = IdOf(e)  OBVIOUS
  <2>1. id # Own(c)  BY <1>0, IdOfFacts DEF CallInv
  <2>2. /\ OtherRuns(id) /\ \A x \in Ids \ {id} : handle'[x] = handle[x]
        /\ \A x \in Ids \ {e} : exec'[x] = exec[x]
    BY <1>1, <1>2, Launched
  <2>3. /\ Ledger!Live(Own(c))' = Ledger!Live(Own(c)) /\ settlement'[Own(c)] = settlement[Own(c)]
        /\ handle'[Own(c)] = handle[Own(c)] /\ exec'[Own(c)] = exec[Own(c)]
    BY <1>0, <2>1, <2>2 DEF OtherRuns
  <2>4. QED  BY <1>0, <2>3 DEF CallInv, Staged, Running, Ended, Ledger!Due
<1>4. call' \in [Calls -> CallRec] /\ \A d \in Calls \ {c} : call'[d] = call[d]
  BY <1>0 DEF Typed
<1>5. \A d \in Calls \ {c} : call'[d] = call[d] /\ swarm'[d] = swarm[d] /\ item'[d] = item[d]
  BY <1>4
<1>6. (swarm'[c].aborted => e = Own(c) \/ aborted) /\ (swarm'[c].aborted => swarm[c].aborted)
  OBVIOUS
<1>7. QED  BY <1>1, <1>2, <1>3, <1>4, <1>5, <1>6, LaunchMoves

\* A task has an execution started for it.
LEMMA ItemLaunches ==
  ASSUME RunsInv, NEW c \in Calls, NEW i \in 1..MaxTasks, NEW n \in 0..2,
         item[c][i].state \in Busy \ {"running", "verifying"},
         Launch(<<c, i, n>>, swarm[c].aborted), NEW r \in Item, r.state \in Busy,
         item' = [item EXCEPT ![c][i] = r],
         n = 0 => r.state = "running",
         n # 0 => r = [state |-> "verifying", round |-> n],
         UNCHANGED <<call, swarm, row, marks, notified>>
  PROVE  StepOf(c)
<1> PICK e : e = <<c, i, n>>  OBVIOUS
<1>0. Typed /\ CallInv(c)  BY DEF RunsInv
<1>1. /\ item' \in [Calls -> [1..MaxTasks -> Item]]
      /\ \A d \in Calls \ {c} : item'[d] = item[d]
      /\ item'[c][i] = r /\ \A j \in 1..MaxTasks \ {i} : item'[c][j] = item[c][j]
  BY <1>0 DEF Typed
<1>2. i \in Tasks(c) /\ \A m \in 0..2 : <<c, i, m>> \in IdsOf(c)  BY TaskId
<1>3. e \in IdsOf(c) /\ e # Own(c) /\ e[1] = c /\ e[2] = i /\ e[3] = n
  <2>1. e \in IdsOf(c)  BY <1>2, Zenon
  <2>2. QED  BY <2>1, Assumed DEF Own
<1>4. swarm[c].phase \in {"work", "gate"}  BY <1>0 DEF CallInv, Keyed
<1>5. Keyed(c)'
  <2>1. \A j \in 1..MaxTasks :
          /\ item'[c][j].state # "queued" => j \in Tasks(c)
          /\ item'[c][j].state \in Busy => swarm[c].phase \in {"work", "gate"}
    BY <1>0, <1>1, <1>2, <1>4 DEF CallInv, Keyed
  <2>2. QED  BY <1>0, <1>4, <2>1 DEF CallInv, Keyed, Tasks
<1>6. Place(e)'  BY <1>1, <1>3, Assumed DEF Place, Own
<1>7. ASSUME NEW x \in IdsOf(c) \ {e}, exec[x].state # "idle" PROVE Place(x)'
  <2>1. Place(x) /\ x[1] = c /\ x[2] \in 0..MaxTasks  BY <1>0, <1>7, IdFacts DEF CallInv, Placed
  <2>2. x[2] # i  BY <1>7, ItemExecs
  <2>3. x[2] # 0 => item'[c][x[2]] = item[c][x[2]]  BY <1>1, <2>1, <2>2
  <2>4. x # Own(c)
    <3>1. call[c].pc = "swarm"  BY <1>0, <1>4 DEF CallInv, Keyed
    <3>2. QED  BY <2>1, <3>1 DEF Place
  <2>5. QED  BY <2>1, <2>3, <2>4 DEF Place
<1>8. /\ Launch(e, swarm[c].aborted) /\ WorkerOf(e) => e[2] \in Tasks(c)
      /\ swarm' \in [Calls -> Batch] /\ swarm'[c].aborted = swarm[c].aborted
  BY <1>0, <1>2, <1>3 DEF Typed
<1>9. \A d \in Calls \ {c} : swarm'[d] = swarm[d] /\ item'[d] = item[d]  BY <1>1
<1>10. QED  BY <1>1, <1>3, <1>5, <1>6, <1>7, <1>8, <1>9, BatchLaunches

\* A worker goes to the engine, with the signal of its batch.
LEMMA LaunchWorkerStep ==
  ASSUME RunsInv, NEW c \in Calls, NEW i \in 1..MaxTasks, LaunchWorker(c, i)
  PROVE  StepOf(c)
<1>0. item[c][i] \in Item /\ item \in [Calls -> [1..MaxTasks -> Item]]  BY DEF RunsInv, Typed
<1>1. /\ item[c][i].state \in Busy \ {"running", "verifying"}
      /\ Launch(<<c, i, 0>>, swarm[c].aborted)
      /\ UNCHANGED <<call, swarm, row, marks, notified>>
  BY DEF LaunchWorker, Busy, diskVars
<1> DEFINE r == [item[c][i] EXCEPT !.state = "running"]
<1>2. r \in Item /\ r.state = "running" /\ r.state \in Busy
  BY <1>0 DEF Item, ItemStates, Busy
<1>3. item' = [item EXCEPT ![c][i] = r]  BY <1>0 DEF LaunchWorker, SetItem
<1> HIDE DEF r
<1>4. 0 \in 0..2  OBVIOUS
<1>5. QED  BY <1>1, <1>2, <1>3, <1>4, ItemLaunches

\* A verifier goes to the engine.
LEMMA LaunchVerifierStep ==
  ASSUME RunsInv, NEW c \in Calls, NEW i \in 1..MaxTasks, LaunchVerifier(c, i)
  PROVE  StepOf(c)
<1>0. item[c][i] \in Item /\ item \in [Calls -> [1..MaxTasks -> Item]]  BY DEF RunsInv, Typed
<1> PICK n \in {1, 2} : n = item[c][i].round  BY <1>0 DEF Item
<1>1. /\ item[c][i].state \in Busy \ {"running", "verifying"}
      /\ Launch(<<c, i, n>>, swarm[c].aborted)
      /\ UNCHANGED <<call, swarm, row, marks, notified>>
  BY DEF LaunchVerifier, Busy, diskVars
<1> DEFINE r == [item[c][i] EXCEPT !.state = "verifying"]
<1>2. r \in Item /\ r = [state |-> "verifying", round |-> n] /\ r.state \in Busy
  BY <1>0 DEF Item, ItemStates, Busy
<1>3. item' = [item EXCEPT ![c][i] = r]  BY <1>0 DEF LaunchVerifier, SetItem
<1> HIDE DEF r
<1>4. n \in 0..2 /\ n # 0  OBVIOUS
<1>5. QED  BY <1>1, <1>2, <1>3, <1>4, ItemLaunches

\* The synthesizer goes to the engine.
LEMMA LaunchSynthesizerStep ==
  ASSUME RunsInv, NEW c \in Calls, LaunchSynthesizer(c) PROVE StepOf(c)
<1> PICK e : e = <<c, 0, 1>>  OBVIOUS
<1>0. Typed /\ CallInv(c)  BY DEF RunsInv
<1>1. /\ swarm[c].phase = "synth" /\ Launch(e, swarm[c].aborted)
      /\ UNCHANGED <<call, item, row, marks, notified>> /\ SetPhase(c, "synthesizing")
  BY DEF LaunchSynthesizer, diskVars
<1>2. /\ swarm' \in [Calls -> Batch] /\ \A d \in Calls \ {c} : swarm'[d] = swarm[d]
      /\ swarm'[c].aborted = swarm[c].aborted /\ swarm'[c].phase = "synthesizing"
  <2>1. /\ swarm' \in [Calls -> Batch] /\ \A d \in Calls \ {c} : swarm'[d] = swarm[d]
        /\ swarm'[c].aborted = swarm[c].aborted
    BY <1>0, <1>1, PhaseSet
  <2>2. swarm \in [Calls -> Batch]  BY <1>0 DEF Typed
  <2>3. swarm'[c].phase = "synthesizing"  BY <1>1, <2>2 DEF SetPhase, Batch
  <2>4. QED  BY <2>1, <2>3
<1>3. \A i \in 1..MaxTasks : item[c][i].state \notin Busy
  BY <1>0, <1>1 DEF CallInv, Keyed
<1>4. call[c].pc = "swarm" /\ call[c].keys # <<>>  BY <1>0, <1>1 DEF CallInv, Keyed
<1>5. e \in IdsOf(c) /\ e # Own(c) /\ e[1] = c /\ e[2] = 0 /\ ~WorkerOf(e)
  BY <1>0, <1>4, BatchIds DEF CallInv, Own, WorkerOf
<1>6. Keyed(c)'
  BY <1>0, <1>1, <1>2, <1>3, <1>4 DEF CallInv, Keyed, Tasks
<1>7. Place(e)'  BY <1>2, <1>5 DEF Place, Own
<1>8. Quiet(c)
  BY <1>1, <1>3, <1>4, QuietCall DEF Busy
<1>9. \A x \in IdsOf(c) \ {e} : exec[x].state # "idle" => Place(x)'
  BY <1>8 DEF Quiet
<1>10. item' \in [Calls -> [1..MaxTasks -> Item]]  BY <1>0, <1>1 DEF Typed
<1>11. \A d \in Calls \ {c} : swarm'[d] = swarm[d] /\ item'[d] = item[d]  BY <1>1, <1>2
<1>12. QED  BY <1>1, <1>2, <1>5, <1>6, <1>7, <1>9, <1>10, <1>11, BatchLaunches

-----------------------------------------------------------------------------
(* An execution ends.                                                      *)

\* An execution ends; it settles its id and gives up the handle if that is still its own.
LEMMA EngineEndsStep ==
  ASSUME RunsInv, NEW c \in Calls, NEW e \in IdsOf(c), EngineEnds(e)
  PROVE  StepOf(c)
<1> PICK id : id = IdOf(e)  OBVIOUS
<1>0. /\ LedgerInv /\ Typed /\ CallInv(c) /\ e \in Ids /\ e[1] = c
      /\ Own(c) \in IdsOf(c) /\ Own(c) \in Ids
  BY OwnId, IdFacts DEF RunsInv
<1> PICK completed \in BOOLEAN :
      /\ exec' = [exec EXCEPT ![e].state = "ended", ![e].completed = completed]
      /\ \/ /\ handle[id] = e /\ Ledger!Settle(id, Status(completed))
            /\ handle' = [handle EXCEPT ![id] = None]
         \/ handle[id] # e /\ UNCHANGED <<ledgerVars, handle>>
  BY DEF EngineEnds
<1>1. /\ Running(e) /\ UNCHANGED <<call, swarm, item, row, marks, notified>>
  BY DEF EngineEnds, swarmVars, diskVars
<1>2. id \in IdsOf(c) /\ id \in Ids /\ id[1] = c /\ (e = Own(c) <=> id = Own(c))
  <2>1. WorkerOf(e) => e[2] \in Tasks(c)
    <3>1. SUFFICES ASSUME WorkerOf(e) PROVE e[2] \in Tasks(c)  OBVIOUS
    <3>2. Place(e) /\ e[2] \in 0..MaxTasks /\ e[2] > 0 /\ e[3] = 0
      BY <1>0, <1>1, <3>1, IdFacts DEF CallInv, Placed, Running, WorkerOf
    <3>3. e[2] \in 1..MaxTasks /\ item[c][e[2]].state = "running"
      BY <1>0, <3>2, Assumed DEF Place
    <3>4. QED  BY <1>0, <3>3 DEF CallInv, Keyed
  <2>2. QED  BY <1>0, <2>1, IdOfFacts, IdFacts DEF CallInv
<1>3. /\ exec' \in [Ids -> ExecRec]
      /\ exec'[e].state = "ended" /\ \A x \in Ids \ {e} : exec'[x] = exec[x]
  <2> DEFINE r == [exec[e] EXCEPT !.state = "ended", !.completed = completed]
  <2>1. exec \in [Ids -> ExecRec]  BY <1>0 DEF Typed, ExecRec
  <2>2. exec[e] \in ExecRec  BY <1>0, <2>1
  <2>3. r \in ExecRec /\ r.state = "ended"  BY <2>2 DEF ExecRec
  <2>4. exec' = [exec EXCEPT ![e] = r]  BY <1>0, <2>1
  <2> HIDE DEF r
  <2>5. QED  BY <1>0, <2>1, <2>3, <2>4
<1>4. /\ [Ledger!Next]_ledgerVars /\ OtherRuns(id)
      /\ handle' \in [Ids -> Ids \cup {None}]
      /\ \A x \in Ids \ {id} : handle'[x] = handle[x]
      /\ handle[id] = e =>
           /\ ~Ledger!Live(id)' /\ handle'[id] = None
           /\ settlement'[id] = IF Ledger!Live(id)
                                THEN [status |-> Status(completed), claimed |-> FALSE]
                                ELSE settlement[id]
      /\ handle[id] # e => handle'[id] = handle[id] /\ (Ledger!Live(id)' = Ledger!Live(id))
  <2>1. CASE /\ handle[id] = e /\ Ledger!Settle(id, Status(completed))
             /\ handle' = [handle EXCEPT ![id] = None]
    <3>1. Status(completed) \in Ledger!Terminal  BY DEF Status, Ledger!Terminal
    <3> PICK status \in Ledger!Terminal : status = Status(completed)  BY <3>1
    <3>2. Ledger!Settle(id, status)  BY <2>1
    <3>3. /\ [Ledger!Next]_ledgerVars /\ OtherRuns(id) /\ ~Ledger!Live(id)'
          /\ settlement'[id] = IF Ledger!Live(id) THEN [status |-> status, claimed |-> FALSE]
                                                  ELSE settlement[id]
      BY <1>0, <1>2, <3>2, SettleEffect
    <3>4. /\ handle' \in [Ids -> Ids \cup {None}] /\ handle'[id] = None
          /\ \A x \in Ids \ {id} : handle'[x] = handle[x]
      BY <1>0, <1>2, <2>1 DEF Typed
    <3>5. QED  BY <2>1, <3>3, <3>4
  <2>2. CASE handle[id] # e /\ UNCHANGED <<ledgerVars, handle>>
    BY <1>0, <2>2 DEF OtherRuns, ledgerVars, Ledger!Live, Typed
  <2>3. QED  BY <2>1, <2>2
<1>5. Typed'  BY <1>0, <1>1, <1>3, <1>4 DEF Typed, ExecRec
<1>6. Keyed(c)'  BY <1>0, <1>1 DEF CallInv, Keyed, Tasks
<1>7. Placed(c)'
  <2>1. SUFFICES ASSUME NEW x \in IdsOf(c), exec'[x].state # "idle" PROVE Place(x)'
    BY DEF Placed
  <2>2. x \in Ids /\ x[1] = c /\ exec[x].state # "idle"
    BY <1>1, <1>3, <2>1, IdFacts DEF Running
  <2>3. Place(x)  BY <1>0, <2>1, <2>2 DEF CallInv, Placed
  <2>4. Running(x)' => Running(x)  BY <1>3, <2>2 DEF Running
  <2>5. QED  BY <1>1, <2>2, <2>3, <2>4 DEF Place
<1>8. Handled(c)'
  <2>1. SUFFICES ASSUME NEW x \in IdsOf(c)
                 PROVE  /\ handle'[x] # None =>
                             /\ handle'[x] \in IdsOf(c) /\ IdOf(handle[x])' = x
                             /\ Running(handle[x])'
                        /\ x # Own(c) /\ Ledger!Live(x)' => handle'[x] # None
    BY DEF Handled
  <2>2. x \in Ids  BY IdFacts
  <2>3. CASE x = id /\ handle[id] = e  BY <1>4, <2>3
  <2>4. CASE x # id \/ handle[id] # e
    <3>1. handle'[x] = handle[x] /\ (Ledger!Live(x)' = Ledger!Live(x))
      BY <1>4, <2>2, <2>4 DEF OtherRuns
    <3>2. CASE handle[x] # None
      <4>1. handle[x] \in IdsOf(c) /\ IdOf(handle[x]) = x /\ Running(handle[x])
        BY <1>0, <3>2 DEF CallInv, Handled
      <4>2. handle[x] # e /\ handle[x] \in Ids /\ handle[x][1] = c
        BY <2>4, <4>1, IdFacts
      <4>3. Running(handle[x])'  BY <1>3, <3>1, <4>1, <4>2 DEF Running
      <4>4. IdOf(handle[x])' = IdOf(handle[x])  BY <1>1, <3>1, <4>2 DEF IdOf, WorkerOf
      <4>5. QED  BY <3>1, <3>2, <4>1, <4>3, <4>4
    <3>3. CASE handle[x] = None  BY <1>0, <3>1, <3>3 DEF CallInv, Handled
    <3>4. QED  BY <3>2, <3>3
  <2>5. QED  BY <2>3, <2>4
<1>9. Staged(c)'
  <2>1. CASE e = Own(c)
    <3>1. id = Own(c) /\ call[c].pc = "engine" /\ Ledger!Live(Own(c)) /\ handle[Own(c)] = Own(c)
      BY <1>0, <1>1, <1>2, <2>1 DEF CallInv, Placed, Place, Staged, Running
    <3>2. /\ ~Ledger!Live(Own(c))'
          /\ settlement'[Own(c)] = [status |-> Status(completed), claimed |-> FALSE]
      BY <1>4, <2>1, <3>1
    <3>3. Ledger!Due(Own(c))'  BY <3>2 DEF Ledger!Due, Ledger!Terminal, Status
    <3>4. Ended(Own(c))' /\ ~Running(Own(c))'  BY <1>3, <2>1 DEF Ended, Running
    <3>5. notified[c] = 0 /\ row[Own(c)] \notin Ledger!Terminal
      BY <1>0, <3>1 DEF CallInv, Staged
    <3>6. QED  BY <1>1, <3>1, <3>2, <3>3, <3>4, <3>5 DEF Staged
  <2>2. CASE e # Own(c)
    <3>1. /\ Ledger!Live(Own(c))' = Ledger!Live(Own(c)) /\ settlement'[Own(c)] = settlement[Own(c)]
          /\ handle'[Own(c)] = handle[Own(c)] /\ exec'[Own(c)] = exec[Own(c)]
      BY <1>0, <1>2, <1>3, <1>4, <2>2 DEF OtherRuns
    <3>2. QED  BY <1>0, <1>1, <3>1 DEF CallInv, Staged, Running, Ended, Ledger!Due
  <2>3. QED  BY <2>1, <2>2
<1>10. AbortReaches(c)'
  <2>1. \A x \in IdsOf(c) : x # Own(c) /\ exec'[x].state = "running" =>
          exec[x].state = "running" /\ exec'[x].aborted = exec[x].aborted
    BY <1>3, IdFacts
  <2>2. QED  BY <1>0, <1>1, <2>1, StillReached DEF CallInv
<1>11. ASSUME NEW d \in Calls \ {c} PROVE Same(d)
  <2>1. \A x \in Ids : x[1] # c =>
          /\ handle'[x] = handle[x] /\ exec'[x] = exec[x] /\ row'[x] = row[x]
          /\ Ledger!Live(x)' = Ledger!Live(x) /\ settlement'[x] = settlement[x]
    BY <1>0, <1>1, <1>2, <1>3, <1>4 DEF OtherRuns
  <2>2. QED  BY <1>1, <2>1, SameOthers
<1>12. QED  BY <1>4, <1>5, <1>6, <1>7, <1>8, <1>9, <1>10, <1>11 DEF StepOf, CallInv

-----------------------------------------------------------------------------
(* Stops.                                                                  *)

\* An abort changes no state of an execution but the signal.
LEMMA Aborted ==
  ASSUME RunsInv, NEW c \in Calls, NEW es \in SUBSET IdsOf(c), Abort(es)
  PROVE  /\ exec' \in [Ids -> ExecRec]
         /\ \A e \in Ids : exec'[e].state = exec[e].state
         /\ \A e \in Ids : e[1] # c => exec'[e] = exec[e]
         /\ \A e \in Ids : exec[e].aborted \/ e \in es => exec'[e].aborted
<1>0. exec \in [Ids -> ExecRec]  BY DEF RunsInv, Typed, ExecRec
<1>1. \A e \in es : e \in Ids /\ e[1] = c  BY IdFacts
<1>2. ASSUME NEW e \in Ids
      PROVE  /\ [exec[e] EXCEPT !.aborted = TRUE] \in ExecRec
             /\ [exec[e] EXCEPT !.aborted = TRUE].state = exec[e].state
             /\ [exec[e] EXCEPT !.aborted = TRUE].aborted
  <2>1. exec[e] \in ExecRec  BY <1>0
  <2>2. QED  BY <2>1 DEF ExecRec
<1>3. exec' = [e \in Ids |-> IF e \in es THEN [exec[e] EXCEPT !.aborted = TRUE] ELSE exec[e]]
  BY DEF Abort
<1>4. exec' \in [Ids -> ExecRec]  BY <1>0, <1>2, <1>3
<1>5. ASSUME NEW e \in Ids
      PROVE  /\ exec'[e].state = exec[e].state
             /\ e[1] # c => exec'[e] = exec[e]
             /\ exec[e].aborted \/ e \in es => exec'[e].aborted
  <2>1. CASE e \in es
    <3>1. exec'[e] = [exec[e] EXCEPT !.aborted = TRUE]  BY <1>3, <2>1
    <3>2. e[1] = c  BY <1>1, <2>1
    <3>3. QED  BY <1>2, <3>1, <3>2
  <2>2. CASE e \notin es  BY <1>3, <2>2
  <2>3. QED  BY <2>1, <2>2
<1>6. QED  BY <1>4, <1>5

\* A stop changes what is asked of a call, never where it stands.
LEMMA StopMoves ==
  ASSUME RunsInv, NEW c \in Calls, NEW es \in SUBSET IdsOf(c), Abort(es),
         UNCHANGED <<call, handle, item, notified>>, marks' \subseteq Ids,
         [Ledger!Next]_ledgerVars,
         \A x \in Ids : Ledger!Live(x)' = Ledger!Live(x) /\ settlement'[x] = settlement[x],
         row' \in [Ids -> {"none", "running", "cancel_requested", "completed", "failed"}],
         \A x \in Ids : row'[x] # row[x] => x[1] = c /\ row'[x] = "cancel_requested",
         \/ swarm' = swarm
         \/ swarm' = [swarm EXCEPT ![c].aborted = TRUE] /\ ExecsOf(c) \subseteq es
  PROVE  StepOf(c)
<1>0. Typed /\ CallInv(c) /\ Own(c) \in IdsOf(c) /\ Own(c) \in Ids
  BY OwnId, IdFacts DEF RunsInv
<1>1. /\ exec' \in [Ids -> ExecRec]
      /\ \A e \in Ids : exec'[e].state = exec[e].state
      /\ \A e \in Ids : e[1] # c => exec'[e] = exec[e]
      /\ \A e \in Ids : exec[e].aborted \/ e \in es => exec'[e].aborted
  BY Aborted
<1>2. /\ swarm' \in [Calls -> Batch] /\ swarm'[c].phase = swarm[c].phase
      /\ \A d \in Calls \ {c} : swarm'[d] = swarm[d]
      /\ swarm'[c].aborted = swarm[c].aborted \/ ExecsOf(c) \subseteq es
  <2>1. swarm \in [Calls -> Batch] /\ swarm[c] \in Batch  BY <1>0 DEF Typed
  <2>2. CASE swarm' = swarm  BY <2>1, <2>2
  <2>3. CASE swarm' = [swarm EXCEPT ![c].aborted = TRUE] /\ ExecsOf(c) \subseteq es
    <3> DEFINE r == [swarm[c] EXCEPT !.aborted = TRUE]
    <3>1. r \in Batch /\ r.phase = swarm[c].phase  BY <2>1 DEF Batch
    <3>2. swarm' = [swarm EXCEPT ![c] = r]  BY <2>1, <2>3
    <3> HIDE DEF r
    <3>3. QED  BY <2>1, <2>3, <3>1, <3>2
  <2>4. QED  BY <2>2, <2>3
<1>3. Typed'  BY <1>0, <1>1, <1>2 DEF Typed, ExecRec
<1>4. \A e \in IdsOf(c) : e \in Ids  BY IdFacts
<1>5. Keyed(c)'  BY <1>0, <1>2 DEF CallInv, Keyed, Tasks
<1>6. Placed(c)'
  <2>1. Place(Own(c)) => Place(Own(c))'  BY <1>0, <1>1 DEF Place, Running, Own
  <2>2. exec'[Own(c)].state # "idle" => Place(Own(c))'
    BY <1>0, <1>1, <2>1 DEF CallInv, Placed
  <2>3. \A e \in IdsOf(c) : e # Own(c) /\ exec'[e].state # "idle" => exec[e].state # "idle"
    BY <1>1, <1>4
  <2>4. QED  BY <1>0, <1>2, <2>2, <2>3, StillPlaced DEF CallInv
<1>7. Handled(c)'
  <2>1. \A id \in IdsOf(c) :
          /\ handle'[id] = handle[id]
          /\ exec[id].state = "running" => exec'[id].state = "running"
          /\ id # Own(c) => Ledger!Live(id)' = Ledger!Live(id)
    BY <1>1, <1>4
  <2>2. QED  BY <1>0, <2>1, StillHandled DEF CallInv
<1>8. Staged(c)'
  <2>1. /\ exec'[Own(c)].state = exec[Own(c)].state
        /\ Ledger!Live(Own(c))' = Ledger!Live(Own(c)) /\ settlement'[Own(c)] = settlement[Own(c)]
        /\ row'[Own(c)] \in Ledger!Terminal => row'[Own(c)] = row[Own(c)]
    BY <1>0, <1>1 DEF Ledger!Terminal
  <2>2. QED  BY <1>0, <2>1 DEF CallInv, Staged, Running, Ended, Ledger!Due
<1>9. AbortReaches(c)'
  <2>1. SUFFICES ASSUME swarm'[c].aborted, NEW e \in IdsOf(c), e # Own(c), exec'[e].state = "running"
                 PROVE  exec'[e].aborted
    BY DEF AbortReaches, ExecsOf, Running
  <2>2. e \in ExecsOf(c) /\ e \in Ids  BY <1>1, <1>4, <2>1 DEF ExecsOf, Running
  <2>3. exec[e].aborted \/ e \in es  BY <1>0, <1>2, <2>1, <2>2 DEF CallInv, AbortReaches
  <2>4. QED  BY <1>1, <2>2, <2>3
<1>10. ASSUME NEW d \in Calls \ {c} PROVE Same(d)
  <2>1. \A x \in Ids : x[1] # c =>
          /\ handle'[x] = handle[x] /\ exec'[x] = exec[x] /\ row'[x] = row[x]
          /\ Ledger!Live(x)' = Ledger!Live(x) /\ settlement'[x] = settlement[x]
    BY <1>1
  <2>2. QED  BY <1>2, <2>1, SameOthers
<1>11. QED  BY <1>3, <1>5, <1>6, <1>7, <1>8, <1>9, <1>10 DEF StepOf, CallInv

\* The parent aborts the batch.
LEMMA ParentAbortsStep == ASSUME RunsInv, NEW c \in Calls, ParentAborts(c) PROVE StepOf(c)
<1>0. Typed  BY DEF RunsInv
<1>1. /\ UNCHANGED <<ledgerVars, call, handle, item, row, marks, notified>>
      /\ swarm' = [swarm EXCEPT ![c].aborted = TRUE] /\ Abort(ExecsOf(c))
  BY DEF ParentAborts, diskVars
<1> PICK es : es = ExecsOf(c)  OBVIOUS
<1>2. es \in SUBSET IdsOf(c) /\ Abort(es) /\ ExecsOf(c) \subseteq es  BY <1>1 DEF ExecsOf
<1>3. \A x \in Ids : Ledger!Live(x)' = Ledger!Live(x) /\ settlement'[x] = settlement[x]
  BY <1>1 DEF ledgerVars, Ledger!Live
<1>4. [Ledger!Next]_ledgerVars /\ marks' \subseteq Ids
      /\ row' \in [Ids -> {"none", "running", "cancel_requested", "completed", "failed"}]
  BY <1>0, <1>1 DEF Typed
<1>5. QED  BY <1>1, <1>2, <1>3, <1>4, StopMoves

\* A stop reaches the id, what it covers, and the batch.
LEMMA StopAgentStep ==
  ASSUME RunsInv, NEW c \in Calls, NEW id \in IdsOf(c), StopAgent(id)
  PROVE  StepOf(c)
<1> DEFINE batch == id = Own(c) /\ BatchRuns(c) /\ ~swarm[c].aborted
           runs  == {x \in Ids : Covers(id, x) /\ handle[x] # None}
           es    == {handle[x] : x \in runs} \cup (IF batch THEN ExecsOf(c) ELSE {})
<1>0. LedgerInv /\ Typed /\ id \in Ids /\ id[1] = c  BY IdFacts DEF RunsInv
<1>1. /\ Ledger!RequestCancel(runs \cup {id}) /\ Abort(es)
      /\ swarm' = IF batch THEN [swarm EXCEPT ![c].aborted = TRUE] ELSE swarm
      /\ marks' = marks \cup {id}
      /\ UNCHANGED <<call, handle, item, row, notified>>
  BY <1>0 DEF StopAgent
<1>2. es \subseteq IdsOf(c)
  <2>1. ASSUME NEW x \in runs PROVE handle[x] \in IdsOf(c)
    <3>1. x \in Ids /\ x[1] = c /\ handle[x] # None  BY <1>0, <2>1 DEF Covers
    <3>2. PICK d \in Calls : x \in IdsOf(d)  BY <3>1 DEF Ids
    <3>3. d = c  BY <3>1, <3>2, IdFacts
    <3>4. QED  BY <3>1, <3>2, <3>3 DEF RunsInv, CallInv, Handled
  <2>2. QED  BY <2>1 DEF ExecsOf
<1>3. /\ [Ledger!Next]_ledgerVars
      /\ \A x \in Ids : Ledger!Live(x)' = Ledger!Live(x) /\ settlement'[x] = settlement[x]
  <2> PICK ids : ids = runs \cup {id}  OBVIOUS
  <2>1. ids \in SUBSET Ids /\ Ledger!RequestCancel(ids)  BY <1>0, <1>1
  <2>2. QED  BY <1>0, <2>1, CancelEffect
<1>4. \/ swarm' = swarm
      \/ swarm' = [swarm EXCEPT ![c].aborted = TRUE] /\ ExecsOf(c) \subseteq es
  BY <1>1
<1> HIDE DEF batch, runs, es
<1>5. PICK fs \in SUBSET IdsOf(c) : fs = es  BY <1>2
<1>6. Abort(fs)
      /\ \/ swarm' = swarm
         \/ swarm' = [swarm EXCEPT ![c].aborted = TRUE] /\ ExecsOf(c) \subseteq fs
  BY <1>1, <1>4, <1>5
<1>7. /\ UNCHANGED <<call, handle, item, notified>> /\ marks' \subseteq Ids
      /\ row' \in [Ids -> {"none", "running", "cancel_requested", "completed", "failed"}]
      /\ \A x \in Ids : row'[x] # row[x] => x[1] = c /\ row'[x] = "cancel_requested"
  BY <1>0, <1>1 DEF Typed
<1>8. QED  BY <1>3, <1>6, <1>7, StopMoves

\* A mark is written to rows that still run.
LEMMA MarkCancelRequestedStep ==
  ASSUME RunsInv, NEW c \in Calls, NEW id \in IdsOf(c), MarkCancelRequested(id)
  PROVE  StepOf(c)
<1>0. Typed /\ id \in Ids /\ id[1] = c  BY IdFacts DEF RunsInv
<1>1. /\ UNCHANGED <<ledgerVars, call, handle, exec, swarm, item, notified>>
      /\ marks' = marks \ {id}
      /\ \/ row' = row
         \/ row' = [x \in Ids |-> IF Covers(id, x) /\ row[x] = "running"
                                  THEN "cancel_requested" ELSE row[x]]
  BY DEF MarkCancelRequested, engineVars, swarmVars
<1>2. /\ row' \in [Ids -> {"none", "running", "cancel_requested", "completed", "failed"}]
      /\ \A x \in Ids : row'[x] # row[x] => x[1] = c /\ row'[x] = "cancel_requested"
  BY <1>0, <1>1 DEF Typed, Covers
<1>3. \A x \in Ids : Ledger!Live(x)' = Ledger!Live(x) /\ settlement'[x] = settlement[x]
  BY <1>1 DEF ledgerVars, Ledger!Live
<1>4. [Ledger!Next]_ledgerVars /\ marks' \subseteq Ids  BY <1>0, <1>1 DEF Typed
<1>5. Abort({})
  <2>1. exec = [e \in Ids |-> exec[e]]  BY <1>0 DEF Typed
  <2>2. exec' = [e \in Ids |-> exec[e]]  BY <1>1, <2>1
  <2>3. QED  BY <2>2 DEF Abort
<1>6. {} \in SUBSET IdsOf(c)  OBVIOUS
<1>7. QED  BY <1>1, <1>2, <1>3, <1>4, <1>5, <1>6, StopMoves

-----------------------------------------------------------------------------
(* The whole system.                                                       *)

\* The invariant holds at the start.
LEMMA InitInv == Init => RunsInv
<1>1. SUFFICES ASSUME Init PROVE RunsInv
  OBVIOUS
<1>2. LedgerInv  BY <1>1, LedgerInit DEF Init
<1>3. Typed
  <2>1. /\ NoCall \in CallRec /\ NoSwarm \in Batch /\ NoItems \in [1..MaxTasks -> Item]
        /\ IdleExec \in ExecRec
    BY DEF NoCall, CallRec, Pcs, KeyLists, NoSwarm, Batch, NoItems, Item, ItemStates, IdleExec,
           ExecRec
  <2>2. QED  BY <1>1, <2>1 DEF Init, Typed, ExecRec
<1>4. ASSUME NEW c \in Calls PROVE CallInv(c)
  <2>1. /\ call[c] = NoCall /\ swarm[c] = NoSwarm /\ item[c] = NoItems /\ notified[c] = 0
        /\ \A e \in IdsOf(c) : /\ e \in Ids /\ exec[e] = IdleExec /\ handle[e] = None
                               /\ row[e] = "none" /\ ~Ledger!Live(e)
                               /\ settlement[e] = Ledger!Open
    BY <1>1, <1>4, IdFacts DEF Init, Ledger!Init, Ledger!Live, Ledger!NoRun
  <2>2. \A e \in IdsOf(c) : exec[e].state = "idle"  BY <2>1 DEF IdleExec
  <2>3. /\ call[c].pc = "idle" /\ call[c].keys = <<>> /\ swarm[c].phase = "off"
        /\ ~swarm[c].aborted
    BY <2>1 DEF NoCall, NoSwarm
  <2>4. \A i \in 1..MaxTasks : item[c][i].state = "queued"
    <3>1. \A i \in 1..MaxTasks : NoItems[i].state = "queued"  BY DEF NoItems
    <3>2. QED  BY <2>1, <3>1
  <2>5. Keyed(c)  BY <2>1, <2>3, <2>4 DEF Keyed, Busy
  <2>6. Placed(c)  BY <2>2 DEF Placed
  <2>7. Handled(c)  BY <2>1 DEF Handled
  <2>8. Staged(c)
    <3>1. row[Own(c)] \notin Ledger!Terminal  BY <2>1, OwnId DEF Ledger!Terminal
    <3>2. QED  BY <2>1, <2>3, <3>1, OwnId DEF Staged
  <2>9. AbortReaches(c)  BY <2>3 DEF AbortReaches
  <2>10. QED  BY <2>5, <2>6, <2>7, <2>8, <2>9 DEF CallInv
<1>5. QED  BY <1>2, <1>3, <1>4 DEF RunsInv

\* Every step is about one call.
LEMMA NextStep == RunsInv /\ Next => \E c \in Calls : StepOf(c)
<1>1. SUFFICES ASSUME RunsInv, Next PROVE \E c \in Calls : StepOf(c)
  OBVIOUS
<1>2. ASSUME NEW c \in Calls, CallStep(c) PROVE StepOf(c)
  BY <1>1, <1>2, BeginRunStep, RejectStep, CallDirectStep, DirectReturnsStep, LaunchAgentStep,
     AgentReturnsStep, PersistStep, NotifyStep, FinallyStep, StartSwarmStep, StartSliceStep,
     EndPhaseStep, LaunchSynthesizerStep, SynthesizerReturnsStep, SwarmReturnsStep
     DEF CallStep
<1>3. ASSUME NEW c \in Calls, NEW i \in 1..MaxTasks, ItemStep(c, i) PROVE StepOf(c)
  BY <1>1, <1>3, StartWorkerRowStep, FailClosedStep, LaunchWorkerStep, WorkerReturnsStep,
     LaunchVerifierStep, VerifierReturnsStep
     DEF ItemStep
<1>4. ASSUME NEW c \in Calls, Progress(c) PROVE StepOf(c)
  BY <1>1, <1>2, <1>3, <1>4, EngineEndsStep DEF Progress
<1>5. ASSUME NEW c \in Calls, ParentAborts(c) PROVE StepOf(c)
  BY <1>1, <1>5, ParentAbortsStep
<1>6. ASSUME NEW c \in Calls, Reserve(c) \/ Throw(c) \/ ResolveFails(c) PROVE StepOf(c)
  BY <1>1, <1>6, ReserveStep, ThrowStep, ResolveFailsStep
<1>7. ASSUME NEW id \in Ids, StopAgent(id) \/ MarkCancelRequested(id)
      PROVE  \E c \in Calls : StepOf(c)
  <2>1. PICK c \in Calls : id \in IdsOf(c)  BY DEF Ids
  <2>2. StepOf(c)  BY <1>1, <1>7, <2>1, StopAgentStep, MarkCancelRequestedStep
  <2>3. QED  BY <2>2
<1>8. QED  BY <1>1, <1>4, <1>5, <1>6, <1>7 DEF Next

\* The invariant is about the variables of the specification.
LEMMA Stutter == RunsInv /\ UNCHANGED vars => RunsInv'
<1>1. SUFFICES ASSUME RunsInv, UNCHANGED vars PROVE RunsInv'
  OBVIOUS
<1>2. /\ UNCHANGED <<ledgerVars, call, handle, exec, swarm, item, row, marks, notified>>
  BY <1>1 DEF vars, engineVars, swarmVars, diskVars
<1>3. LedgerInv'  BY <1>1, <1>2, LedgerStep DEF RunsInv
<1>4. Typed'  BY <1>1, <1>2 DEF RunsInv, Typed
<1>5. ASSUME NEW d \in Calls PROVE CallInv(d)'
  <2>1. Same(d)  BY <1>2 DEF Same, ledgerVars, Ledger!Live
  <2>2. QED  BY <1>1, <2>1, Undisturbed DEF RunsInv
<1>6. QED  BY <1>3, <1>4, <1>5 DEF RunsInv

\* The invariant holds in every reachable state.
LEMMA RunsInvariance == Spec => []RunsInv
<1>1. RunsInv /\ [Next]_vars => RunsInv'
  BY NextStep, StepInv, Stutter
<1>2. QED  BY InitInv, <1>1, PTL DEF Spec

\* Everything the tool, the engine and the swarm do to the ledger is a step of the
\* ledger's own specification: what is shown of the ledger holds in the system.
THEOREM LedgerRefined == Spec => RefinesLedger
<1>1. Init => Ledger!Init  BY DEF Init
<1>2. RunsInv /\ [Next]_vars => [Ledger!Next]_Ledger!ledgerVars
  <2>1. SUFFICES ASSUME RunsInv, [Next]_vars PROVE [Ledger!Next]_ledgerVars
    BY DEF ledgerVars, Ledger!ledgerVars
  <2>2. CASE Next  BY <2>1, <2>2, NextStep DEF StepOf
  <2>3. CASE UNCHANGED vars  BY <2>3 DEF vars
  <2>4. QED  BY <2>1, <2>2, <2>3
<1>3. QED  BY RunsInvariance, <1>1, <1>2, PTL DEF Spec, RefinesLedger, Ledger!Spec

\* Ledger, handles, executions and rows keep their types, whatever is stopped, thrown
\* or aborted in between.
THEOREM TypeCorrect == Spec => []TypeOK
<1>1. RunsInv => TypeOK
  BY DEF RunsInv, LedgerInv, Typed, CallInv, Keyed, TypeOK
<1>2. QED  BY RunsInvariance, <1>1, PTL

\* The terminal side effects of a run are answered for once, to the one who asks first,
\* with the status that was settled, also when its entry was evicted long ago.
THEOREM AnsweredOnce == Spec => []AnswersOncePerSettlement
<1>1. RunsInv => AnswersOncePerSettlement  BY LedgerAnswers DEF RunsInv
<1>2. QED  BY RunsInvariance, <1>1, PTL

\* What the first report said of a run is not rewritten by a later one.
THEOREM FirstReportKept == Spec => FirstReportStands
<1>1. RunsInv /\ [Next]_vars => [\A id \in Ids : Stands(id)]_Ledger!ledgerVars
  <2>1. SUFFICES ASSUME RunsInv, [Next]_vars PROVE [\A id \in Ids : Stands(id)]_ledgerVars
    BY DEF ledgerVars, Ledger!ledgerVars
  <2>2. [Ledger!Next]_ledgerVars
    <3>1. CASE Next  BY <2>1, <3>1, NextStep DEF StepOf
    <3>2. CASE UNCHANGED vars  BY <3>2 DEF vars
    <3>3. QED  BY <2>1, <3>1, <3>2
  <2>3. QED  BY <2>1, <2>2, FirstReport DEF RunsInv
<1>2. QED
  BY RunsInvariance, <1>1, PTL DEF Spec, FirstReportStands, Ledger!FirstReportStands, Stands

\* A call that is not between its reservation and its settlement.
HoldsNothing(c) == call[c].pc \in {"idle", "refused", "persist", "notify", "wrapup", "done"}

\* Of such a call nothing is live in the ledger.
LEMMA NothingHeld ==
  ASSUME RunsInv, NEW c \in Calls, HoldsNothing(c), NEW id \in IdsOf(c)
  PROVE  ~Ledger!Live(id)
<1>0. Keyed(c) /\ Placed(c) /\ Handled(c) /\ Staged(c)  BY DEF RunsInv, CallInv
<1>2. CASE id = Own(c)  BY <1>0, <1>2 DEF Staged, HoldsNothing
<1>3. CASE id # Own(c)
  <2>1. SUFFICES ASSUME handle[id] # None PROVE FALSE
    BY <1>0, <1>3 DEF Handled
  <2> PICK e : e = handle[id]  OBVIOUS
  <2>2. e \in IdsOf(c) /\ IdOf(e) = id /\ Running(e)  BY <1>0, <2>1 DEF Handled
  <2>3. Place(e) /\ e[1] = c /\ e[2] \in 0..MaxTasks
    BY <1>0, <2>2, IdFacts DEF Placed, Running
  <2>4. swarm[c].phase = "off" /\ \A i \in 1..MaxTasks : item[c][i].state = "queued"
    <3>1. swarm[c].phase = "off" /\ item[c] = NoItems  BY <1>0 DEF Keyed, HoldsNothing
    <3>2. \A i \in 1..MaxTasks : NoItems[i].state = "queued"  BY DEF NoItems
    <3>3. QED  BY <3>1, <3>2
  <2>5. e[2] = 0 \/ e[2] \in 1..MaxTasks  BY <2>3, Assumed
  <2>6. e = Own(c)  BY <2>3, <2>4, <2>5 DEF Place
  <2>7. QED  BY <2>2, <2>3, <2>6 DEF Place, HoldsNothing
<1>4. QED  BY <1>2, <1>3

\* When its session hears of a call, nothing of that call is live in the ledger: no
\* worker, verifier or synthesizer of its batch, and not the run itself.
THEOREM NothingLive == Spec => []NothingLiveAfterNotice
<1>1. ASSUME RunsInv, NEW c \in Calls, notified[c] > 0 PROVE HoldsNothing(c)
  BY <1>1 DEF RunsInv, CallInv, Staged, HoldsNothing
<1>2. RunsInv => NothingLiveAfterNotice
  BY <1>1, NothingHeld DEF NothingLiveAfterNotice
<1>3. QED  BY RunsInvariance, <1>2, PTL

\* One notification, and a row on disk that says what the ledger says, whichever of
\* the engine, the tool and its catch blocks came first.
THEOREM OneNotice == Spec => []OneNoticeOneVerdict
<1>1. RunsInv => OneNoticeOneVerdict
  BY DEF RunsInv, CallInv, Staged, OneNoticeOneVerdict, Ledger!Terminal
<1>2. QED  BY RunsInvariance, <1>1, PTL

\* An abort of a batch reaches every execution of it, those that start later included.
THEOREM AbortReachesEverything == Spec => []AbortReachesAll
<1>1. RunsInv => AbortReachesAll
  BY DEF RunsInv, CallInv, AbortReaches, AbortReachesAll
<1>2. QED  BY RunsInvariance, <1>1, PTL

-----------------------------------------------------------------------------
(* The limit: the slots of the ledger.                                     *)

\* The slots in use are within the limit.
SlotsInv == IsFiniteSet(Ledger!Slots) /\ Cardinality(Ledger!Slots) <= Limit

\* The ledger counts its slots.
LEMMA LiveCountIs == Ledger!LiveCount = Cardinality(Ledger!Slots)
  BY DEF Ledger!LiveCount, Ledger!Cardinality, Cardinality

\* One to n of one id are n slots.
LEMMA SlotsOfOne ==
  ASSUME NEW id, NEW n \in Nat
  PROVE  IsFiniteSet({id} \X (1..n)) /\ Cardinality({id} \X (1..n)) <= n
<1> DEFINE S == {id} \X (1..n)
           F == [s \in S |-> s[2]]
<1>1. F \in Injection(S, 1..n)
  <2>1. \A s \in S : s = <<id, s[2]>> /\ s[2] \in 1..n  OBVIOUS
  <2>2. F \in [S -> 1..n] /\ \A s \in S : F[s] = s[2]  BY <2>1
  <2>3. \A a, b \in S : F[a] = F[b] => a = b  BY <2>1, <2>2
  <2> HIDE DEF F, S
  <2>4. QED  BY <2>2, <2>3, Fun_IsInj
<1>2. IsFiniteSet(1..n) /\ Cardinality(1..n) = n
  BY FS_Interval
<1> HIDE DEF F, S
<1>3. IsFiniteSet(S) /\ Cardinality(S) <= n  BY <1>1, <1>2, FS_Injection
<1>4. QED  BY <1>3 DEF S

\* The slots that are in use after a step were in use before it, but for those of one
\* run that is registered in it.
LEMMA SlotsKept ==
  ASSUME SlotsInv,
         \A x \in Ids : Ledger!Live(x)' =>
           \/ Ledger!Live(x) /\ active'[x].weight = active[x].weight
           \/ active'[x].weight = 0
  PROVE  SlotsInv'
<1>1. Ledger!Slots' \in SUBSET Ledger!Slots
  BY Assumed DEF Ledger!Slots
<1>2. /\ IsFiniteSet(Ledger!Slots') /\ Cardinality(Ledger!Slots') <= Cardinality(Ledger!Slots)
  BY <1>1, FS_Subset DEF SlotsInv
<1>3. Cardinality(Ledger!Slots) \in Nat /\ Cardinality(Ledger!Slots') \in Nat
  BY <1>2, FS_CardinalityType DEF SlotsInv
<1>4. QED  BY <1>2, <1>3, Assumed DEF SlotsInv

\* A reservation is refused when its slots would exceed the limit.
LEMMA SlotsReserved ==
  ASSUME LedgerInv, SlotsInv, NEW id \in Ids, NEW session, NEW weight \in 1..SWARM_CONCURRENCY,
         Ledger!TryReserve(id, session, weight)
  PROVE  SlotsInv'
<1> DEFINE S == Ledger!Slots
           N == {id} \X (1..weight)
<1>0. weight \in Nat  BY Assumed
<1>1. /\ Cardinality(S) + weight <= Limit
      /\ active' = [active EXCEPT ![id] = Ledger!Run(session, weight)]
  <2>1. Ledger!LiveCount + weight <= Limit /\ Ledger!Register(id, session, weight)
    BY DEF Ledger!TryReserve
  <2>2. Ledger!LiveCount = Cardinality(S)  BY LiveCountIs
  <2>3. QED  BY <2>1, <2>2 DEF Ledger!Register
<1>2. \A x \in Ids : active'[x] = IF x = id THEN Ledger!Run(session, weight) ELSE active[x]
  BY <1>1 DEF LedgerInv, Ledger!TypeOK
<1>3. S' \in SUBSET (S \cup N)
  <2>1. Ledger!Run(session, weight).weight = weight  BY DEF Ledger!Run
  <2>2. ASSUME NEW s \in S' PROVE s \in S \cup N
    <3>1. /\ s \in Ids \X (1..SWARM_CONCURRENCY) /\ Ledger!Live(s[1])'
          /\ s[2] <= active'[s[1]].weight
      BY <2>2 DEF Ledger!Slots
    <3>2. CASE s[1] = id  BY <1>0, <1>2, <2>1, <3>1, <3>2, Assumed
    <3>3. CASE s[1] # id
      <4>1. active'[s[1]] = active[s[1]]  BY <1>2, <3>1, <3>3
      <4>2. Ledger!Live(s[1])  BY <3>1, <4>1 DEF Ledger!Live
      <4>3. QED  BY <3>1, <4>1, <4>2 DEF Ledger!Slots
    <3>4. QED  BY <3>2, <3>3
  <2>3. QED  BY <2>2
<1> HIDE DEF S, N
<1>4. IsFiniteSet(N) /\ Cardinality(N) <= weight  BY <1>0, SlotsOfOne DEF N
<1>5. IsFiniteSet(S)  BY DEF SlotsInv, S
<1>6. /\ IsFiniteSet(S \cup N) /\ IsFiniteSet(S \cap N)
      /\ Cardinality(S \cup N) = Cardinality(S) + Cardinality(N) - Cardinality(S \cap N)
  BY <1>4, <1>5, FS_Union, FS_Intersection
<1>7. IsFiniteSet(S') /\ Cardinality(S') <= Cardinality(S \cup N)
  BY <1>3, <1>6, FS_Subset
<1>8. /\ Cardinality(S) \in Nat /\ Cardinality(N) \in Nat /\ Cardinality(S \cap N) \in Nat
      /\ Cardinality(S') \in Nat
  BY <1>4, <1>5, <1>6, <1>7, FS_CardinalityType
<1>9. Cardinality(S') <= Limit  BY <1>0, <1>1, <1>4, <1>6, <1>7, <1>8, Assumed
<1>10. QED  BY <1>7, <1>9 DEF SlotsInv, S

-----------------------------------------------------------------------------
(* The limit: what a step takes.                                           *)

\* Whether id is that of a call's own run.
IsOwn(id) == \E d \in Calls : id = Own(d)

\* No run takes more slots than it had, and none that is new takes any.
TakesNoSlots ==
  \A x \in Ids : Ledger!Live(x)' =>
    \/ Ledger!Live(x) /\ active'[x].weight = active[x].weight
    \/ active'[x].weight = 0 /\ ~IsOwn(x)

\* No call changes its tasks or its weight.
KeepsWeights ==
  \A d \in Calls : call'[d].weight = call[d].weight /\ call'[d].keys = call[d].keys

\* No task is taken from a queue.
TakesNoWork ==
  \A d \in Calls, i \in 1..MaxTasks : item'[d][i].state \in Busy => item[d][i].state \in Busy

\* Of the operations of the ledger only a reservation takes slots for a call.
LEMMA NoSlots ==
  ASSUME LedgerInv,
         \/ UNCHANGED ledgerVars
         \/ \E id \in Ids, status \in Ledger!Terminal :
              Ledger!Settle(id, status) \/ Ledger!SettleAndClaim(id, status)
         \/ \E ids \in SUBSET Ids : Ledger!RequestCancel(ids)
         \/ \E id \in Ids : /\ Ledger!EnsureCovered(id, Session)
                            /\ Ledger!Live(id) \/ ~IsOwn(id)
  PROVE  TakesNoSlots
<1>0. Ledger!TypeOK  BY DEF LedgerInv
<1>1. CASE UNCHANGED ledgerVars  BY <1>1 DEF ledgerVars, TakesNoSlots, Ledger!Live
<1>2. ASSUME NEW id \in Ids, NEW status \in Ledger!Terminal,
             Ledger!Settle(id, status) \/ Ledger!SettleAndClaim(id, status)
      PROVE  TakesNoSlots
  <2>1. active' = active \/ active' = [active EXCEPT ![id] = Ledger!NoRun]
    BY <1>2 DEF Ledger!Settle, Ledger!SettleAndClaim, Ledger!ledgerVars
  <2>2. \A x \in Ids : active'[x] = active[x] \/ active'[x] = Ledger!NoRun
    BY <1>0, <2>1 DEF Ledger!TypeOK
  <2>3. Ledger!NoRun.status = "none"  BY DEF Ledger!NoRun
  <2>4. QED  BY <2>2, <2>3 DEF TakesNoSlots, Ledger!Live
<1>3. ASSUME NEW ids \in SUBSET Ids, Ledger!RequestCancel(ids)
      PROVE  TakesNoSlots
  BY <1>0, <1>3 DEF TakesNoSlots, Ledger!RequestCancel, Ledger!TypeOK, Ledger!Live
<1>4. ASSUME NEW id \in Ids, Ledger!EnsureCovered(id, Session), Ledger!Live(id) \/ ~IsOwn(id)
      PROVE  TakesNoSlots
  <2>1. CASE Ledger!Live(id)
    <3>1. active' = [active EXCEPT ![id].session = IF @ = None THEN Session ELSE @]
      BY <1>4, <2>1 DEF Ledger!EnsureCovered
    <3>2. QED  BY <1>0, <3>1 DEF TakesNoSlots, Ledger!TypeOK, Ledger!Live
  <2>2. CASE ~Ledger!Live(id)
    <3>1. active' = [active EXCEPT ![id] = Ledger!Run(Session, 0)] /\ ~IsOwn(id)
      BY <1>4, <2>2 DEF Ledger!EnsureCovered, Ledger!Register
    <3>2. Ledger!Run(Session, 0).weight = 0  BY DEF Ledger!Run
    <3>3. \A x \in Ids : active'[x] = IF x = id THEN Ledger!Run(Session, 0) ELSE active[x]
      BY <1>0, <3>1 DEF Ledger!TypeOK
    <3>4. QED  BY <3>1, <3>2, <3>3 DEF TakesNoSlots, Ledger!Live
  <2>3. QED  BY <2>1, <2>2
<1>5. QED  BY <1>1, <1>2, <1>3, <1>4

\* A launch of the call's own run finds it live; that of a batch is not one of a call.
LEMMA LaunchNoSlots ==
  ASSUME RunsInv, NEW c \in Calls, NEW e \in IdsOf(c), NEW aborted, Launch(e, aborted),
         WorkerOf(e) => e[2] \in Tasks(c), e = Own(c) => Ledger!Live(e)
  PROVE  TakesNoSlots
<1>0. LedgerInv /\ Typed /\ Keyed(c)  BY DEF RunsInv, CallInv
<1> PICK id : id = IdOf(e)  OBVIOUS
<1>1. /\ id \in IdsOf(c) /\ id \in Ids /\ id[1] = c
      /\ e = Own(c) => id = e
      /\ e # Own(c) => id # Own(c)
  BY <1>0, IdOfFacts, IdFacts
<1>2. Ledger!EnsureCovered(id, Session)  BY DEF Launch
<1>3. Ledger!Live(id) \/ ~IsOwn(id)  BY <1>1 DEF IsOwn, Own
<1>4. QED  BY <1>0, <1>1, <1>2, <1>3, NoSlots

\* Only a reservation takes slots of the ledger.
LEMMA NextTakesSlots ==
  ASSUME RunsInv, Next, \A c \in Calls : ~Reserve(c)
  PROVE  TakesNoSlots
<1>0. LedgerInv /\ Typed  BY DEF RunsInv
<1>1. \A status \in BOOLEAN : Status(status) \in Ledger!Terminal  BY DEF Status, Ledger!Terminal
<1>2. "failed" \in Ledger!Terminal /\ "completed" \in Ledger!Terminal  BY DEF Ledger!Terminal
<1>3. ASSUME UNCHANGED ledgerVars PROVE TakesNoSlots  BY <1>0, <1>3, NoSlots
<1>4. ASSUME NEW c \in Calls, NEW status, NEW caught, SettleRun(c, status, caught),
             status \in Ledger!Terminal
      PROVE  TakesNoSlots
  <2>1. Own(c) \in Ids  BY OwnId, IdFacts
  <2>2. QED  BY <1>0, <1>4, <2>1, NoSlots DEF SettleRun
<1>5. ASSUME NEW c \in Calls,
             \/ Reject(c) \/ Throw(c) \/ DirectReturns(c) \/ AgentReturns(c)
             \/ ResolveFails(c) \/ SwarmReturns(c)
      PROVE  TakesNoSlots
  <2>1. \/ SettleRun(c, "failed", FALSE) \/ SettleRun(c, "failed", TRUE)
        \/ SettleRun(c, "completed", FALSE)
        \/ SettleRun(c, Status(exec[Own(c)].completed), FALSE)
        \/ SettleRun(c, Status(AllPassed(c)), FALSE)
    BY <1>5 DEF Reject, Throw, DirectReturns, AgentReturns, ResolveFails, SwarmReturns
  <2>2. /\ Status(exec[Own(c)].completed) \in Ledger!Terminal
        /\ Status(AllPassed(c)) \in Ledger!Terminal
    BY DEF Status, Ledger!Terminal
  <2>3. QED  BY <1>2, <1>4, <2>1, <2>2
<1>6. ASSUME NEW c \in Calls,
             \/ BeginRun(c) \/ CallDirect(c) \/ Persist(c) \/ Notify(c) \/ StartSwarm(c)
             \/ StartSlice(c) \/ EndPhase(c) \/ SynthesizerReturns(c) \/ ParentAborts(c)
      PROVE  UNCHANGED ledgerVars
  BY <1>6 DEF BeginRun, CallDirect, Persist, Notify, StartSwarm, StartSlice, EndPhase,
              SynthesizerReturns, ParentAborts
<1>7. ASSUME NEW c \in Calls, NEW i \in 1..MaxTasks,
             StartWorkerRow(c, i) \/ FailClosed(c, i) \/ WorkerReturns(c, i) \/ VerifierReturns(c, i)
      PROVE  UNCHANGED ledgerVars
  BY <1>7 DEF StartWorkerRow, FailClosed, WorkerReturns, VerifierReturns
<1>8. ASSUME NEW c \in Calls, LaunchAgent(c) PROVE TakesNoSlots
  <2>1. Launch(Own(c), FALSE) /\ call[c].pc = "dispatch"  BY <1>8 DEF LaunchAgent, At
  <2>2. Ledger!Live(Own(c))  BY <2>1 DEF RunsInv, CallInv, Staged
  <2>3. ~WorkerOf(Own(c)) /\ Own(c) \in IdsOf(c)  BY OwnId DEF WorkerOf, Own
  <2>4. QED  BY <2>1, <2>2, <2>3, LaunchNoSlots
<1>9. ASSUME NEW c \in Calls, LaunchSynthesizer(c) PROVE TakesNoSlots
  <2>1. Launch(<<c, 0, 1>>, swarm[c].aborted) /\ swarm[c].phase = "synth"
    BY <1>9 DEF LaunchSynthesizer
  <2>2. call[c].keys # <<>>  BY <2>1 DEF RunsInv, CallInv, Keyed
  <2>3. <<c, 0, 1>> \in IdsOf(c) /\ <<c, 0, 1>> # Own(c) /\ ~WorkerOf(<<c, 0, 1>>)
    BY <1>0, <2>2, BatchIds DEF Own, WorkerOf, RunsInv, CallInv
  <2>4. QED  BY <2>1, <2>3, LaunchNoSlots
<1>10. ASSUME NEW c \in Calls, NEW i \in 1..MaxTasks, LaunchWorker(c, i) \/ LaunchVerifier(c, i)
       PROVE  TakesNoSlots
  <2>1. /\ item[c][i].state \in Busy
        /\ \E n \in 0..2 : Launch(<<c, i, n>>, swarm[c].aborted)
    <3>1. item[c][i] \in Item  BY <1>0 DEF Typed
    <3>2. item[c][i].round \in 0..2 /\ 0 \in 0..2  BY <3>1 DEF Item
    <3>3. QED  BY <1>10, <3>2 DEF LaunchWorker, LaunchVerifier, Busy
  <2>2. PICK n \in 0..2 : Launch(<<c, i, n>>, swarm[c].aborted)  BY <2>1
  <2>3. i \in Tasks(c) /\ \A m \in 0..2 : <<c, i, m>> \in IdsOf(c)  BY <2>1, TaskId
  <2>4. <<c, i, n>> \in IdsOf(c)  BY <2>3, Zenon
  <2>5. <<c, i, n>> # Own(c) /\ <<c, i, n>>[2] = i  BY Assumed DEF Own
  <2>6. QED  BY <2>2, <2>3, <2>4, <2>5, LaunchNoSlots
<1>11. ASSUME NEW c \in Calls, Finally(c) PROVE TakesNoSlots
  <2>1. UNCHANGED ledgerVars \/ Ledger!Settle(Own(c), "failed")  BY <1>11 DEF Finally
  <2>2. Own(c) \in Ids  BY OwnId, IdFacts
  <2>3. QED  BY <1>0, <1>2, <2>1, <2>2, NoSlots
<1>12. ASSUME NEW c \in Calls, NEW e \in IdsOf(c), EngineEnds(e) PROVE TakesNoSlots
  <2>1. PICK completed \in BOOLEAN :
          \/ handle[IdOf(e)] = e /\ Ledger!Settle(IdOf(e), Status(completed))
          \/ UNCHANGED ledgerVars
    BY <1>12 DEF EngineEnds
  <2>2. CASE handle[IdOf(e)] = e /\ Ledger!Settle(IdOf(e), Status(completed))
    <3>1. e[1] = c /\ e \in Ids /\ e[2] \in 0..MaxTasks  BY IdFacts
    <3>2. WorkerOf(e) => e[2] \in Tasks(c)
      <4>1. SUFFICES ASSUME WorkerOf(e) PROVE e[2] \in Tasks(c)  OBVIOUS
      <4>2. Place(e)  BY <1>12 DEF RunsInv, CallInv, Placed, EngineEnds, Running
      <4>3. item[c][e[2]].state = "running" /\ e[2] \in 1..MaxTasks
        BY <3>1, <4>1, <4>2, Assumed DEF Place, WorkerOf
      <4>4. QED  BY <4>3 DEF RunsInv, CallInv, Keyed
    <3>3. IdOf(e) \in IdsOf(c)  BY <1>0, <3>2, IdOfFacts DEF RunsInv, CallInv
    <3> PICK id : id = IdOf(e)  OBVIOUS
    <3>4. id \in Ids /\ Ledger!Settle(id, Status(completed))  BY <2>2, <3>3, IdFacts
    <3>5. QED  BY <1>0, <1>1, <3>4, NoSlots
  <2>3. QED  BY <1>3, <2>1, <2>2
<1>13. ASSUME NEW id \in Ids, StopAgent(id) PROVE TakesNoSlots
  <2> DEFINE runs == {x \in Ids : Covers(id, x) /\ handle[x] # None}
  <2>1. Ledger!RequestCancel(runs \cup {id})  BY <1>13 DEF StopAgent
  <2> PICK ids : ids = runs \cup {id}  OBVIOUS
  <2>2. ids \in SUBSET Ids /\ Ledger!RequestCancel(ids)  BY <2>1
  <2>3. QED  BY <1>0, <2>2, NoSlots
<1>14. ASSUME NEW id \in Ids, MarkCancelRequested(id) PROVE TakesNoSlots
  BY <1>3, <1>14 DEF MarkCancelRequested
<1>15. ASSUME NEW c \in Calls, Progress(c) \/ Throw(c) \/ ResolveFails(c) \/ ParentAborts(c)
       PROVE  TakesNoSlots
  BY <1>3, <1>5, <1>6, <1>7, <1>8, <1>9, <1>10, <1>11, <1>12, <1>15
     DEF Progress, CallStep, ItemStep
<1>16. QED  BY <1>13, <1>14, <1>15 DEF Next


\* Only a reservation gives a call its tasks and its weight.
LEMMA NextKeepsWeights ==
  ASSUME RunsInv, Next, \A c \in Calls : ~Reserve(c)
  PROVE  KeepsWeights
<1>0. Typed  BY DEF RunsInv
<1>1. ASSUME UNCHANGED call PROVE KeepsWeights  BY <1>1 DEF KeepsWeights
<1>2. ASSUME NEW c \in Calls, NEW pc, Goto(c, pc) PROVE KeepsWeights
  <2>1. call[c] \in CallRec /\ call \in [Calls -> CallRec]  BY <1>0 DEF Typed
  <2>2. call' = [call EXCEPT ![c].pc = pc]  BY <1>2 DEF Goto
  <2>3. QED  BY <2>1, <2>2 DEF KeepsWeights, CallRec
<1>3. ASSUME NEW c \in Calls, NEW status, NEW caught, SettleRun(c, status, caught)
      PROVE  KeepsWeights
  <2>1. call[c] \in CallRec /\ call \in [Calls -> CallRec]  BY <1>0 DEF Typed
  <2>2. PICK pc, claim : call' = [call EXCEPT ![c].pc = pc, ![c].claim = claim,
                                             ![c].caught = @ \/ caught]
    BY <1>3 DEF SettleRun
  <2>3. QED  BY <2>1, <2>2 DEF KeepsWeights, CallRec
<1>4. ASSUME NEW c \in Calls, CallStep(c) PROVE KeepsWeights
  BY <1>1, <1>2, <1>3, <1>4
     DEF CallStep, BeginRun, Reject, CallDirect, DirectReturns, LaunchAgent, AgentReturns,
         Persist, Notify, Finally, StartSwarm, StartSlice, EndPhase, LaunchSynthesizer,
         SynthesizerReturns, SwarmReturns
<1>5. ASSUME NEW c \in Calls, NEW i \in 1..MaxTasks, ItemStep(c, i) PROVE KeepsWeights
  BY <1>1, <1>5
     DEF ItemStep, StartWorkerRow, FailClosed, LaunchWorker, WorkerReturns, LaunchVerifier,
         VerifierReturns
<1>6. ASSUME NEW c \in Calls, NEW e \in IdsOf(c), EngineEnds(e) PROVE KeepsWeights
  BY <1>1, <1>6 DEF EngineEnds
<1>7. ASSUME NEW c \in Calls, Throw(c) \/ ResolveFails(c) \/ ParentAborts(c) PROVE KeepsWeights
  BY <1>1, <1>3, <1>7 DEF Throw, ResolveFails, ParentAborts
<1>8. ASSUME NEW id \in Ids, StopAgent(id) \/ MarkCancelRequested(id) PROVE KeepsWeights
  BY <1>1, <1>8 DEF StopAgent, MarkCancelRequested
<1>9. QED  BY <1>4, <1>5, <1>6, <1>7, <1>8 DEF Next, Progress

\* Only the next slice of a batch takes tasks from its queue.
LEMMA NextTakesWork ==
  ASSUME RunsInv, Next, \A c \in Calls : ~StartSlice(c)
  PROVE  TakesNoWork
<1>0. Typed /\ item \in [Calls -> [1..MaxTasks -> Item]]  BY DEF RunsInv, Typed
<1>1. ASSUME UNCHANGED item PROVE TakesNoWork  BY <1>1 DEF TakesNoWork
<1>2. ASSUME NEW c \in Calls, NEW i \in 1..MaxTasks, NEW r, item' = [item EXCEPT ![c][i] = r],
             item[c][i].state \in Busy
      PROVE  TakesNoWork
  BY <1>0, <1>2 DEF TakesNoWork
<1>3. ASSUME NEW c \in Calls, NEW i \in 1..MaxTasks, NEW state, SetItem(c, i, state),
             item[c][i].state \in Busy
      PROVE  TakesNoWork
  <2>1. item' = [item EXCEPT ![c][i] = [item[c][i] EXCEPT !.state = state]]
    BY <1>0, <1>3 DEF SetItem
  <2>2. QED  BY <1>2, <1>3, <2>1
<1>4. ASSUME NEW c \in Calls, SwarmReturns(c) PROVE TakesNoWork
  <2>1. item' = [item EXCEPT ![c] = NoItems]  BY <1>4 DEF SwarmReturns
  <2>2. \A i \in 1..MaxTasks : NoItems[i].state \notin Busy  BY DEF NoItems, Busy
  <2>3. QED  BY <1>0, <2>1, <2>2 DEF TakesNoWork
<1>5. ASSUME NEW c \in Calls, CallStep(c) PROVE TakesNoWork
  BY <1>1, <1>4, <1>5
     DEF CallStep, BeginRun, Reject, CallDirect, DirectReturns, LaunchAgent, AgentReturns,
         Persist, Notify, Finally, StartSwarm, EndPhase, LaunchSynthesizer,
         SynthesizerReturns, swarmVars
<1>6. ASSUME NEW c \in Calls, NEW i \in 1..MaxTasks, ItemStep(c, i) PROVE TakesNoWork
  <2>1. item[c][i].state \in Busy
    BY <1>6 DEF ItemStep, StartWorkerRow, FailClosed, LaunchWorker, WorkerReturns,
                LaunchVerifier, VerifierReturns, Busy
  <2>2. \/ \E state : SetItem(c, i, state)
        \/ item' = [item EXCEPT ![c][i] = [state |-> "starting", round |-> 2]]
    BY <1>6 DEF ItemStep, StartWorkerRow, FailClosed, LaunchWorker, WorkerReturns,
                LaunchVerifier, VerifierReturns
  <2>3. QED  BY <1>2, <1>3, <2>1, <2>2
<1>7. ASSUME NEW c \in Calls, NEW e \in IdsOf(c), EngineEnds(e) PROVE TakesNoWork
  BY <1>1, <1>7 DEF EngineEnds, swarmVars
<1>8. ASSUME NEW c \in Calls, Reserve(c) \/ Throw(c) \/ ResolveFails(c) \/ ParentAborts(c)
      PROVE  TakesNoWork
  BY <1>1, <1>8 DEF Reserve, Throw, ResolveFails, ParentAborts, swarmVars
<1>9. ASSUME NEW id \in Ids, StopAgent(id) \/ MarkCancelRequested(id) PROVE TakesNoWork
  BY <1>1, <1>9 DEF StopAgent, MarkCancelRequested, swarmVars
<1>10. QED  BY <1>5, <1>6, <1>7, <1>8, <1>9 DEF Next, Progress


-----------------------------------------------------------------------------
(* The limit: a slice.                                                     *)

\* Of a finite set of numbers, fewer than w have fewer than w others before them.
LEMMA FirstFew ==
  ASSUME NEW S, IsFiniteSet(S), S \subseteq Int, NEW w \in Nat \ {0}
  PROVE  LET T == {i \in S : Cardinality({j \in S : j < i}) < w}
         IN  IsFiniteSet(T) /\ Cardinality(T) <= w
<1> DEFINE Before(i) == {j \in S : j < i}
           T == {i \in S : Cardinality(Before(i)) < w}
           F == [i \in T |-> Cardinality(Before(i))]
<1>1. \A i \in S : IsFiniteSet(Before(i)) /\ Cardinality(Before(i)) \in Nat
  BY FS_Subset, FS_CardinalityType
<1>2. ASSUME NEW a \in S, NEW b \in S, a < b
      PROVE  Cardinality(Before(a)) < Cardinality(Before(b))
  <2>0. \A j \in S : j \in Int  OBVIOUS
  <2>1. a \notin Before(a) /\ Before(a) \cup {a} \in SUBSET Before(b)
    <3>1. ~(a < a)  BY <2>0, <1>2
    <3>2. \A j \in S : j < a => j < b  BY <2>0, <1>2
    <3>3. QED  BY <1>2, <3>1, <3>2
  <2>2. Cardinality(Before(a) \cup {a}) = Cardinality(Before(a)) + 1
    BY <1>1, <2>1, FS_AddElement
  <2>3. /\ IsFiniteSet(Before(b)) /\ IsFiniteSet(Before(a) \cup {a})
        /\ Cardinality(Before(a) \cup {a}) <= Cardinality(Before(b))
    BY <1>1, <2>1, FS_Subset
  <2> HIDE DEF Before
  <2>4. QED  BY <1>1, <2>2, <2>3
<1> HIDE DEF Before
<1>3. F \in [T -> 0..(w - 1)]
  <2>1. \A i \in T : Cardinality(Before(i)) \in Nat /\ Cardinality(Before(i)) < w  BY <1>1
  <2>2. \A i \in T : Cardinality(Before(i)) \in 0..(w - 1)  BY <2>1
  <2> HIDE DEF T
  <2>3. QED  BY <2>2
<1>4. \A a, b \in T : F[a] = F[b] => a = b
  <2>1. SUFFICES ASSUME NEW a \in T, NEW b \in T, F[a] = F[b], a # b PROVE FALSE
    OBVIOUS
  <2>2. a \in S /\ b \in S /\ (a < b \/ b < a)  BY <2>1
  <2>3. Cardinality(Before(a)) = Cardinality(Before(b))  BY <2>1
  <2>4. Cardinality(Before(a)) \in Nat /\ Cardinality(Before(b)) \in Nat  BY <1>1, <2>2
  <2>5. QED  BY <1>2, <2>2, <2>3, <2>4
<1>5. F \in Injection(T, 0..(w - 1))
  <2> HIDE DEF F, T
  <2>1. QED  BY <1>3, <1>4, Fun_IsInj
<1>6. IsFiniteSet(0..(w - 1)) /\ Cardinality(0..(w - 1)) = w  BY FS_Interval
<1>7. IsFiniteSet(T) /\ Cardinality(T) <= w
  <2> HIDE DEF F, T
  <2>1. QED  BY <1>5, <1>6, FS_Injection
<1>8. QED  BY <1>7 DEF Before

\* The tasks of a call are finitely many.
LEMMA TasksFinite ==
  ASSUME Typed, NEW c \in Calls
  PROVE  Tasks(c) \in SUBSET (1..MaxTasks) /\ IsFiniteSet(Tasks(c))
<1>1. call[c].keys \in KeyLists  BY DEF Typed, CallRec
<1>2. Tasks(c) \in SUBSET (1..MaxTasks)  BY <1>1, Assumed DEF KeyLists, Tasks
<1>3. IsFiniteSet(1..MaxTasks)  BY Assumed, FS_Interval
<1>4. QED  BY <1>2, <1>3, FS_Subset

\* A slice is no larger than the weight of its batch.
LEMMA SliceFits ==
  ASSUME Typed, NEW c \in Calls, call[c].weight \in Nat \ {0}
  PROVE  IsFiniteSet(Slice(c)) /\ Cardinality(Slice(c)) <= call[c].weight
<1> DEFINE Q == Queue(c)
<1> PICK w \in Nat \ {0} : w = call[c].weight  OBVIOUS
<1>1. Q \in SUBSET Tasks(c)  BY DEF Queue
<1>2. IsFiniteSet(Q) /\ Q \subseteq Int  BY <1>1, TasksFinite, FS_Subset
<1>3. Slice(c) = {i \in Q : Cardinality({j \in Q : j < i}) < w}  BY DEF Slice
<1> HIDE DEF Q
<1> PICK S : S = Q  OBVIOUS
<1>4. QED  BY <1>2, <1>3, FirstFew


-----------------------------------------------------------------------------
(* The limit: what a call holds.                                           *)

\* A call holds as many slots as it weighs while its run is live, and has no more tasks
\* in flight than that.
Sized(c) ==
  /\ call[c].weight \in 1..SWARM_CONCURRENCY
  /\ Ledger!Live(Own(c)) => active[Own(c)].weight = call[c].weight
  /\ Cardinality(InFlight(c)) <= call[c].weight

\* The invariant of the limit.
LimitInv == RunsInv /\ SlotsInv /\ \A c \in Calls : Sized(c)

\* The tasks in flight are some of the tasks.
LEMMA FlightFinite ==
  ASSUME Typed, NEW c \in Calls
  PROVE  /\ IsFiniteSet(InFlight(c)) /\ Cardinality(InFlight(c)) \in Nat
         /\ \A i \in InFlight(c) : i \in 1..MaxTasks
<1>1. InFlight(c) \in SUBSET Tasks(c)  BY DEF InFlight
<1>2. QED  BY <1>1, TasksFinite, FS_Subset, FS_CardinalityType

\* A call that takes neither slots nor tasks keeps its size.
LEMMA StillSized ==
  ASSUME Typed, NEW d \in Calls, Sized(d), call'[d].weight = call[d].weight,
         Ledger!Live(Own(d))' =>
           Ledger!Live(Own(d)) /\ active'[Own(d)].weight = active[Own(d)].weight,
         InFlight(d)' \in SUBSET InFlight(d)
  PROVE  Sized(d)'
<1>1. /\ IsFiniteSet(InFlight(d)) /\ Cardinality(InFlight(d)) \in Nat
      /\ IsFiniteSet(InFlight(d)') /\ Cardinality(InFlight(d)') <= Cardinality(InFlight(d))
  BY FlightFinite, FS_Subset
<1>2. Cardinality(InFlight(d)') \in Nat  BY <1>1, FS_CardinalityType
<1>3. Cardinality(InFlight(d))' = Cardinality(InFlight(d)')  OBVIOUS
<1>4. QED  BY <1>1, <1>2, <1>3, Assumed DEF Sized

\* A reservation gives a call the slots it weighs.
LEMMA ReserveSized ==
  ASSUME LimitInv, NEW c \in Calls, Reserve(c)
  PROVE  SlotsInv' /\ \A d \in Calls : Sized(d)'
<1>0. LedgerInv /\ Typed /\ CallInv(c) /\ Own(c) \in Ids /\ SlotsInv
  BY OwnId, IdFacts DEF LimitInv, RunsInv
<1>1. PICK keys \in Batches[c], background \in BOOLEAN :
        \/ /\ Ledger!TryReserve(Own(c), Session, Weight(keys))
           /\ call' = [call EXCEPT ![c] = [NoCall EXCEPT
                         !.pc = "begin", !.background = background,
                         !.keys = keys, !.weight = Weight(keys)]]
        \/ Goto(c, "refused") /\ UNCHANGED ledgerVars
  BY DEF Reserve
<1>2. call[c].pc = "idle" /\ UNCHANGED item  BY DEF Reserve, At, swarmVars
<1>3. CASE Goto(c, "refused") /\ UNCHANGED ledgerVars
  <2>1. SlotsInv'
    <3>1. \A x \in Ids : Ledger!Live(x)' => Ledger!Live(x) /\ active'[x].weight = active[x].weight
      BY <1>3 DEF ledgerVars, Ledger!Live
    <3>2. QED  BY <1>0, <3>1, SlotsKept
  <2>2. ASSUME NEW d \in Calls PROVE Sized(d)'
    <3>1. call'[d].weight = call[d].weight /\ call'[d].keys = call[d].keys
      BY <1>0, <1>3 DEF Typed, CallRec, Goto
    <3>2. InFlight(d)' \in SUBSET InFlight(d)  BY <1>2, <3>1 DEF InFlight, Tasks
    <3>3. Ledger!Live(Own(d))' =>
            Ledger!Live(Own(d)) /\ active'[Own(d)].weight = active[Own(d)].weight
      BY <1>3 DEF ledgerVars, Ledger!Live
    <3>4. QED  BY <1>0, <3>1, <3>2, <3>3, StillSized DEF LimitInv
  <2>3. QED  BY <2>1, <2>2
<1>4. CASE /\ Ledger!TryReserve(Own(c), Session, Weight(keys))
           /\ call' = [call EXCEPT ![c] = [NoCall EXCEPT
                         !.pc = "begin", !.background = background,
                         !.keys = keys, !.weight = Weight(keys)]]
  <2>1. Weight(keys) \in 1..SWARM_CONCURRENCY
    <3>1. PICK m \in 0..MaxTasks : keys \in [1..m -> 1..MaxTasks]  BY RunsAssumption
    <3>2. Len(keys) \in Nat  BY <3>1, Assumed
    <3>3. QED  BY <3>2, Assumed DEF Weight
  <2> PICK w \in 1..SWARM_CONCURRENCY : w = Weight(keys)  BY <2>1
  <2>2. Ledger!TryReserve(Own(c), Session, w)  BY <1>4
  <2>3. SlotsInv'
    <3> PICK id \in Ids : id = Own(c)  BY <1>0
    <3>1. Ledger!TryReserve(id, Session, w)  BY <2>2
    <3>2. QED  BY <1>0, <3>1, SlotsReserved
  <2>4. /\ \A x \in Ids \ {Own(c)} : active'[x] = active[x]
        /\ active'[Own(c)].weight = w
    <3>1. active' = [active EXCEPT ![Own(c)] = Ledger!Run(Session, w)]
      BY <2>2 DEF Ledger!TryReserve, Ledger!Register
    <3>2. Ledger!Run(Session, w).weight = w  BY DEF Ledger!Run
    <3>3. QED  BY <1>0, <3>1, <3>2 DEF LedgerInv, Ledger!TypeOK
  <2>5. /\ call'[c].weight = w /\ call'[c].keys = keys
        /\ \A d \in Calls \ {c} : call'[d] = call[d]
    <3> DEFINE r == [NoCall EXCEPT !.pc = "begin", !.background = background,
                                   !.keys = keys, !.weight = w]
    <3>1. r.weight = w /\ r.keys = keys  BY DEF NoCall
    <3>2. call' = [call EXCEPT ![c] = r]  BY <1>4
    <3> HIDE DEF r
    <3>3. QED  BY <1>0, <3>1, <3>2 DEF Typed
  <2>6. Sized(c)'
    <3>1. item'[c] = NoItems  BY <1>0, <1>2 DEF CallInv, Keyed
    <3>2. \A i \in 1..MaxTasks : NoItems[i].state \notin Busy  BY DEF NoItems, Busy
    <3>3. Tasks(c)' \subseteq 1..MaxTasks
      <4>1. PICK m \in 0..MaxTasks : keys \in [1..m -> 1..MaxTasks]  BY RunsAssumption
      <4>2. QED  BY <2>5, <4>1, Assumed DEF Tasks
    <3>4. InFlight(c)' = {}  BY <3>1, <3>2, <3>3 DEF InFlight
    <3>5. Cardinality(InFlight(c))' = 0  BY <3>4, FS_EmptySet
    <3>6. QED  BY <2>4, <2>5, <3>5, Assumed DEF Sized
  <2>7. ASSUME NEW d \in Calls \ {c} PROVE Sized(d)'
    <3>1. Own(d) \in Ids /\ Own(d) # Own(c)  BY OwnId, IdFacts DEF Own
    <3>2. Ledger!Live(Own(d))' =>
            Ledger!Live(Own(d)) /\ active'[Own(d)].weight = active[Own(d)].weight
      BY <2>4, <3>1 DEF Ledger!Live
    <3>3. InFlight(d)' \in SUBSET InFlight(d)  BY <1>2, <2>5 DEF InFlight, Tasks
    <3>4. QED  BY <1>0, <2>5, <3>2, <3>3, StillSized DEF LimitInv
  <2>8. QED  BY <2>3, <2>6, <2>7
<1>5. QED  BY <1>1, <1>3, <1>4

\* The next slice is no larger than what the batch reserved.
LEMMA SliceSized ==
  ASSUME LimitInv, NEW c \in Calls, StartSlice(c), TakesNoSlots, KeepsWeights,
         NEW d \in Calls
  PROVE  Sized(d)'
<1>0. Typed /\ Sized(c) /\ Sized(d)  BY DEF LimitInv, RunsInv
<1>1. /\ InFlight(c) = {} /\ UNCHANGED <<call, swarm>>
      /\ item' = [item EXCEPT ![c] = [i \in DOMAIN @ |->
           IF i \in Slice(c)
           THEN [@[i] EXCEPT !.state = IF swarm[c].phase = "work" THEN "starting" ELSE "gate"]
           ELSE @[i]]]
  BY DEF StartSlice
<1>2. Own(d) \in Ids /\ IsOwn(Own(d))  BY OwnId, IdFacts DEF IsOwn
<1>3. Ledger!Live(Own(d))' =>
        Ledger!Live(Own(d)) /\ active'[Own(d)].weight = active[Own(d)].weight
  BY <1>2 DEF TakesNoSlots
<1>4. CASE d # c
  <2>1. item'[d] = item[d]  BY <1>0, <1>1, <1>4 DEF Typed
  <2>2. InFlight(d)' \in SUBSET InFlight(d)  BY <1>1, <2>1 DEF InFlight, Tasks
  <2>3. QED  BY <1>0, <1>1, <1>3, <2>2, StillSized
<1>5. CASE d = c
  <2>1. \A i \in 1..MaxTasks : i \notin Slice(c) => item'[c][i] = item[c][i]
    BY <1>0, <1>1 DEF Typed
  <2>2. InFlight(c)' \in SUBSET Slice(c)
    <3>1. SUFFICES ASSUME NEW i \in Tasks(c), item'[c][i].state \in Busy, i \notin Slice(c)
                   PROVE  FALSE
      BY <1>1 DEF InFlight, Tasks
    <3>2. i \in 1..MaxTasks  BY <1>0, TasksFinite
    <3>3. item[c][i].state \in Busy  BY <2>1, <3>1, <3>2
    <3>4. QED  BY <1>1, <3>1, <3>3 DEF InFlight
  <2>3. call[c].weight \in Nat \ {0}  BY <1>0, Assumed DEF Sized
  <2>4. IsFiniteSet(Slice(c)) /\ Cardinality(Slice(c)) <= call[c].weight
    BY <1>0, <2>3, SliceFits
  <2>5. /\ IsFiniteSet(InFlight(c)') /\ Cardinality(InFlight(c)') <= Cardinality(Slice(c))
    BY <2>2, <2>4, FS_Subset
  <2>6. Cardinality(InFlight(c)') \in Nat /\ Cardinality(Slice(c)) \in Nat
    BY <2>4, <2>5, FS_CardinalityType
  <2>7. Cardinality(InFlight(c))' <= call[c].weight  BY <2>3, <2>4, <2>5, <2>6
  <2>8. QED  BY <1>0, <1>1, <1>3, <1>5, <2>7 DEF Sized
<1>6. QED  BY <1>4, <1>5


\* At the start no slot is in use and nothing is in flight.
LEMMA LimitInit == Init => LimitInv
<1>1. SUFFICES ASSUME Init PROVE LimitInv  OBVIOUS
<1>2. RunsInv /\ Typed  BY <1>1, InitInv DEF RunsInv
<1>3. \A x \in Ids : ~Ledger!Live(x)
  BY <1>1 DEF Init, Ledger!Init, Ledger!Live, Ledger!NoRun
<1>4. SlotsInv
  <2>1. Ledger!Slots = {}  BY <1>3 DEF Ledger!Slots
  <2>2. QED  BY <2>1, FS_EmptySet, Assumed DEF SlotsInv
<1>5. ASSUME NEW c \in Calls PROVE Sized(c)
  <2>1. call[c].weight = 1 /\ item[c] = NoItems  BY <1>1 DEF Init, NoCall
  <2>2. \A i \in 1..MaxTasks : NoItems[i].state \notin Busy  BY DEF NoItems, Busy
  <2>3. InFlight(c) = {}  BY <1>2, <2>1, <2>2, TasksFinite DEF InFlight
  <2>4. ~Ledger!Live(Own(c))  BY <1>3, OwnId, IdFacts
  <2>5. QED  BY <2>1, <2>3, <2>4, FS_EmptySet, Assumed DEF Sized
<1>6. QED  BY <1>2, <1>4, <1>5 DEF LimitInv

\* No step takes slots or tasks beyond what its call may hold.
LEMMA LimitStep == LimitInv /\ Next => LimitInv'
<1>1. SUFFICES ASSUME LimitInv, Next PROVE LimitInv'  OBVIOUS
<1>0. RunsInv /\ Typed /\ SlotsInv  BY <1>1 DEF LimitInv, RunsInv
<1>2. RunsInv'  BY <1>0, <1>1, NextStep, StepInv
<1>3. CASE \E c \in Calls : Reserve(c)
  BY <1>1, <1>2, <1>3, ReserveSized DEF LimitInv
<1>4. CASE \A c \in Calls : ~Reserve(c)
  <2>1. TakesNoSlots /\ KeepsWeights
    BY <1>0, <1>1, <1>4, NextTakesSlots, NextKeepsWeights
  <2>2. SlotsInv'  BY <1>0, <2>1, SlotsKept DEF TakesNoSlots
  <2>3. ASSUME NEW d \in Calls PROVE Sized(d)'
    <3>1. CASE \E c \in Calls : StartSlice(c)
      BY <1>1, <2>1, <3>1, SliceSized
    <3>2. CASE \A c \in Calls : ~StartSlice(c)
      <4>1. TakesNoWork  BY <1>0, <1>1, <3>2, NextTakesWork
      <4>2. call'[d].weight = call[d].weight /\ call'[d].keys = call[d].keys
        BY <2>1 DEF KeepsWeights
      <4>3. InFlight(d)' \in SUBSET InFlight(d)
        <5>1. Tasks(d)' = Tasks(d) /\ Tasks(d) \subseteq 1..MaxTasks
          BY <1>0, <4>2, TasksFinite DEF Tasks
        <5>2. QED  BY <4>1, <5>1 DEF TakesNoWork, InFlight
      <4>4. Ledger!Live(Own(d))' =>
              Ledger!Live(Own(d)) /\ active'[Own(d)].weight = active[Own(d)].weight
        <5>1. Own(d) \in Ids /\ IsOwn(Own(d))  BY OwnId, IdFacts DEF IsOwn
        <5>2. QED  BY <2>1, <5>1 DEF TakesNoSlots
      <4>5. Sized(d)  BY <1>1 DEF LimitInv
      <4>6. QED  BY <1>0, <4>2, <4>3, <4>4, <4>5, StillSized
    <3>3. QED  BY <3>1, <3>2
  <2>4. QED  BY <1>2, <2>2, <2>3 DEF LimitInv
<1>5. QED  BY <1>3, <1>4

\* The invariant of the limit holds in every reachable state.
LEMMA LimitInvariance == Spec => []LimitInv
<1>1. LimitInv /\ UNCHANGED vars => LimitInv'
  <2>1. SUFFICES ASSUME LimitInv, UNCHANGED vars PROVE LimitInv'  OBVIOUS
  <2>2. RunsInv'  BY <2>1, Stutter DEF LimitInv
  <2>3. UNCHANGED ledgerVars /\ call' = call /\ item' = item
    BY <2>1 DEF vars, swarmVars
  <2>4. \A x \in Ids : Ledger!Live(x)' => Ledger!Live(x) /\ active'[x].weight = active[x].weight
    BY <2>3 DEF ledgerVars, Ledger!Live
  <2>5. SlotsInv'  BY <2>1, <2>4, SlotsKept DEF LimitInv
  <2>6. ASSUME NEW d \in Calls PROVE Sized(d)'
    <3>1. InFlight(d)' \in SUBSET InFlight(d) /\ call'[d].weight = call[d].weight
      BY <2>3 DEF InFlight, Tasks
    <3>2. Own(d) \in Ids /\ Typed /\ Sized(d)  BY <2>1, OwnId, IdFacts DEF LimitInv, RunsInv
    <3>3. QED  BY <2>4, <3>1, <3>2, StillSized
  <2>7. QED  BY <2>2, <2>5, <2>6 DEF LimitInv
<1>2. QED  BY LimitInit, LimitStep, <1>1, PTL DEF Spec


-----------------------------------------------------------------------------
(* The limit: what really runs.                                            *)

\* What runs for a call: executions of the engine, or its own direct call of the model.
Crew(c) == {e \in IdsOf(c) : Running(e) \/ (e = Own(c) /\ At(c, "direct"))}

\* The elements of a finite set can be numbered.
LEMMA Numbered ==
  ASSUME NEW S, IsFiniteSet(S), NEW w \in Nat, Cardinality(S) <= w
  PROVE  \E f \in [S -> 1..w] : \A a, b \in S : f[a] = f[b] => a = b
<1> PICK n \in Nat : n = Cardinality(S)  BY FS_CardinalityType
<1>1. ExistsBijection(1..n, S)  BY FS_CardinalityType
<1>2. PICK g : g \in Bijection(1..n, S)  BY <1>1, Fun_ExistsBij
<1>3. Inverse(g, 1..n, S) \in Bijection(S, 1..n)  BY <1>2, Fun_BijInverse
<1>4. PICK f : f \in Bijection(S, 1..n)  BY <1>3
<1>5. f \in [S -> 1..n] /\ \A a, b \in S : f[a] = f[b] => a = b
  BY <1>4, Fun_BijectionProperties
<1>6. f \in [S -> 1..w]  BY <1>5
<1>7. QED  BY <1>5, <1>6

\* A call that has something running is live and where its crew says: in the engine, in
\* a direct call, in the tasks of its batch or in the synthesis.
LEMMA CrewPlaced ==
  ASSUME RunsInv, NEW c \in Calls, NEW e \in Crew(c)
  PROVE  /\ e \in IdsOf(c) /\ Ledger!Live(Own(c))
         /\ e = Own(c) => call[c].pc # "swarm"
         /\ e # Own(c) => Running(e) /\ call[c].pc = "swarm"
         /\ e # Own(c) /\ swarm[c].phase = "synthesizing" => e = <<c, 0, 1>>
         /\ e # Own(c) /\ swarm[c].phase # "synthesizing" =>
              e[2] \in InFlight(c) /\ item[c][e[2]].state \in {"running", "verifying"}
<1>0. Typed /\ Keyed(c) /\ Placed(c) /\ Staged(c)  BY DEF RunsInv, CallInv
<1>1. /\ e \in IdsOf(c)
      /\ Running(e) \/ (e = Own(c) /\ At(c, "direct"))
      /\ e[1] = c /\ e = <<c, e[2], e[3]>> /\ e[2] \in 0..MaxTasks
      /\ e[2] = 0 /\ e # Own(c) => e[3] = 1
  BY IdFacts DEF Crew
<1>2. Running(e) => Place(e)  BY <1>0, <1>1 DEF Placed, Running
<1>3. CASE e = Own(c)
  <2>1. CASE At(c, "direct")  BY <1>0, <1>1, <1>3, <2>1 DEF At, Staged
  <2>2. CASE Running(e)
    <3>1. call[c].pc = "engine"  BY <1>1, <1>2, <1>3, <2>2 DEF Place
    <3>2. QED  BY <1>0, <1>1, <1>3, <2>2, <3>1 DEF Staged
  <2>3. QED  BY <1>1, <2>1, <2>2
<1>4. CASE e # Own(c)
  <2>1. Running(e) /\ Place(e)  BY <1>1, <1>2, <1>4
  <2>2. CASE e[2] = 0
    <3>1. swarm[c].phase = "synthesizing"  BY <1>1, <1>4, <2>1, <2>2 DEF Place
    <3>2. call[c].pc = "swarm"  BY <1>0, <3>1 DEF Keyed
    <3>3. e = <<c, 0, 1>>  BY <1>1, <1>4, <2>2
    <3>4. Ledger!Live(Own(c))  BY <1>0, <3>2 DEF Staged
    <3>5. QED  BY <1>1, <1>4, <2>1, <3>1, <3>2, <3>3, <3>4
  <2>3. CASE e[2] # 0
    <3>1. e[2] \in 1..MaxTasks  BY <1>1, <2>3, Assumed
    <3>2. item[c][e[2]].state \in {"running", "verifying"}
      BY <1>1, <2>1, <2>3 DEF Place
    <3>3. swarm[c].phase \in {"work", "gate"} /\ e[2] \in Tasks(c)
      BY <1>0, <3>1, <3>2 DEF Keyed, Busy
    <3>4. call[c].pc = "swarm"  BY <1>0, <3>3 DEF Keyed
    <3>5. e[2] \in InFlight(c)  BY <3>2, <3>3 DEF InFlight, Busy
    <3>6. Ledger!Live(Own(c))  BY <1>0, <3>4 DEF Staged
    <3>7. QED  BY <1>1, <1>4, <2>1, <3>2, <3>3, <3>4, <3>5, <3>6
  <2>4. QED  BY <2>2, <2>3
<1>5. QED  BY <1>3, <1>4

\* What runs for a call fits in the slots the call weighs.
LEMMA CrewFits ==
  ASSUME LimitInv, NEW c \in Calls
  PROVE  IsFiniteSet(Crew(c)) /\ Cardinality(Crew(c)) <= call[c].weight
<1>0. /\ RunsInv /\ Typed /\ Sized(c) /\ call[c].weight \in Nat /\ call[c].weight >= 1
  BY Assumed DEF LimitInv, RunsInv, Sized
<1>1. ASSUME NEW x, Crew(c) \in SUBSET {x}
      PROVE  IsFiniteSet(Crew(c)) /\ Cardinality(Crew(c)) <= call[c].weight
  <2>1. IsFiniteSet({x}) /\ Cardinality({x}) = 1  BY FS_Singleton
  <2>2. IsFiniteSet(Crew(c)) /\ Cardinality(Crew(c)) <= 1  BY <1>1, <2>1, FS_Subset
  <2>3. Cardinality(Crew(c)) \in Nat  BY <2>2, FS_CardinalityType
  <2>4. QED  BY <1>0, <2>2, <2>3
<1>2. CASE call[c].pc # "swarm"
  <2>1. Crew(c) \in SUBSET {Own(c)}  BY <1>0, <1>2, CrewPlaced
  <2>2. QED  BY <1>1, <2>1
<1>3. CASE call[c].pc = "swarm" /\ swarm[c].phase = "synthesizing"
  <2>1. Crew(c) \in SUBSET {<<c, 0, 1>>}  BY <1>0, <1>3, CrewPlaced
  <2>2. QED  BY <1>1, <2>1
<1>4. CASE call[c].pc = "swarm" /\ swarm[c].phase # "synthesizing"
  <2> DEFINE S == Crew(c)
             F == [e \in S |-> e[2]]
             T == InFlight(c)
  <2>1. \A e \in S : /\ e \in IdsOf(c) /\ Running(e) /\ e[2] \in T
                     /\ item[c][e[2]].state \in {"running", "verifying"}
    BY <1>0, <1>4, CrewPlaced
  <2>2. ASSUME NEW a \in S, NEW b \in S, a[2] = b[2] PROVE a = b
    <3> PICK i \in 1..MaxTasks : i = a[2]  BY <1>0, <2>1, FlightFinite
    <3>1. exec[a].state # "idle" /\ exec[b].state # "idle"  BY <2>1 DEF Running
    <3>2. CASE item[c][i].state = "running"
      BY <1>0, <2>1, <2>2, <3>1, <3>2, ItemExecs
    <3>3. CASE item[c][i].state = "verifying"
      BY <1>0, <2>1, <2>2, <3>1, <3>3, ItemExecs
    <3>4. QED  BY <2>1, <3>2, <3>3
  <2> HIDE DEF S, T
  <2>3. F \in [S -> T] /\ \A a, b \in S : F[a] = F[b] => a = b  BY <2>1, <2>2
  <2>4. F \in Injection(S, T)
    <3> HIDE DEF F
    <3>1. QED  BY <2>3, Fun_IsInj
  <2>5. IsFiniteSet(T) /\ Cardinality(T) \in Nat /\ Cardinality(T) <= call[c].weight
    BY <1>0, FlightFinite DEF T, Sized
  <2>6. IsFiniteSet(S) /\ Cardinality(S) <= Cardinality(T)
    <3> HIDE DEF F
    <3>1. QED  BY <2>4, <2>5, FS_Injection
  <2>7. Cardinality(S) \in Nat  BY <2>6, FS_CardinalityType
  <2>8. QED  BY <1>0, <2>5, <2>6, <2>7 DEF S
<1>5. QED  BY <1>2, <1>3, <1>4


\* Everything that runs.
AllCrew == {e \in Ids : e \in Crew(e[1])}

\* All that runs fits in the slots of the ledger.
LEMMA AllCrewFits ==
  ASSUME LimitInv
  PROVE  IsFiniteSet(AllCrew) /\ Cardinality(AllCrew) <= Limit
<1> DEFINE Numbering(c, f) == /\ f \in [Crew(c) -> 1..call[c].weight]
                              /\ \A a, b \in Crew(c) : f[a] = f[b] => a = b
           h == [c \in Calls |-> CHOOSE f : Numbering(c, f)]
           S == Ledger!Slots
           F == [e \in AllCrew |-> <<Own(e[1]), h[e[1]][e]>>]
<1>0. RunsInv /\ LedgerInv /\ Typed /\ SlotsInv  BY DEF LimitInv, RunsInv
<1>1. \A c \in Calls : Numbering(c, h[c])
  <2>1. SUFFICES ASSUME NEW c \in Calls PROVE \E f : Numbering(c, f)
    <3> HIDE DEF Numbering
    <3>1. QED  BY <2>1
  <2> PICK w \in Nat : w = call[c].weight  BY Assumed DEF LimitInv, Sized
  <2>2. IsFiniteSet(Crew(c)) /\ Cardinality(Crew(c)) <= w  BY CrewFits
  <2> PICK T : T = Crew(c)  OBVIOUS
  <2>3. \E f \in [T -> 1..w] : \A a, b \in T : f[a] = f[b] => a = b  BY <2>2, Numbered
  <2>4. QED  BY <2>3
<1>2. ASSUME NEW e \in AllCrew PROVE e[1] \in Calls /\ e \in Crew(e[1])
  <2>1. e \in Ids /\ e \in Crew(e[1])  BY <1>2 DEF AllCrew
  <2>2. PICK c \in Calls : e \in IdsOf(c)  BY <2>1 DEF Ids
  <2>3. e[1] = c  BY <2>2, IdFacts
  <2>4. QED  BY <2>1, <2>3
<1> HIDE DEF h
<1>3. \A e \in AllCrew : <<Own(e[1]), h[e[1]][e]>> \in S
  <2>1. SUFFICES ASSUME NEW e \in AllCrew PROVE <<Own(e[1]), h[e[1]][e]>> \in S
    OBVIOUS
  <2> PICK c \in Calls : c = e[1]  BY <1>2
  <2>2. e \in Crew(c)  BY <1>2
  <2>3. h[c][e] \in 1..call[c].weight  BY <1>1, <2>2
  <2>4. Sized(c) /\ Ledger!Live(Own(c)) /\ Own(c) \in Ids
    BY <1>0, <2>2, CrewPlaced, OwnId, IdFacts DEF LimitInv
  <2>5. /\ h[c][e] \in 1..SWARM_CONCURRENCY /\ h[c][e] <= active[Own(c)].weight
    BY <2>3, <2>4, Assumed DEF Sized
  <2> PICK n : n = h[c][e]  OBVIOUS
  <2> PICK id : id = Own(c)  OBVIOUS
  <2>6. <<id, n>> \in S  BY <2>4, <2>5 DEF Ledger!Slots
  <2>7. QED  BY <2>6
<1>4. \A a, b \in AllCrew :
        <<Own(a[1]), h[a[1]][a]>> = <<Own(b[1]), h[b[1]][b]>> => a = b
  <2>1. SUFFICES ASSUME NEW a \in AllCrew, NEW b \in AllCrew,
                        Own(a[1]) = Own(b[1]), h[a[1]][a] = h[b[1]][b]
                 PROVE  a = b
    OBVIOUS
  <2>2. a[1] = b[1]  BY <2>1 DEF Own
  <2>3. QED  BY <1>1, <1>2, <2>1, <2>2
<1> HIDE DEF S, Numbering
<1>5. F \in [AllCrew -> S] /\ \A a, b \in AllCrew : F[a] = F[b] => a = b  BY <1>3, <1>4
<1>6. F \in Injection(AllCrew, S)
  <2> HIDE DEF F
  <2>1. QED  BY <1>5, Fun_IsInj
<1>7. IsFiniteSet(S) /\ Cardinality(S) <= Limit /\ Cardinality(S) \in Nat
  BY <1>0, FS_CardinalityType DEF S, SlotsInv
<1>8. IsFiniteSet(AllCrew) /\ Cardinality(AllCrew) <= Cardinality(S)
  <2> HIDE DEF F
  <2>1. QED  BY <1>6, <1>7, FS_Injection
<1>9. Cardinality(AllCrew) \in Nat  BY <1>8, FS_CardinalityType
<1>10. QED  BY <1>7, <1>8, <1>9, Assumed

\* A direct call and a run of the engine are never one.
LEMMA LimitHolds == LimitInv => WithinLimit
<1>1. SUFFICES ASSUME LimitInv PROVE WithinLimit  OBVIOUS
<1> DEFINE R == {e \in Ids : Running(e)}
           D == {c \in Calls : At(c, "direct")}
           A == AllCrew
           G == [c \in D |-> Own(c)]
<1>0. RunsInv  BY <1>1 DEF LimitInv
<1>2. R \in SUBSET A
  <2>1. SUFFICES ASSUME NEW e \in Ids, Running(e) PROVE e \in Crew(e[1])
    BY DEF AllCrew
  <2>2. PICK c \in Calls : e \in IdsOf(c)  BY DEF Ids
  <2>3. QED  BY <2>1, <2>2, IdFacts DEF Crew
<1>3. \A c \in D : Own(c) \in A \ R
  <2>1. SUFFICES ASSUME NEW c \in Calls, At(c, "direct") PROVE Own(c) \in A \ R
    OBVIOUS
  <2>2. Own(c) \in IdsOf(c) /\ Own(c) \in Ids /\ Own(c)[1] = c  BY OwnId, IdFacts
  <2>3. Own(c) \in A  BY <2>1, <2>2 DEF AllCrew, Crew
  <2>4. ~Running(Own(c))  BY <1>0, <2>1, OwnIdle DEF At, Running
  <2>5. QED  BY <2>3, <2>4
<1>4. \A c, d \in D : Own(c) = Own(d) => c = d  BY DEF Own
<1>5. IsFiniteSet(A) /\ Cardinality(A) <= Limit  BY <1>1, AllCrewFits
<1> HIDE DEF A, R, D
<1>6. G \in [D -> A \ R] /\ \A c, d \in D : G[c] = G[d] => c = d  BY <1>3, <1>4
<1>7. G \in Injection(D, A \ R)
  <2> HIDE DEF G
  <2>1. QED  BY <1>6, Fun_IsInj
<1>8. /\ IsFiniteSet(A \ R) /\ Cardinality(A \ R) = Cardinality(A) - Cardinality(A \cap R)
      /\ A \cap R = R /\ IsFiniteSet(R)
  BY <1>2, <1>5, FS_Difference, FS_Subset
<1>9. IsFiniteSet(D) /\ Cardinality(D) <= Cardinality(A \ R)
  <2> HIDE DEF G
  <2>1. QED  BY <1>7, <1>8, FS_Injection
<1>10. /\ Cardinality(A) \in Nat /\ Cardinality(R) \in Nat /\ Cardinality(D) \in Nat
       /\ Cardinality(A \ R) \in Nat
  BY <1>5, <1>8, <1>9, FS_CardinalityType
<1>11. Cardinality(R) + Cardinality(D) <= Limit  BY <1>5, <1>8, <1>9, <1>10, Assumed
<1>12. QED  BY <1>11 DEF WithinLimit, R, D

\* The engines and the direct calls of all sessions together stay within the limit of
\* concurrent agents, through cancellation, in the background, and while a batch runs its
\* workers, its verifiers, a worker once more or its synthesizer.
THEOREM RunsWithinLimit == Spec => []WithinLimit
<1>1. QED  BY LimitInvariance, LimitHolds, PTL

\* What is reserved stays within the limit, and no reservation is left behind: once every
\* call has settled, however it ended, all slots are free (liveCount is 0 again).
THEOREM SlotsComeBack ==
  Spec => [](/\ Ledger!LiveCount <= Limit
             /\ (\A c \in Calls : HoldsNothing(c)) => Ledger!LiveCount = 0)
<1>1. ASSUME RunsInv, \A c \in Calls : HoldsNothing(c) PROVE Ledger!LiveCount = 0
  <2>1. ASSUME NEW id \in Ids PROVE ~Ledger!Live(id)
    BY <1>1, <2>1, NothingHeld DEF Ids
  <2>2. Ledger!Slots = {}  BY <2>1 DEF Ledger!Slots
  <2>3. QED  BY <2>2, LiveCountIs, FS_EmptySet
<1>2. LimitInv => /\ Ledger!LiveCount <= Limit
                  /\ (\A c \in Calls : HoldsNothing(c)) => Ledger!LiveCount = 0
  BY <1>1, LiveCountIs DEF LimitInv, SlotsInv
<1>3. QED  BY LimitInvariance, <1>2, PTL

=============================================================================
