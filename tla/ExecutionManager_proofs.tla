----------------------- MODULE ExecutionManager_proofs -----------------------
(* Proofs about executions, their leases and their rows.                   *)
EXTENDS ExecutionManager, WellFoundedInduction, TLAPS

-----------------------------------------------------------------------------
(* The inductive invariant.                                                *)

\* A record belongs to an execution of this life, a row to one that was handed out.
Numbered ==
  \A id \in Ids :
    /\ records[id].status # "none"
         => id \in born + 1 .. issued /\ records[id].session \in Sessions
    /\ records[id].status = "none" => records[id].session = None
    /\ executions[id].status # "none" => id <= issued /\ executions[id].session \in Sessions

\* What a life of the process starts with.
LivesApart ==
  /\ phase # "up" =>
       /\ ~recovered
       /\ \A id \in Ids : records[id].status = "none"
       /\ \A s \in Sessions : owner[s] = None
  /\ phase = "down" => \A s \in Sessions : foreignActive[s] = None
  /\ phase # "recovering" => todo = {}
  /\ phase = "recovering" => born = issued
  /\ \A id \in listed : id <= born /\ executions[id].status # "none"
  /\ \A id \in judged : id <= born

\* Recovery has dealt with the oldest rows: it kept a row only if it was fresh,
\* and then everything it has still to judge is fresh as well.
OldestFirst ==
  phase = "recovering" =>
    /\ todo \subseteq ActiveRows
    /\ ActiveRows \subseteq listed
    /\ \A id \in ActiveRows \ todo : id > cut
    /\ \A i \in listed \ todo, j \in todo : i < j
    /\ \A s \in Sessions :
         foreignActive[s] # None <=> \E id \in ActiveRows \ todo : executions[id].session = s

\* A row is terminal only after its record.
MemoryFirst ==
  \A id \in Ids :
    executions[id].status \in Terminal => records[id].status \in Terminal \cup {"none"}

\* lastGeneration is what its name says.
GenerationsHandedOut ==
  /\ \A id \in Ids : records[id].status # "none"
       => records[id].generation <= lastGeneration[records[id].session]
  /\ phase = "up" /\ recovered =>
       \A id \in listed : executions[id].generation <= lastGeneration[executions[id].session]

\* There is a greatest generation on disk.
GenerationsBounded == \E n \in Nat : \A id \in Ids : executions[id].generation <= n

IInv ==
  /\ ManagerTypeOK
  /\ Numbered
  /\ ActiveIsOwner
  /\ LivesApart
  /\ OldestFirst
  /\ MemoryFirst
  /\ GenerationsHandedOut
  /\ GenerationsBounded
  /\ KeptBlocks
  /\ FencedAcrossRestarts
  /\ RecoveredIsJudged

-----------------------------------------------------------------------------
(* Least and greatest elements, which CHOOSE asks for.                     *)

LEMMA Least ==
  ASSUME NEW S, S \subseteq Nat, S # {}
  PROVE  \E x \in S : \A y \in S : x <= y
<1>1. IsWellFoundedOn(OpToRel(<, Nat), Nat)
  BY NatLessThanWellFounded
<1>2. PICK x \in S : \A y \in S : <<y, x>> \notin OpToRel(<, Nat)
  BY <1>1, WFMin
<1>3. \A y \in S : ~(y < x)
  BY <1>2 DEF OpToRel
<1>4. \A y \in S : x <= y
  BY <1>3
<1>5. QED  BY <1>4

LEMMA Greatest ==
  ASSUME NEW S, S \subseteq Nat, S # {}, NEW n \in Nat, \A x \in S : x <= n
  PROVE  \E x \in S : \A y \in S : y <= x
<1> DEFINE T == {n - x : x \in S}
<1>1. T \subseteq Nat  OBVIOUS
<1>2. T # {}  OBVIOUS
<1> HIDE DEF T
<1>3. PICK t \in T : \A u \in T : t <= u
  BY <1>1, <1>2, Least
<1>4. PICK x \in S : t = n - x
  BY DEF T
<1>5. ASSUME NEW y \in S PROVE y <= x
  <2>1. n - y \in T  BY DEF T
  <2>2. n - x <= n - y  BY <1>3, <1>4, <2>1
  <2>3. QED  BY <2>2
<1>6. QED  BY <1>5

LEMMA OldestFacts ==
  ASSUME ManagerTypeOK, todo # {}
  PROVE  Oldest \in todo /\ \A j \in todo : Oldest <= j
<1>1. todo \subseteq Nat  BY ManagerAssumption DEF ManagerTypeOK, Ids
<1>2. \E id \in todo : \A j \in todo : id <= j  BY <1>1, Least
<1>3. QED  BY <1>2 DEF Oldest

LEMMA LiftedFacts ==
  ASSUME ManagerTypeOK, GenerationsBounded, NEW s \in Sessions
  PROVE  /\ Lifted(s) \in Nat
         /\ lastGeneration[s] <= Lifted(s)
         /\ \A id \in listed : executions[id].session = s => executions[id].generation <= Lifted(s)
<1> DEFINE rows == {executions[id].generation : id \in {i \in Ids : executions[i].session = s}}
           S == rows \cup {lastGeneration[s]}
<1>1. S \subseteq Nat /\ S # {}  BY DEF ManagerTypeOK, Record
<1>2. PICK n \in Nat : \A id \in Ids : executions[id].generation <= n
  BY DEF GenerationsBounded
<1>3. PICK m \in Nat : \A x \in S : x <= m
  <2>1. lastGeneration[s] \in Nat  BY DEF ManagerTypeOK
  <2>2. \A id \in Ids : executions[id].generation \in Nat  BY DEF ManagerTypeOK, Record
  <2>3. \A x \in S : x <= n + lastGeneration[s]  BY <1>2, <2>1, <2>2
  <2>4. n + lastGeneration[s] \in Nat  BY <2>1
  <2>5. QED  BY <2>3, <2>4
<1>4. lastGeneration[s] \in S
      /\ \A id \in listed : executions[id].session = s => executions[id].generation \in S
  BY DEF ManagerTypeOK
<1>5. Lifted(s) = IF \E id \in listed : executions[id].session = s
                  THEN CHOOSE g \in S : \A h \in S : h <= g
                  ELSE lastGeneration[s]
  BY DEF Lifted
<1> HIDE DEF S
<1>6. \E g \in S : \A h \in S : h <= g  BY <1>1, <1>3, Greatest
<1>7. CASE \E id \in listed : executions[id].session = s
  <2>1. Lifted(s) \in S /\ \A h \in S : h <= Lifted(s)  BY <1>5, <1>6, <1>7
  <2>2. QED  BY <1>1, <1>4, <2>1
<1>8. CASE ~ \E id \in listed : executions[id].session = s
  <2>1. Lifted(s) = lastGeneration[s]  BY <1>5, <1>8
  <2>2. lastGeneration[s] \in Nat  BY <1>1, <1>4
  <2>3. QED  BY <1>8, <2>1, <2>2
<1>9. QED  BY <1>7, <1>8

LEMMA InvInit == ManagerInit => IInv
<1> SUFFICES ASSUME ManagerInit PROVE IInv  OBVIOUS
<1> USE DEF ManagerInit, NoRecord, NoCall
<1>1. ManagerTypeOK
  BY ManagerAssumption DEF ManagerTypeOK, Record, Statuses
<1>2. Numbered /\ LivesApart
  BY DEF Numbered, LivesApart
<1>3. ActiveIsOwner /\ MemoryFirst
  BY DEF ActiveIsOwner, MemoryFirst, IsActive, ActiveStatuses, Terminal
<1>4. OldestFirst /\ KeptBlocks
  BY DEF OldestFirst, KeptBlocks, ActiveRows, IsActive, ActiveStatuses
<1>5. GenerationsHandedOut /\ FencedAcrossRestarts /\ RecoveredIsJudged
  BY DEF GenerationsHandedOut, FencedAcrossRestarts, RecoveredIsJudged
<1>6. GenerationsBounded
  BY DEF GenerationsBounded
<1>7. QED  BY <1>1, <1>2, <1>3, <1>4, <1>5, <1>6 DEF IInv

-----------------------------------------------------------------------------
(* What the steps of a running process have in common.                     *)

LEMMA WriteThrough ==
  ASSUME IInv, NEW id \in Ids, NEW rec \in Record, Persist(id, rec)
  PROVE  /\ executions' \in [Ids -> Record]
         /\ faults' \in 0..MaxFaults
         /\ \A j \in Ids : j # id => executions'[j] = executions[j]
         /\ executions'[id] \in {executions[id], rec}
         /\ GenerationsBounded'
<1>1. executions \in [Ids -> Record] /\ faults \in 0..MaxFaults
  BY DEF IInv, ManagerTypeOK
<1>2. executions' \in {executions, [executions EXCEPT ![id] = rec]}
  BY DEF Persist
<1>3. faults' \in 0..MaxFaults
  BY <1>1, ManagerAssumption DEF Persist
<1>4. /\ executions' \in [Ids -> Record]
      /\ \A j \in Ids : j # id => executions'[j] = executions[j]
      /\ executions'[id] \in {executions[id], rec}
  BY <1>1, <1>2
<1>5. GenerationsBounded'
  <2>1. PICK n \in Nat : \A j \in Ids : executions[j].generation <= n
    BY DEF IInv, GenerationsBounded
  <2>2. rec.generation \in Nat /\ \A j \in Ids : executions[j].generation \in Nat
    BY <1>1 DEF Record
  <2>3. \A j \in Ids : executions'[j].generation <= n + rec.generation
    BY <1>4, <2>1, <2>2
  <2>4. n + rec.generation \in Nat  BY <2>1, <2>2
  <2>5. QED  BY <2>3, <2>4 DEF GenerationsBounded
<1>6. QED  BY <1>3, <1>4, <1>5

\* While the process is up, the rows of earlier lives stay as they are, and so
\* does what they block.
LEMMA EarlierLivesStay ==
  ASSUME IInv, phase = "up", UNCHANGED <<life, foreignActive>>,
         \A id \in Ids : id <= born => executions'[id] = executions[id],
         \A s \in Sessions : owner'[s] # None => owner[s] # None \/ foreignActive[s] = None
  PROVE  LivesApart' /\ OldestFirst' /\ KeptBlocks'
<1> USE DEF IInv, life
<1>1. listed \subseteq Ids  BY DEF ManagerTypeOK
<1>2. LivesApart'
  BY <1>1 DEF LivesApart
<1>3. OldestFirst'
  BY DEF OldestFirst
<1>4. KeptBlocks'
  <2> SUFFICES ASSUME recovered, NEW s \in Sessions
               PROVE  /\ foreignActive[s] # None
                           <=> \E id \in ActiveRows' : id <= born /\ executions'[id].session = s
                      /\ foreignActive[s] # None => owner'[s] = None
    BY DEF KeptBlocks
  <2>1. \A id \in Ids : id <= born =>
          (id \in ActiveRows' <=> id \in ActiveRows)
    BY DEF ActiveRows, IsActive
  <2>2. \A id \in ActiveRows : id \in Ids  BY DEF ActiveRows
  <2>3. \A id \in ActiveRows' : id \in Ids  BY DEF ActiveRows
  <2>4. foreignActive[s] # None
          <=> \E id \in ActiveRows : id <= born /\ executions[id].session = s
    BY DEF KeptBlocks
  <2>5. (\E id \in ActiveRows' : id <= born /\ executions'[id].session = s)
          <=> \E id \in ActiveRows : id <= born /\ executions[id].session = s
    BY <2>1, <2>2, <2>3
  <2>6. foreignActive[s] # None => owner'[s] = None
    BY DEF KeptBlocks
  <2>7. QED  BY <2>4, <2>5, <2>6
<1>5. QED  BY <1>2, <1>3, <1>4

\* A record that changes its status or goes away disturbs no generation.
LEMMA GenerationsStay ==
  ASSUME IInv, phase = "up", UNCHANGED <<life, lastGeneration>>,
         \A id \in Ids : id <= born => executions'[id] = executions[id],
         \A id \in Ids : \/ records'[id] = NoRecord \/ records'[id] = records[id]
                         \/ /\ records'[id].session = records[id].session
                            /\ records'[id].generation = records[id].generation
                            /\ records[id].status # "none"
  PROVE  GenerationsHandedOut' /\ FencedAcrossRestarts'
<1> USE DEF IInv, life
<1>1. \A id \in listed : id \in Ids /\ executions'[id] = executions[id]
  BY DEF LivesApart, ManagerTypeOK
<1>2. \A id \in Ids : records'[id].status # "none" =>
        /\ records'[id].session = records[id].session
        /\ records'[id].generation = records[id].generation
        /\ records[id].status # "none"
        /\ records[id].session \in Sessions
  BY DEF NoRecord, Numbered
<1>3. \A id \in Ids : records'[id].session # None =>
        /\ records'[id].session = records[id].session
        /\ records'[id].generation = records[id].generation
  BY DEF NoRecord
<1>4. GenerationsHandedOut'
  BY <1>1, <1>2 DEF GenerationsHandedOut
<1>5. FencedAcrossRestarts'
  <2> SUFFICES ASSUME recovered, NEW id \in Ids, records'[id].status # "none"
               PROVE  /\ \A j \in listed : executions'[j].session = records'[id].session
                           => executions'[j].generation < records'[id].generation
                      /\ \A j \in Ids : records'[j].session = records'[id].session /\ j < id
                           => records'[j].generation < records'[id].generation
    BY DEF FencedAcrossRestarts
  <2>1. records'[id].session # None  BY <1>2, ManagerAssumption
  <2>2. QED  BY <1>1, <1>2, <1>3, <2>1 DEF FencedAcrossRestarts
<1>6. QED  BY <1>4, <1>5

-----------------------------------------------------------------------------
(* Each action keeps the invariant.                                        *)

LEMMA IssueFacts ==
  ASSUME IInv, NEW s \in Sessions, NEW status \in {"RUNNING", "STALE"}, Issue(s)
  PROVE  /\ issued + 1 \in Ids /\ issued + 1 > born
         /\ issued' \in 0..MaxIds /\ issued' = issued + 1
         /\ Acquired(s, status) \in Record
         /\ records[issued + 1].status = "none" /\ records[issued + 1].session = None
         /\ executions[issued + 1].status = "none"
         /\ lastGeneration' = [lastGeneration EXCEPT ![s] = lastGeneration[s] + 1]
         /\ lastGeneration' \in [Sessions -> Nat]
<1> USE DEF IInv
<1>1. /\ issued \in 0..MaxIds /\ issued < MaxIds /\ born \in 0..issued
      /\ lastGeneration \in [Sessions -> Nat]
      /\ records \in [Ids -> Record]
  BY DEF Issue, ManagerTypeOK
<1>2. issued + 1 \in Ids /\ issued + 1 > born /\ issued + 1 \in 0..MaxIds /\ ~(issued + 1 <= issued)
  BY <1>1, ManagerAssumption DEF Ids
<1>3. issued' = issued + 1
      /\ lastGeneration' = [lastGeneration EXCEPT ![s] = lastGeneration[s] + 1]
  BY DEF Issue
<1>4. Acquired(s, status) \in Record
  BY <1>1 DEF Acquired, Record, Statuses, ActiveStatuses, Terminal
<1>5. records[issued + 1].status = "none" /\ records[issued + 1].session = None
  BY <1>1, <1>2 DEF Numbered
<1>6. executions[issued + 1].status = "none"
  BY <1>2 DEF Numbered
<1>7. lastGeneration' \in [Sessions -> Nat]  BY <1>1, <1>3
<1>8. QED  BY <1>2, <1>3, <1>4, <1>5, <1>6, <1>7

LEMMA AdmitKeeps ==
  ASSUME IInv, NEW s \in Sessions, Admit(s)
  PROVE  IInv'
<1> USE DEF IInv
<1> DEFINE new == issued + 1
           rec == Acquired(s, "RUNNING")
<1>1. /\ phase = "up" /\ ~Occupied(s) /\ Issue(s) /\ Persist(new, rec)
      /\ records' = [records EXCEPT ![new] = rec]
      /\ owner' = [owner EXCEPT ![s] = new]
      /\ UNCHANGED <<foreignActive, toolCalls, life>>
  BY DEF Admit, Issue
<1>2. /\ new \in Ids /\ new > born
      /\ issued' \in 0..MaxIds /\ issued' = new
      /\ rec \in Record
      /\ records[new].status = "none" /\ records[new].session = None
      /\ executions[new].status = "none"
      /\ lastGeneration' = [lastGeneration EXCEPT ![s] = lastGeneration[s] + 1]
      /\ lastGeneration' \in [Sessions -> Nat]
  BY <1>1, IssueFacts
<1>3. /\ rec.session = s /\ rec.status = "RUNNING"
      /\ rec.generation = lastGeneration[s] + 1
  BY DEF Acquired
<1>4. /\ executions' \in [Ids -> Record]
      /\ faults' \in 0..MaxFaults
      /\ \A j \in Ids : j # new => executions'[j] = executions[j]
      /\ executions'[new] \in {executions[new], rec}
      /\ GenerationsBounded'
  BY <1>1, <1>2, WriteThrough
<1> HIDE DEF rec
<1>5. /\ owner[s] = None /\ foreignActive[s] = None
      /\ \A id \in Ids : IsActive(records[id]) => records[id].session # s
  <2>1. foreignActive[s] = None /\ (owner[s] # None => ~IsActive(records[owner[s]]))
    BY <1>1 DEF Occupied
  <2>2. owner[s] = None  BY <2>1 DEF ActiveIsOwner
  <2>3. QED  BY <2>1, <2>2, ManagerAssumption DEF ActiveIsOwner, Ids
<1>6. /\ \A j \in Ids : j # new => records'[j] = records[j]
      /\ records'[new] = rec
      /\ \A t \in Sessions : t # s => owner'[t] = owner[t]
      /\ owner'[s] = new
      /\ \A t \in Sessions : t # s => lastGeneration'[t] = lastGeneration[t]
      /\ lastGeneration'[s] = rec.generation
      /\ rec.generation > lastGeneration[s]
      /\ lastGeneration \in [Sessions -> Nat]
  BY <1>1, <1>2, <1>3 DEF ManagerTypeOK
<1>7. new = issued + 1 /\ issued \in 0..MaxIds /\ born \in 0..issued /\ Ids = 1..MaxIds
  BY DEF ManagerTypeOK, Ids
<1> HIDE DEF new
<1>8. ManagerTypeOK'
  <2>1. records' \in [Ids -> Record] /\ owner' \in [Sessions -> Ids \cup {None}]
    BY <1>1, <1>2 DEF ManagerTypeOK
  <2>2. cut' \in 0..issued' /\ born' \in 0..issued'
    BY <1>1, <1>2, <1>7, ManagerAssumption DEF ManagerTypeOK, life
  <2>3. QED  BY <1>1, <1>2, <1>4, <2>1, <2>2 DEF ManagerTypeOK, life
<1>9. Numbered'
  BY <1>1, <1>2, <1>3, <1>4, <1>6, <1>7, ManagerAssumption DEF Numbered, life
<1>10. ActiveIsOwner'
  <2>1. \A id \in Ids : IsActive(records'[id]) => owner'[records'[id].session] = id
    <3> SUFFICES ASSUME NEW id \in Ids, IsActive(records'[id])
                 PROVE  owner'[records'[id].session] = id
      OBVIOUS
    <3>1. CASE id = new  BY <1>3, <1>6, <3>1
    <3>2. CASE id # new
      <4>1. records'[id] = records[id] /\ records[id].session # s  BY <1>5, <1>6, <3>2
      <4>2. records[id].session \in Sessions
        BY <4>1 DEF Numbered, IsActive, ActiveStatuses
      <4>3. QED  BY <1>6, <4>1, <4>2 DEF ActiveIsOwner
    <3>3. QED  BY <3>1, <3>2
  <2>2. \A t \in Sessions :
          owner'[t] # None => IsActive(records'[owner'[t]]) /\ records'[owner'[t]].session = t
    <3> SUFFICES ASSUME NEW t \in Sessions, owner'[t] # None
                 PROVE  IsActive(records'[owner'[t]]) /\ records'[owner'[t]].session = t
      OBVIOUS
    <3>1. CASE t = s  BY <1>3, <1>6, <3>1 DEF IsActive, ActiveStatuses
    <3>2. CASE t # s
      <4>1. owner'[t] = owner[t] /\ owner[t] \in Ids  BY <1>6, <3>2 DEF ManagerTypeOK
      <4>2. owner[t] # new  BY <1>2, <4>1 DEF ActiveIsOwner, IsActive, ActiveStatuses
      <4>3. QED  BY <1>6, <4>1, <4>2 DEF ActiveIsOwner
    <3>3. QED  BY <3>1, <3>2
  <2>3. QED  BY <2>1, <2>2 DEF ActiveIsOwner
<1>11. LivesApart' /\ OldestFirst' /\ KeptBlocks'
  <2>1. \A id \in Ids : id <= born => executions'[id] = executions[id]
    BY <1>2, <1>4, <1>7
  <2>2. \A t \in Sessions : owner'[t] # None => owner[t] # None \/ foreignActive[t] = None
    BY <1>5, <1>6
  <2>3. QED  BY <1>1, <2>1, <2>2, EarlierLivesStay
<1>12. MemoryFirst'
  BY <1>2, <1>3, <1>4, <1>6 DEF MemoryFirst, Terminal
<1>13. GenerationsHandedOut'
  <2>1. \A id \in Ids : records'[id].status # "none"
          => records'[id].generation <= lastGeneration'[records'[id].session]
    <3> SUFFICES ASSUME NEW id \in Ids, records'[id].status # "none"
                 PROVE  records'[id].generation <= lastGeneration'[records'[id].session]
      OBVIOUS
    <3>1. CASE id = new  BY <1>2, <1>3, <1>6, <3>1 DEF Record
    <3>2. CASE id # new
      <4>1. /\ records'[id] = records[id] /\ records[id].session \in Sessions
            /\ records[id].generation \in Nat
            /\ records[id].generation <= lastGeneration[records[id].session]
        BY <1>6, <3>2 DEF Numbered, GenerationsHandedOut, ManagerTypeOK, Record
      <4>2. lastGeneration[records[id].session] <= lastGeneration'[records[id].session]
        BY <1>2, <1>6, <4>1
      <4>3. QED  BY <1>2, <1>6, <4>1, <4>2
    <3>3. QED  BY <3>1, <3>2
  <2>2. ASSUME recovered, NEW id \in listed
        PROVE  executions'[id].generation <= lastGeneration'[executions'[id].session]
    <3>1. id \in Ids /\ executions'[id] = executions[id] /\ executions[id].session \in Sessions
      BY <1>2, <1>4, <1>7, <2>2 DEF LivesApart, Numbered, ManagerTypeOK
    <3>2. /\ executions[id].generation \in Nat
          /\ executions[id].generation <= lastGeneration[executions[id].session]
      BY <1>1, <2>2, <3>1 DEF GenerationsHandedOut, ManagerTypeOK, Record
    <3>3. QED  BY <1>2, <1>6, <3>1, <3>2
  <2>3. QED  BY <1>1, <2>1, <2>2 DEF GenerationsHandedOut, life
<1>14. FencedAcrossRestarts'
  <2> SUFFICES ASSUME recovered, NEW id \in Ids, records'[id].status # "none"
               PROVE  /\ \A j \in listed : executions'[j].session = records'[id].session
                           => executions'[j].generation < records'[id].generation
                      /\ \A j \in Ids : records'[j].session = records'[id].session /\ j < id
                           => records'[j].generation < records'[id].generation
    BY <1>1 DEF FencedAcrossRestarts, life
  <2>1. \A j \in listed : j \in Ids /\ executions'[j] = executions[j]
    BY <1>2, <1>4, <1>7 DEF LivesApart, ManagerTypeOK
  <2>2. CASE id = new
    <3>1. \A j \in listed : executions[j].session = s => executions[j].generation <= lastGeneration[s]
      BY <1>1 DEF GenerationsHandedOut
    <3>2. \A j \in Ids : j # new /\ records[j].session = s => records[j].generation <= lastGeneration[s]
      BY ManagerAssumption DEF GenerationsHandedOut, Numbered
    <3>3. /\ \A j \in Ids : records[j].generation \in Nat /\ executions[j].generation \in Nat
          /\ rec.generation \in Nat /\ lastGeneration[s] \in Nat
      BY <1>2, <1>6 DEF ManagerTypeOK, Record
    <3>4. records'[id].session = s /\ records'[id].generation = rec.generation
      BY <1>3, <1>6, <2>2
    <3>5. \A j \in listed : executions'[j].session = s
            => executions'[j].generation < rec.generation
      BY <1>6, <2>1, <3>1, <3>3
    <3>6. \A j \in Ids : records'[j].session = s /\ j < new
            => records'[j].generation < rec.generation
      BY <1>6, <3>2, <3>3, <1>7
    <3>7. QED  BY <2>2, <3>4, <3>5, <3>6
  <2>3. CASE id # new
    <3>1. records'[id] = records[id] /\ id < new
      BY <1>6, <1>7, <2>3 DEF Numbered
    <3>2. QED  BY <1>1, <1>6, <1>7, <2>1, <3>1 DEF FencedAcrossRestarts
  <2>4. QED  BY <2>2, <2>3
<1>15. RecoveredIsJudged'
  BY <1>1 DEF RecoveredIsJudged, life
<1>16. QED
  BY <1>4, <1>8, <1>9, <1>10, <1>11, <1>12, <1>13, <1>14, <1>15

LEMMA RefuseKeeps ==
  ASSUME IInv, NEW s \in Sessions, Refuse(s)
  PROVE  IInv'
<1> USE DEF IInv
<1> DEFINE new == issued + 1
           rec == Acquired(s, "STALE")
<1>1. /\ phase = "up" /\ Issue(s) /\ Persist(new, rec)
      /\ UNCHANGED <<records, owner, foreignActive, toolCalls, life>>
  BY DEF Refuse, Issue
<1>2. /\ new \in Ids /\ new > born
      /\ issued' \in 0..MaxIds /\ issued' = new
      /\ rec \in Record
      /\ records[new].status = "none"
      /\ lastGeneration' = [lastGeneration EXCEPT ![s] = lastGeneration[s] + 1]
      /\ lastGeneration' \in [Sessions -> Nat]
  BY <1>1, IssueFacts
<1>3. rec.session = s /\ rec.status = "STALE"
  BY DEF Acquired
<1>4. /\ executions' \in [Ids -> Record]
      /\ faults' \in 0..MaxFaults
      /\ \A j \in Ids : j # new => executions'[j] = executions[j]
      /\ executions'[new] \in {executions[new], rec}
      /\ GenerationsBounded'
  BY <1>1, <1>2, WriteThrough
<1> HIDE DEF rec
<1>5. /\ new = issued + 1 /\ issued \in 0..MaxIds /\ born \in 0..issued /\ Ids = 1..MaxIds
      /\ lastGeneration \in [Sessions -> Nat]
  BY DEF ManagerTypeOK, Ids
<1>6. \A t \in Sessions : /\ lastGeneration[t] \in Nat
                          /\ lastGeneration'[t] \in {lastGeneration[t], lastGeneration[t] + 1}
  BY <1>2, <1>5
<1>7. \A t \in Sessions : /\ lastGeneration[t] <= lastGeneration'[t]
                          /\ lastGeneration[t] \in Nat /\ lastGeneration'[t] \in Nat
  BY <1>6
<1> HIDE DEF new
<1>8. \A id \in Ids : id <= born => executions'[id] = executions[id]
  BY <1>2, <1>4, <1>5
<1>9. ManagerTypeOK'
  <2>1. cut' \in 0..issued' /\ born' \in 0..issued'
    BY <1>1, <1>2, <1>5, ManagerAssumption DEF ManagerTypeOK, life
  <2>2. QED  BY <1>1, <1>2, <1>4, <2>1 DEF ManagerTypeOK, life
<1>10. Numbered'
  <2>1. \A id \in Ids : executions'[id].status # "none"
          => id <= issued' /\ executions'[id].session \in Sessions
    BY <1>2, <1>3, <1>4, <1>5 DEF Numbered
  <2>2. \A id \in Ids :
          /\ records'[id].status # "none"
               => id \in born' + 1 .. issued' /\ records'[id].session \in Sessions
          /\ records'[id].status = "none" => records'[id].session = None
    BY <1>1, <1>2, <1>5 DEF Numbered, life
  <2>3. QED  BY <2>1, <2>2 DEF Numbered
<1>11. ActiveIsOwner'  BY <1>1 DEF ActiveIsOwner
<1>12. LivesApart' /\ OldestFirst' /\ KeptBlocks'
  BY <1>1, <1>8, EarlierLivesStay
<1>13. MemoryFirst'
  BY <1>1, <1>2, <1>4 DEF MemoryFirst
<1>14. GenerationsHandedOut'
  <2>1. ASSUME NEW id \in Ids, records[id].status # "none"
        PROVE  records[id].generation <= lastGeneration'[records[id].session]
    <3>1. /\ records[id].session \in Sessions /\ records[id].generation \in Nat
          /\ records[id].generation <= lastGeneration[records[id].session]
      BY <2>1 DEF Numbered, GenerationsHandedOut, ManagerTypeOK, Record
    <3>2. QED  BY <1>7, <3>1
  <2>2. ASSUME recovered, NEW id \in listed
        PROVE  executions'[id].generation <= lastGeneration'[executions'[id].session]
    <3>1. id \in Ids /\ executions'[id] = executions[id] /\ executions[id].session \in Sessions
      BY <1>8, <2>2 DEF LivesApart, Numbered, ManagerTypeOK
    <3>2. /\ executions[id].generation \in Nat
          /\ executions[id].generation <= lastGeneration[executions[id].session]
      BY <1>1, <2>2, <3>1 DEF GenerationsHandedOut, ManagerTypeOK, Record
    <3>3. QED  BY <1>7, <3>1, <3>2
  <2>3. QED  BY <1>1, <2>1, <2>2 DEF GenerationsHandedOut, life
<1>15. FencedAcrossRestarts'
  <2>1. \A j \in listed : executions'[j] = executions[j]
    BY <1>8 DEF LivesApart, ManagerTypeOK
  <2>2. QED  BY <1>1, <2>1 DEF FencedAcrossRestarts, life
<1>16. RecoveredIsJudged'
  BY <1>1 DEF RecoveredIsJudged, life
<1>17. QED
  BY <1>4, <1>9, <1>10, <1>11, <1>12, <1>13, <1>14, <1>15, <1>16

LEMMA RequestCancelKeeps ==
  ASSUME IInv, NEW id \in Ids, RequestCancel(id)
  PROVE  IInv'
<1> USE DEF IInv
<1> DEFINE rec == [records[id] EXCEPT !.status = "CANCEL_REQUESTED"]
<1>1. /\ phase = "up" /\ records[id].status = "RUNNING"
      /\ records' = [records EXCEPT ![id] = rec]
      /\ Persist(id, rec)
      /\ UNCHANGED <<owner, lastGeneration, foreignActive, toolCalls, life, issued>>
  BY DEF RequestCancel, CanTransition
<1>2. records[id] \in Record  BY DEF ManagerTypeOK
<1>3. /\ rec \in Record /\ rec.status = "CANCEL_REQUESTED"
      /\ rec.session = records[id].session /\ rec.generation = records[id].generation
  BY <1>2 DEF Record, Statuses, ActiveStatuses
<1>4. /\ executions' \in [Ids -> Record]
      /\ faults' \in 0..MaxFaults
      /\ \A j \in Ids : j # id => executions'[j] = executions[j]
      /\ executions'[id] \in {executions[id], rec}
      /\ GenerationsBounded'
  BY <1>1, <1>3, WriteThrough
<1> HIDE DEF rec
<1>5. /\ \A j \in Ids : j # id => records'[j] = records[j]
      /\ records'[id] = rec
  BY <1>1 DEF ManagerTypeOK
<1>6. id \in born + 1 .. issued /\ records[id].session \in Sessions /\ born \in Nat
  BY <1>1 DEF Numbered, ManagerTypeOK
<1>7. \A j \in Ids : j <= born => executions'[j] = executions[j]
  BY <1>4, <1>6
<1>8. ManagerTypeOK'
  BY <1>1, <1>3, <1>4 DEF ManagerTypeOK, life
<1>9. Numbered'
  BY <1>1, <1>3, <1>4, <1>5, <1>6 DEF Numbered, life
<1>10. ActiveIsOwner'
  BY <1>1, <1>3, <1>5 DEF ActiveIsOwner, IsActive, ActiveStatuses
<1>11. LivesApart' /\ OldestFirst' /\ KeptBlocks'
  BY <1>1, <1>7, EarlierLivesStay
<1>12. MemoryFirst'
  BY <1>1, <1>3, <1>4, <1>5 DEF MemoryFirst, Terminal
<1>13. GenerationsHandedOut' /\ FencedAcrossRestarts'
  BY <1>1, <1>3, <1>5, <1>7, GenerationsStay DEF NoRecord, Numbered
<1>14. RecoveredIsJudged'
  BY <1>1 DEF RecoveredIsJudged, life
<1>15. QED
  BY <1>4, <1>8, <1>9, <1>10, <1>11, <1>12, <1>13, <1>14

\* What Finish and ConfirmCancel do: the execution lands in a terminal status,
\* and its session is free again if it owned it.
LEMMA LandingKeeps ==
  ASSUME IInv, phase = "up", NEW id \in Ids, records[id].status # "none",
         NEW end \in Record, end.status \in Terminal,
         end.session = records[id].session, end.generation = records[id].generation,
         NEW rec \in {end, NoRecord},
         records' = [records EXCEPT ![id] = rec],
         Disown(id),
         Persist(id, end) \/ UNCHANGED <<executions, faults>>,
         UNCHANGED <<lastGeneration, foreignActive, toolCalls, life, issued>>
  PROVE  IInv'
<1> USE DEF IInv
<1>1. NoRecord \in Record /\ NoRecord.session = None /\ NoRecord.status = "none"
  BY DEF NoRecord, Record, Statuses
<1>2. /\ executions' \in [Ids -> Record]
      /\ faults' \in 0..MaxFaults
      /\ \A j \in Ids : j # id => executions'[j] = executions[j]
      /\ executions'[id] \in {executions[id], end}
      /\ GenerationsBounded'
  <2>1. CASE Persist(id, end)  BY <2>1, WriteThrough
  <2>2. CASE UNCHANGED <<executions, faults>>
    BY <2>2 DEF ManagerTypeOK, GenerationsBounded
  <2>3. QED  BY <2>1, <2>2
<1>3. /\ \A j \in Ids : j # id => records'[j] = records[j]
      /\ records'[id] = rec
  BY DEF ManagerTypeOK
<1>4. /\ id \in born + 1 .. issued /\ records[id].session \in Sessions /\ born \in Nat
      /\ end.status # "none"
  BY DEF Numbered, ManagerTypeOK, Terminal
<1>5. \A s \in Sessions :
        /\ s # records[id].session => owner'[s] = owner[s]
        /\ s = records[id].session => owner'[s] = IF owner[s] = id THEN None ELSE owner[s]
  BY <1>4 DEF Disown, ManagerTypeOK
<1>6. \A j \in Ids : j <= born => executions'[j] = executions[j]
  BY <1>2, <1>4
<1>7. ManagerTypeOK'
  <2>1. records' \in [Ids -> Record] /\ owner' \in [Sessions -> Ids \cup {None}]
    BY <1>1 DEF ManagerTypeOK, Disown
  <2>2. QED  BY <1>2, <2>1 DEF ManagerTypeOK, life
<1>8. Numbered'
  BY <1>1, <1>2, <1>3, <1>4 DEF Numbered, life
<1>9. ActiveIsOwner'
  <2>1. ~IsActive(rec)
    BY <1>1 DEF IsActive, ActiveStatuses, Terminal
  <2>2. \A j \in Ids : IsActive(records'[j]) =>
          j # id /\ records'[j] = records[j] /\ records[j].session \in Sessions
    BY <1>3, <2>1 DEF Numbered, IsActive, ActiveStatuses
  <2>3. \A j \in Ids : IsActive(records'[j]) => owner'[records'[j].session] = j
    BY <1>5, <2>2 DEF ActiveIsOwner
  <2>4. \A s \in Sessions : owner'[s] # None =>
          owner'[s] = owner[s] /\ owner[s] \in Ids /\ owner[s] # id
    BY <1>5, <1>4 DEF ActiveIsOwner, ManagerTypeOK
  <2>5. \A s \in Sessions : owner'[s] # None =>
          IsActive(records'[owner'[s]]) /\ records'[owner'[s]].session = s
    BY <1>3, <2>4 DEF ActiveIsOwner
  <2>6. QED  BY <2>3, <2>5 DEF ActiveIsOwner
<1>10. LivesApart' /\ OldestFirst' /\ KeptBlocks'
  <2>1. \A s \in Sessions : owner'[s] # None => owner[s] # None \/ foreignActive[s] = None
    BY <1>5
  <2>2. QED  BY <1>6, <2>1, EarlierLivesStay
<1>11. MemoryFirst'
  BY <1>1, <1>2, <1>3 DEF MemoryFirst
<1>12. GenerationsHandedOut' /\ FencedAcrossRestarts'
  <2>1. \A j \in Ids : \/ records'[j] = NoRecord \/ records'[j] = records[j]
                       \/ /\ records'[j].session = records[j].session
                          /\ records'[j].generation = records[j].generation
                          /\ records[j].status # "none"
    BY <1>3
  <2>2. QED  BY <1>6, <2>1, GenerationsStay
<1>13. RecoveredIsJudged'
  BY DEF RecoveredIsJudged, life
<1>14. QED
  BY <1>2, <1>7, <1>8, <1>9, <1>10, <1>11, <1>12, <1>13

LEMMA LandsFacts ==
  ASSUME ManagerTypeOK, NEW id \in Ids, NEW to \in {"COMPLETED", "FAILED"}
  PROVE  /\ Lands(id, to) \in Terminal
         /\ records[id].status \in Terminal => Lands(id, to) = records[id].status
         /\ records[id].status = "CANCEL_REQUESTED" => Lands(id, to) = "STALE"
  BY DEF Lands, CanTransition, Terminal

LEMMA FinishKeeps ==
  ASSUME IInv, NEW id \in Ids, NEW to \in {"COMPLETED", "FAILED"}, Finish(id, to)
  PROVE  IInv'
<1> DEFINE end == [records[id] EXCEPT !.status = Lands(id, to)]
           rec == IF end.status = "STALE" /\ records[id].status # "STALE" THEN end ELSE NoRecord
<1>1. ManagerTypeOK  BY DEF IInv
<1>2. /\ phase = "up" /\ records[id].status # "none" /\ Disown(id)
      /\ records' = [records EXCEPT ![id] = rec]
      /\ Persist(id, end) \/ UNCHANGED <<executions, faults>>
      /\ UNCHANGED <<lastGeneration, foreignActive, toolCalls, life, issued>>
  BY DEF Finish
<1>3. /\ end \in Record /\ end.status \in Terminal
      /\ end.session = records[id].session /\ end.generation = records[id].generation
  BY <1>1, LandsFacts DEF ManagerTypeOK, Record, Statuses
<1>4. rec \in {end, NoRecord}  OBVIOUS
<1> HIDE DEF end, rec
<1>5. QED  BY <1>2, <1>3, <1>4, LandingKeeps

LEMMA ConfirmCancelKeeps ==
  ASSUME IInv, NEW id \in Ids, ConfirmCancel(id)
  PROVE  IInv'
<1> DEFINE end == [records[id] EXCEPT !.status = "CANCELLED"]
<1>1. ManagerTypeOK  BY DEF IInv
<1>2. /\ phase = "up" /\ records[id].status # "none" /\ Disown(id)
      /\ records' = [records EXCEPT ![id] = NoRecord]
      /\ Persist(id, end)
      /\ UNCHANGED <<lastGeneration, foreignActive, toolCalls, life, issued>>
  BY DEF ConfirmCancel, CanTransition
<1>3. /\ end \in Record /\ end.status \in Terminal
      /\ end.session = records[id].session /\ end.generation = records[id].generation
  BY <1>1 DEF ManagerTypeOK, Record, Statuses, Terminal
<1> HIDE DEF end
<1>4. QED  BY <1>2, <1>3, LandingKeeps

\* The rows of tool calls of this life are none of recovery's.
LEMMA ToolCallKeeps ==
  ASSUME IInv, ToolCall
  PROVE  IInv'
<1> USE DEF IInv
<1>1. UNCHANGED <<memory, executions, life, issued>>
  BY DEF ToolCall, BeginRefused, BeginToolCall, EndToolCall, disk
<1>2. faults' \in 0..MaxFaults
  BY ManagerAssumption DEF ToolCall, BeginRefused, BeginToolCall, EndToolCall, ManagerTypeOK
<1>3. \/ toolCalls' = toolCalls
      \/ \E c \in Calls, id \in Ids, status \in {"running", "completed", "failed"} :
           /\ id > born
           /\ toolCalls' = [toolCalls EXCEPT ![c] = [execution |-> id, status |-> status]]
  <2>1. CASE BeginRefused  BY <2>1 DEF BeginRefused, disk
  <2>2. ASSUME NEW c \in Calls, NEW id \in Ids, BeginToolCall(c, id)
        PROVE  /\ id > born
               /\ \/ toolCalls' = toolCalls
                  \/ toolCalls' = [toolCalls EXCEPT ![c] = [execution |-> id, status |-> "running"]]
    <3>1. born \in Nat /\ id \in born + 1 .. issued
      BY <2>2 DEF BeginToolCall, ManagerTypeOK
    <3>2. id > born  BY <3>1
    <3>3. QED  BY <2>2, <3>2 DEF BeginToolCall
  <2>3. ASSUME NEW c \in Calls, NEW id \in Ids, NEW status \in {"completed", "failed"},
               EndToolCall(c, id, status)
        PROVE  /\ id > born
               /\ \/ toolCalls' = toolCalls
                  \/ toolCalls' = [toolCalls EXCEPT ![c] = [execution |-> id, status |-> status]]
    <3>1. born \in Nat /\ id \in born + 1 .. issued
      BY <2>3 DEF EndToolCall, ManagerTypeOK
    <3>2. id > born  BY <3>1
    <3>3. QED  BY <2>3, <3>2 DEF EndToolCall
  <2>4. QED  BY <2>1, <2>2, <2>3 DEF ToolCall
<1>4. ManagerTypeOK'
  BY <1>1, <1>2, <1>3 DEF ManagerTypeOK, memory, life
<1>5. RecoveredIsJudged'
  <2>1. CASE toolCalls' = toolCalls
    BY <1>1, <2>1 DEF RecoveredIsJudged, life
  <2>2. CASE toolCalls' # toolCalls
    <3>1. PICK c \in Calls, id \in Ids, status \in {"running", "completed", "failed"} :
            /\ id > born
            /\ toolCalls' = [toolCalls EXCEPT ![c] = [execution |-> id, status |-> status]]
      BY <1>3, <2>2
    <3>2. id \notin judged
      BY <3>1 DEF LivesApart, ManagerTypeOK, Ids
    <3>3. QED  BY <1>1, <3>1, <3>2 DEF RecoveredIsJudged, ManagerTypeOK, life
  <2>3. QED  BY <2>1, <2>2
<1>6. Numbered' /\ ActiveIsOwner' /\ LivesApart' /\ MemoryFirst'
  BY <1>1 DEF Numbered, ActiveIsOwner, LivesApart, MemoryFirst, memory, life
<1>7. OldestFirst' /\ KeptBlocks'
  BY <1>1 DEF OldestFirst, KeptBlocks, ActiveRows, memory, life
<1>8. GenerationsHandedOut' /\ GenerationsBounded' /\ FencedAcrossRestarts'
  BY <1>1 DEF GenerationsHandedOut, GenerationsBounded, FencedAcrossRestarts, memory, life
<1>9. QED  BY <1>4, <1>5, <1>6, <1>7, <1>8

LEMMA CrashKeeps ==
  ASSUME IInv, Crash
  PROVE  IInv'
<1> USE DEF IInv, Crash, Forget, NoRecord
<1>1. UNCHANGED disk  OBVIOUS
<1>2. ManagerTypeOK'
  <2>1. crashes' \in 0..MaxCrashes  BY ManagerAssumption DEF ManagerTypeOK
  <2>2. NoRecord \in Record  BY DEF Record, Statuses
  <2>3. records' \in [Ids -> Record]  BY <2>2
  <2>4. QED  BY <2>1, <2>3 DEF ManagerTypeOK, disk
<1>3. Numbered' /\ LivesApart'
  BY DEF Numbered, LivesApart, ManagerTypeOK, disk
<1>4. ActiveIsOwner' /\ MemoryFirst'
  BY DEF ActiveIsOwner, MemoryFirst, IsActive, ActiveStatuses
<1>5. OldestFirst' /\ KeptBlocks' /\ GenerationsHandedOut' /\ FencedAcrossRestarts'
  BY DEF OldestFirst, KeptBlocks, GenerationsHandedOut, FencedAcrossRestarts
<1>6. GenerationsBounded' /\ RecoveredIsJudged'
  BY DEF GenerationsBounded, RecoveredIsJudged, disk
<1>7. QED  BY <1>2, <1>3, <1>4, <1>5, <1>6

LEMMA RestartKeeps ==
  ASSUME IInv, Restart \/ RestartBlind
  PROVE  IInv'
<1> USE DEF IInv
<1>1. /\ phase = "down" /\ phase' \in {"recovering", "up"} /\ born' = issued
      /\ recovered' = recovered /\ attached' \in BOOLEAN /\ cut' \in cut..issued
      /\ \/ phase' = "recovering" /\ listed' = ActiveRows /\ todo' = ActiveRows
         \/ phase' = "up" /\ listed' = listed /\ todo' = todo
      /\ UNCHANGED <<memory, disk, judged, crashes, issued>>
      /\ faults' \in 0..MaxFaults
  <2>1. faults \in 0..MaxFaults /\ cut \in 0..issued /\ issued \in 0..MaxIds
    BY DEF ManagerTypeOK
  <2>2. CASE Restart  BY <2>1, <2>2 DEF Restart
  <2>3. CASE RestartBlind
    <3>1. faults' \in 0..MaxFaults  BY <2>1, <2>3, ManagerAssumption DEF RestartBlind
    <3>2. cut \in cut..issued  BY <2>1
    <3>3. QED  BY <2>3, <3>1, <3>2 DEF RestartBlind
  <2>4. QED  BY <2>2, <2>3
<1>2. /\ ~recovered /\ todo = {} /\ born \in 0..issued /\ cut \in 0..issued /\ issued \in Nat
      /\ \A id \in Ids : records[id].status = "none"
      /\ \A s \in Sessions : owner[s] = None /\ foreignActive[s] = None
  BY <1>1, ManagerAssumption DEF LivesApart, ManagerTypeOK
<1>3. \A id \in ActiveRows : id \in Ids /\ executions[id].status # "none" /\ id <= issued
  BY DEF ActiveRows, IsActive, ActiveStatuses, Numbered
<1>4. /\ ManagerTypeOK'
      /\ \A id \in listed' : id \in Ids /\ executions[id].status # "none" /\ id <= issued
  <2>1. \A id \in listed : id \in Ids /\ executions[id].status # "none" /\ id <= issued
    BY <1>2 DEF LivesApart, ManagerTypeOK, Ids
  <2>2. \A id \in listed' : id \in Ids /\ executions[id].status # "none" /\ id <= issued
    BY <1>1, <1>3, <2>1
  <2>3. todo' \subseteq listed'  BY <1>1, <1>2
  <2>4. cut' \in 0..issued' /\ born' \in 0..issued'
    BY <1>1, <1>2
  <2>5. QED  BY <1>1, <2>2, <2>3, <2>4 DEF ManagerTypeOK, memory, disk
<1>5. Numbered'
  BY <1>1, <1>2 DEF Numbered, memory, disk
<1>6. LivesApart'
  BY <1>1, <1>2, <1>4 DEF LivesApart, memory, disk, ManagerTypeOK, Ids
<1>7. ActiveIsOwner' /\ MemoryFirst'
  BY <1>1 DEF ActiveIsOwner, MemoryFirst, memory, disk
<1>8. OldestFirst'
  <2>1. CASE phase' = "recovering"
    <3>1. ActiveRows' = ActiveRows  BY <1>1 DEF ActiveRows, disk
    <3>2. QED  BY <1>1, <1>2, <2>1, <3>1 DEF OldestFirst, memory
  <2>2. CASE phase' # "recovering"  BY <2>2 DEF OldestFirst
  <2>3. QED  BY <2>1, <2>2
<1>9. KeptBlocks' /\ FencedAcrossRestarts'
  BY <1>1, <1>2 DEF KeptBlocks, FencedAcrossRestarts
<1>10. GenerationsHandedOut' /\ GenerationsBounded' /\ RecoveredIsJudged'
  BY <1>1, <1>2 DEF GenerationsHandedOut, GenerationsBounded, RecoveredIsJudged, memory, disk
<1>11. QED  BY <1>4, <1>5, <1>6, <1>7, <1>8, <1>9, <1>10

LEMMA KeepFreshKeeps ==
  ASSUME IInv, KeepFresh
  PROVE  IInv'
<1> USE DEF IInv
<1> DEFINE id == Oldest
<1>1. id \in todo /\ \A j \in todo : id <= j
  BY OldestFacts DEF KeepFresh
<1>2. /\ phase = "recovering" /\ id > cut
      /\ foreignActive' = [foreignActive EXCEPT ![executions[id].session] = id]
      /\ todo' = todo \ {id}
      /\ UNCHANGED <<records, owner, lastGeneration, executions, toolCalls, phase, attached,
                     recovered, listed, cut, born, judged, crashes, issued, faults>>
  BY DEF KeepFresh, disk
<1> HIDE DEF id
<1>3. /\ id \in Ids /\ id \in ActiveRows /\ id \in listed
      /\ executions[id].session \in Sessions
      /\ \A i \in listed : i \in Nat
  BY <1>1, <1>2, ManagerAssumption
  DEF OldestFirst, LivesApart, Numbered, ManagerTypeOK, Ids
<1>4. ManagerTypeOK'
  BY <1>2, <1>3 DEF ManagerTypeOK
<1>5. Numbered' /\ ActiveIsOwner' /\ MemoryFirst'
  BY <1>2 DEF Numbered, ActiveIsOwner, MemoryFirst
<1>6. LivesApart'
  BY <1>2 DEF LivesApart
<1>7. OldestFirst'
  <2>1. ActiveRows' = ActiveRows  BY <1>2 DEF ActiveRows
  <2>2. /\ todo \subseteq ActiveRows /\ ActiveRows \subseteq listed
        /\ \A i \in ActiveRows \ todo : i > cut
        /\ \A i \in listed \ todo, j \in todo : i < j
        /\ \A s \in Sessions :
             foreignActive[s] # None <=> \E i \in ActiveRows \ todo : executions[i].session = s
    BY <1>2 DEF OldestFirst
  <2>3. ActiveRows \ todo' = (ActiveRows \ todo) \cup {id}
    BY <1>1, <1>2, <1>3
  <2>4. \A i \in listed \ todo', j \in todo' : i < j
    <3> SUFFICES ASSUME NEW i \in listed \ todo', NEW j \in todo' PROVE i < j  OBVIOUS
    <3>1. j \in todo /\ j # id /\ id <= j /\ j \in Nat /\ id \in Nat
      BY <1>1, <1>2, <1>3, <2>2
    <3>2. CASE i = id  BY <3>1, <3>2
    <3>3. CASE i # id  BY <1>2, <2>2, <3>1, <3>3
    <3>4. QED  BY <3>2, <3>3
  <2>5. \A s \in Sessions :
          foreignActive'[s] # None <=> \E i \in ActiveRows \ todo' : executions[i].session = s
    <3> SUFFICES ASSUME NEW s \in Sessions
                 PROVE  foreignActive'[s] # None
                          <=> \E i \in ActiveRows \ todo' : executions[i].session = s
      OBVIOUS
    <3>1. id # None  BY <1>3, ManagerAssumption DEF Ids
    <3>2. CASE s = executions[id].session
      BY <1>2, <1>3, <2>3, <3>1, <3>2 DEF ManagerTypeOK
    <3>3. CASE s # executions[id].session
      <4>1. foreignActive'[s] = foreignActive[s]  BY <1>2, <3>3 DEF ManagerTypeOK
      <4>2. QED  BY <2>2, <2>3, <3>3, <4>1
    <3>4. QED  BY <3>2, <3>3
  <2>6. QED  BY <1>2, <2>1, <2>2, <2>3, <2>4, <2>5 DEF OldestFirst
<1>8. KeptBlocks' /\ GenerationsHandedOut' /\ FencedAcrossRestarts'
  BY <1>2 DEF KeptBlocks, GenerationsHandedOut, FencedAcrossRestarts
<1>9. GenerationsBounded' /\ RecoveredIsJudged'
  BY <1>2 DEF GenerationsBounded, RecoveredIsJudged
<1>10. QED  BY <1>4, <1>5, <1>6, <1>7, <1>8, <1>9

LEMMA ReclaimStaleKeeps ==
  ASSUME IInv, ReclaimStale
  PROVE  IInv'
<1> USE DEF IInv
<1> DEFINE id == Oldest
           row == [executions[id] EXCEPT !.status = "STALE",
                                         !.generation = executions[id].generation + 1]
<1>1. id \in todo /\ \A j \in todo : id <= j
  BY OldestFacts DEF ReclaimStale
<1>2. /\ phase = "recovering" /\ id <= cut
      /\ toolCalls' = UnknownOf(id)
      /\ executions' = [executions EXCEPT ![id].status = "STALE", ![id].generation = @ + 1]
      /\ foreignActive' = [foreignActive EXCEPT ![executions[id].session] = None]
      /\ judged' = judged \cup {id}
      /\ todo' = todo \ {id}
      /\ UNCHANGED <<records, owner, lastGeneration, phase, attached, recovered, listed,
                     cut, born, crashes, issued, faults>>
  BY DEF ReclaimStale
<1> HIDE DEF id
<1>3. /\ id \in Ids /\ id \in ActiveRows /\ id \in listed
      /\ executions[id].session \in Sessions /\ executions[id] \in Record
      /\ id <= born
      /\ \A i \in listed : i \in Nat
      /\ cut \in Nat
  BY <1>1, <1>2, ManagerAssumption
  DEF OldestFirst, LivesApart, Numbered, ManagerTypeOK, Ids
<1>4. /\ row \in Record /\ row.status = "STALE" /\ row.session = executions[id].session
      /\ row.generation = executions[id].generation + 1
  <2> DEFINE stale == [executions[id] EXCEPT !.status = "STALE"]
             g == executions[id].generation + 1
  <2>1. /\ stale \in Record /\ stale.status = "STALE"
        /\ stale.session = executions[id].session
    BY <1>3 DEF Record, Statuses, Terminal
  <2>2. g \in Nat  BY <1>3 DEF Record
  <2>3. row = [stale EXCEPT !.generation = g]  OBVIOUS
  <2> HIDE DEF stale, g, row
  <2>4. row \in Record /\ row.status = stale.status /\ row.session = stale.session
        /\ row.generation = g
    BY <2>1, <2>2, <2>3 DEF Record
  <2>5. QED  BY <2>1, <2>4 DEF g
<1>5. /\ \A j \in Ids : j # id => executions'[j] = executions[j]
      /\ executions'[id] = row
      /\ executions' \in [Ids -> Record]
  <2>1. executions' = [executions EXCEPT ![id] = row]
    BY <1>2, <1>3 DEF ManagerTypeOK
  <2>2. QED  BY <1>3, <1>4, <2>1 DEF ManagerTypeOK
<1> HIDE DEF row
<1>6. /\ todo \subseteq ActiveRows /\ ActiveRows \subseteq listed
      /\ \A i \in ActiveRows \ todo : i > cut
      /\ \A i \in listed \ todo, j \in todo : i < j
      /\ \A s \in Sessions :
           foreignActive[s] # None <=> \E i \in ActiveRows \ todo : executions[i].session = s
  BY <1>2 DEF OldestFirst
<1>7. \A s \in Sessions : foreignActive[s] = None
  <2>1. ASSUME NEW i \in ActiveRows \ todo PROVE FALSE
    <3>1. i > cut /\ i < id /\ i \in Nat /\ id \in Nat  BY <1>1, <1>3, <1>6
    <3>2. QED  BY <1>2, <1>3, <3>1
  <2>2. QED  BY <1>6, <2>1
<1>8. ActiveRows' = ActiveRows \ {id}
  BY <1>3, <1>4, <1>5 DEF ActiveRows, IsActive, ActiveStatuses
<1>9. foreignActive' = foreignActive
  BY <1>2, <1>3, <1>7 DEF ManagerTypeOK
<1>10. ManagerTypeOK'
  <2>1. toolCalls' \in [Calls -> [execution : Ids \cup {None},
                         status : {"none", "running", "completed", "failed", "unknown"}]]
    BY <1>2 DEF ManagerTypeOK, UnknownOf
  <2>2. QED  BY <1>2, <1>3, <1>5, <1>9, <2>1 DEF ManagerTypeOK
<1>11. Numbered'
  <2>1. executions[id].status # "none"  BY <1>3 DEF ActiveRows, IsActive, ActiveStatuses
  <2>2. \A j \in Ids : executions'[j].status # "none"
          => executions[j].status # "none" /\ executions'[j].session = executions[j].session
    BY <1>4, <1>5, <2>1
  <2>3. QED  BY <1>2, <2>2 DEF Numbered
<1>12. ActiveIsOwner'  BY <1>2 DEF ActiveIsOwner
<1>13. LivesApart'
  BY <1>2, <1>3, <1>4, <1>5 DEF LivesApart, ManagerTypeOK
<1>14. OldestFirst'
  <2>1. ActiveRows' \ todo' = ActiveRows \ todo  BY <1>1, <1>2, <1>8
  <2>2. \A i \in listed \ todo', j \in todo' : i < j
    <3> SUFFICES ASSUME NEW i \in listed \ todo', NEW j \in todo' PROVE i < j  OBVIOUS
    <3>1. j \in todo /\ j # id /\ id <= j /\ j \in Nat /\ id \in Nat
      BY <1>1, <1>2, <1>3, <1>6
    <3>2. CASE i = id  BY <3>1, <3>2
    <3>3. CASE i # id  BY <1>2, <1>6, <3>1, <3>3
    <3>4. QED  BY <3>2, <3>3
  <2>3. \A i \in ActiveRows \ todo : i \in Ids /\ i # id  BY <1>1 DEF ActiveRows
  <2>4. \A s \in Sessions :
          foreignActive'[s] # None <=> \E i \in ActiveRows' \ todo' : executions'[i].session = s
    BY <1>5, <1>6, <1>9, <2>1, <2>3
  <2>5. todo' \subseteq ActiveRows' /\ ActiveRows' \subseteq listed
    BY <1>2, <1>6, <1>8
  <2>6. QED  BY <1>2, <1>6, <2>1, <2>2, <2>4, <2>5 DEF OldestFirst
<1>15. MemoryFirst'
  BY <1>2, <1>5 DEF MemoryFirst, LivesApart
<1>16. GenerationsHandedOut' /\ KeptBlocks' /\ FencedAcrossRestarts'
  BY <1>2 DEF GenerationsHandedOut, KeptBlocks, FencedAcrossRestarts
<1>17. GenerationsBounded'
  <2>1. PICK n \in Nat : \A j \in Ids : executions[j].generation <= n
    BY DEF GenerationsBounded
  <2>2. executions[id].generation \in Nat /\ \A j \in Ids : executions[j].generation \in Nat
    BY <1>3 DEF ManagerTypeOK, Record
  <2>3. \A j \in Ids : executions'[j].generation <= n + 1
    BY <1>3, <1>4, <1>5, <2>1, <2>2
  <2>4. QED  BY <2>1, <2>3 DEF GenerationsBounded
<1>18. RecoveredIsJudged'
  BY <1>2 DEF RecoveredIsJudged, UnknownOf, ManagerTypeOK
<1>19. QED
  BY <1>10, <1>11, <1>12, <1>13, <1>14, <1>15, <1>16, <1>17, <1>18

LEMMA RecoverDoneKeeps ==
  ASSUME IInv, RecoverDone
  PROVE  IInv'
<1> USE DEF IInv
<1>1. /\ phase = "recovering" /\ todo = {} /\ phase' = "up" /\ recovered' = TRUE
      /\ lastGeneration' = [s \in Sessions |-> Lifted(s)]
      /\ UNCHANGED <<records, owner, foreignActive, executions, toolCalls, attached, listed,
                     todo, cut, born, judged, crashes, issued, faults>>
  BY DEF RecoverDone, disk
<1>2. /\ \A id \in Ids : records[id].status = "none"
      /\ \A s \in Sessions : owner[s] = None
  BY <1>1 DEF LivesApart
<1>3. \A s \in Sessions :
        /\ lastGeneration'[s] \in Nat
        /\ \A id \in listed : executions[id].session = s
             => executions[id].generation <= lastGeneration'[s]
  BY <1>1, LiftedFacts
<1>4. ManagerTypeOK'
  <2>1. lastGeneration' \in [Sessions -> Nat]  BY <1>1, LiftedFacts
  <2>2. QED  BY <1>1, <2>1 DEF ManagerTypeOK
<1>5. Numbered' /\ ActiveIsOwner' /\ MemoryFirst'
  BY <1>1 DEF Numbered, ActiveIsOwner, MemoryFirst
<1>6. LivesApart' /\ OldestFirst'
  BY <1>1 DEF LivesApart, OldestFirst
<1>7. KeptBlocks'
  <2>1. ActiveRows' = ActiveRows  BY <1>1 DEF ActiveRows
  <2>2. \A id \in ActiveRows : id <= born
    BY <1>1 DEF OldestFirst, LivesApart
  <2>3. \A s \in Sessions : foreignActive[s] # None <=> \E id \in ActiveRows : executions[id].session = s
    BY <1>1 DEF OldestFirst
  <2>4. QED  BY <1>1, <1>2, <2>1, <2>2, <2>3 DEF KeptBlocks
<1>8. GenerationsHandedOut'
  <2>1. \A id \in listed : id \in Ids /\ executions[id].session \in Sessions
    BY DEF LivesApart, Numbered, ManagerTypeOK
  <2>2. QED  BY <1>1, <1>2, <1>3, <2>1 DEF GenerationsHandedOut
<1>9. FencedAcrossRestarts'
  BY <1>1, <1>2 DEF FencedAcrossRestarts
<1>10. GenerationsBounded' /\ RecoveredIsJudged'
  BY <1>1 DEF GenerationsBounded, RecoveredIsJudged
<1>11. QED  BY <1>4, <1>5, <1>6, <1>7, <1>8, <1>9, <1>10

LEMMA RecoverFailsKeeps ==
  ASSUME IInv, RecoverFails
  PROVE  IInv'
<1> USE DEF IInv, RecoverFails, memory, disk
<1>1. ~recovered  BY DEF LivesApart
<1>2. ManagerTypeOK'
  BY ManagerAssumption DEF ManagerTypeOK
<1>3. Numbered' /\ ActiveIsOwner' /\ MemoryFirst' /\ LivesApart' /\ OldestFirst'
  BY DEF Numbered, ActiveIsOwner, MemoryFirst, LivesApart, OldestFirst
<1>4. KeptBlocks' /\ GenerationsHandedOut' /\ FencedAcrossRestarts'
  BY <1>1 DEF KeptBlocks, GenerationsHandedOut, FencedAcrossRestarts
<1>5. GenerationsBounded' /\ RecoveredIsJudged'
  BY DEF GenerationsBounded, RecoveredIsJudged
<1>6. QED  BY <1>2, <1>3, <1>4, <1>5

LEMMA InvNext == IInv /\ [ManagerNext]_managerVars => IInv'
<1> SUFFICES ASSUME IInv, [ManagerNext]_managerVars PROVE IInv'  OBVIOUS
<1>1. ASSUME NEW s \in Sessions, Admit(s) \/ Refuse(s) PROVE IInv'
  BY <1>1, AdmitKeeps, RefuseKeeps
<1>2. ASSUME NEW id \in Ids, RequestCancel(id) \/ ConfirmCancel(id) PROVE IInv'
  BY <1>2, RequestCancelKeeps, ConfirmCancelKeeps
<1>3. ASSUME NEW id \in Ids, NEW to \in {"COMPLETED", "FAILED"}, Finish(id, to) PROVE IInv'
  BY <1>3, FinishKeeps
<1>4. CASE ToolCall  BY <1>4, ToolCallKeeps
<1>5. CASE Crash  BY <1>5, CrashKeeps
<1>6. CASE Restart \/ RestartBlind  BY <1>6, RestartKeeps
<1>7. CASE KeepFresh  BY <1>7, KeepFreshKeeps
<1>8. CASE ReclaimStale  BY <1>8, ReclaimStaleKeeps
<1>9. CASE RecoverDone  BY <1>9, RecoverDoneKeeps
<1>10. CASE RecoverFails  BY <1>10, RecoverFailsKeeps
<1>11. CASE UNCHANGED managerVars
  <2> USE <1>11 DEF IInv, managerVars, memory, disk, life
  <2>1. ManagerTypeOK' /\ Numbered' /\ ActiveIsOwner' /\ LivesApart' /\ MemoryFirst'
    BY DEF ManagerTypeOK, Numbered, ActiveIsOwner, LivesApart, MemoryFirst
  <2>2. OldestFirst' /\ KeptBlocks'
    BY DEF OldestFirst, KeptBlocks, ActiveRows
  <2>3. GenerationsHandedOut' /\ GenerationsBounded' /\ FencedAcrossRestarts' /\ RecoveredIsJudged'
    BY DEF GenerationsHandedOut, GenerationsBounded, FencedAcrossRestarts, RecoveredIsJudged
  <2>4. QED  BY <2>1, <2>2, <2>3
<1>12. CASE ManagerNext
  BY <1>1, <1>2, <1>3, <1>4, <1>5, <1>6, <1>7, <1>8, <1>9, <1>10, <1>12
  DEF ManagerNext, Lease, Recovery
<1>13. QED  BY <1>11, <1>12

-----------------------------------------------------------------------------
(* The results.                                                            *)

LEMMA Invariance == ManagerSpec => []IInv
<1>1. QED  BY InvInit, InvNext, PTL DEF ManagerSpec

(* Every variable of the manager stays within its type.                    *)
THEOREM TypeCorrect == ManagerSpec => []ManagerTypeOK
<1>1. IInv => ManagerTypeOK  BY DEF IInv
<1>2. QED  BY <1>1, Invariance, PTL

(* A session never has two active executions in memory (acquire()), and    *)
(* its owner is one that has not ended.                                    *)
THEOREM OneOwner == ManagerSpec => []ActiveIsOwner
<1>1. IInv => ActiveIsOwner  BY DEF IInv
<1>2. QED  BY <1>1, Invariance, PTL

(* recover() blocks exactly the sessions that still have an active row of  *)
(* an earlier life, and nothing runs in them.                              *)
THEOREM BlockedByEarlierLife == ManagerSpec => []KeptBlocks
<1>1. IInv => KeptBlocks  BY DEF IInv
<1>2. QED  BY <1>1, Invariance, PTL

(* Generations grow over the executions of a life, and over what recover() *)
(* found, for any number of crashes.                                       *)
THEOREM Fenced == ManagerSpec => []FencedAcrossRestarts
<1>1. IInv => FencedAcrossRestarts  BY DEF IInv
<1>2. QED  BY <1>1, Invariance, PTL

(* A tool call of an execution that recover() turned STALE does not say    *)
(* running.                                                                *)
THEOREM NothingRunsJudged == ManagerSpec => []RecoveredIsJudged
<1>1. IInv => RecoveredIsJudged  BY DEF IInv
<1>2. QED  BY <1>1, Invariance, PTL

LEMMA StepKeepsEnd ==
  ASSUME IInv, [ManagerNext]_managerVars, NEW id \in Ids
  PROVE  /\ executions[id].status \in Terminal => executions'[id] = executions[id]
         /\ records[id].status \in Terminal => records'[id] \in {records[id], NoRecord}
         /\ records[id].status = "CANCEL_REQUESTED"
              => records'[id].status \in {"CANCEL_REQUESTED", "STALE", "none"}
                 /\ executions'[id].status \notin {"COMPLETED", "FAILED"}
<1> USE DEF IInv
<1> DEFINE Kept == /\ executions[id].status \in Terminal => executions'[id] = executions[id]
                   /\ records[id].status \in Terminal => records'[id] \in {records[id], NoRecord}
                   /\ records[id].status = "CANCEL_REQUESTED"
                        => records'[id].status \in {"CANCEL_REQUESTED", "STALE", "none"}
                           /\ executions'[id].status \notin {"COMPLETED", "FAILED"}
<1> SUFFICES Kept  OBVIOUS
<1>1. /\ executions[id].status \in Terminal => records[id].status \in Terminal \cup {"none"}
      /\ records[id].status = "CANCEL_REQUESTED" => executions[id].status \notin Terminal
      /\ records \in [Ids -> Record] /\ executions \in [Ids -> Record]
  BY DEF MemoryFirst, Terminal, ManagerTypeOK
<1>2. ASSUME UNCHANGED <<records, executions>> PROVE Kept
  BY <1>1, <1>2 DEF Terminal
<1>3. ASSUME NEW s \in Sessions, Admit(s) \/ Refuse(s) PROVE Kept
  <2>1. /\ issued + 1 \in Ids /\ records[issued + 1].status = "none"
        /\ executions[issued + 1].status = "none"
    BY <1>3, IssueFacts DEF Admit, Refuse
  <2>2. id # issued + 1 => records'[id] = records[id] /\ executions'[id] = executions[id]
    BY <1>1, <1>3 DEF Admit, Refuse, Persist
  <2>3. QED  BY <1>1, <2>1, <2>2 DEF Terminal
<1>4. ASSUME NEW j \in Ids, RequestCancel(j) PROVE Kept
  <2>1. j # id => records'[id] = records[id] /\ executions'[id] = executions[id]
    BY <1>1, <1>4 DEF RequestCancel, Persist
  <2>2. records[j].status = "RUNNING"
    BY <1>4 DEF RequestCancel, CanTransition
  <2>3. QED  BY <1>1, <2>1, <2>2 DEF Terminal
<1>5. ASSUME NEW j \in Ids, ConfirmCancel(j) PROVE Kept
  <2>1. j # id => records'[id] = records[id] /\ executions'[id] = executions[id]
    BY <1>1, <1>5 DEF ConfirmCancel, Persist
  <2>2. /\ records[j].status = "CANCEL_REQUESTED" /\ records'[j] = NoRecord
        /\ executions'[j].status \in {executions[j].status, "CANCELLED"}
    <3> DEFINE end == [records[j] EXCEPT !.status = "CANCELLED"]
    <3>1. Persist(j, end)  BY <1>5 DEF ConfirmCancel
    <3>2. end \in Record /\ end.status = "CANCELLED"
      BY <1>1 DEF Record, Statuses, Terminal
    <3> HIDE DEF end
    <3>3. executions'[j] \in {executions[j], end}  BY <3>1, <3>2, WriteThrough
    <3>4. records[j].status = "CANCEL_REQUESTED" /\ records'[j] = NoRecord
      BY <1>1, <1>5 DEF ConfirmCancel, CanTransition
    <3>5. QED  BY <3>2, <3>3, <3>4
  <2>3. QED  BY <1>1, <2>1, <2>2 DEF Terminal, NoRecord
<1>6. ASSUME NEW j \in Ids, NEW to \in {"COMPLETED", "FAILED"}, Finish(j, to) PROVE Kept
  <2>1. j # id => records'[id] = records[id] /\ executions'[id] = executions[id]
    BY <1>1, <1>6 DEF Finish, Persist
  <2>2. /\ records'[j].status \in {"STALE", "none"}
        /\ executions'[j].status \in {executions[j].status, Lands(j, to)}
    <3> DEFINE end == [records[j] EXCEPT !.status = Lands(j, to)]
    <3>1. /\ Persist(j, end) \/ executions' = executions
          /\ records' = [records EXCEPT ![j] =
               IF end.status = "STALE" /\ records[j].status # "STALE" THEN end ELSE NoRecord]
      BY <1>6 DEF Finish
    <3>2. end \in Record /\ end.status = Lands(j, to)
      BY <1>1, LandsFacts DEF Record, Statuses
    <3> HIDE DEF end
    <3>3. executions'[j] \in {executions[j], end}  BY <3>1, <3>2, WriteThrough
    <3>4. records'[j] = IF end.status = "STALE" /\ records[j].status # "STALE"
                        THEN end ELSE NoRecord
      BY <1>1, <3>1
    <3>5. QED  BY <3>2, <3>3, <3>4 DEF NoRecord
  <2>3. records[j].status \in Terminal
          => records'[j] = NoRecord /\ executions'[j] = executions[j]
    <3>1. ASSUME records[j].status \in Terminal
          PROVE  [records[j] EXCEPT !.status = Lands(j, to)] = records[j]
      BY <1>1, <3>1, LandsFacts DEF Record
    <3>2. QED  BY <1>1, <1>6, <3>1 DEF Finish
  <2>4. records[j].status # "none"  BY <1>6 DEF Finish
  <2>5. QED  BY <1>1, <2>1, <2>2, <2>3, <2>4, LandsFacts DEF Terminal
<1>7. CASE ToolCall
  BY <1>2, <1>7 DEF ToolCall, BeginRefused, BeginToolCall, EndToolCall, disk, memory
<1>8. CASE Crash
  BY <1>1, <1>8 DEF Crash, Forget, disk, NoRecord, Terminal
<1>9. CASE Restart \/ RestartBlind \/ KeepFresh \/ RecoverDone \/ RecoverFails
  BY <1>2, <1>9 DEF Restart, RestartBlind, KeepFresh, RecoverDone, RecoverFails, disk, memory
<1>10. CASE ReclaimStale
  <2>1. Oldest \in ActiveRows /\ records[id].status = "none"
    BY <1>10, OldestFacts DEF ReclaimStale, OldestFirst, LivesApart
  <2>2. id # Oldest => executions'[id] = executions[id]
    BY <1>1, <1>10 DEF ReclaimStale
  <2>3. executions[Oldest].status \notin Terminal
    BY <2>1 DEF ActiveRows, IsActive, ActiveStatuses, Terminal
  <2>4. QED  BY <1>10, <2>1, <2>2, <2>3 DEF ReclaimStale, Terminal
<1>11. CASE UNCHANGED managerVars
  BY <1>2, <1>11 DEF managerVars, memory, disk
<1> HIDE DEF Kept
<1>12. CASE ManagerNext
  <2>1. CASE Lease  BY <1>3, <1>4, <1>5, <1>6, <2>1 DEF Lease
  <2>2. CASE Recovery  BY <1>9, <1>10, <2>2 DEF Recovery
  <2>3. QED  BY <1>7, <1>8, <1>12, <2>1, <2>2 DEF ManagerNext
<1>13. QED  BY <1>11, <1>12

(* The end of an execution is final, in memory and on disk; a completion   *)
(* that comes late does not overtake a requested cancellation.             *)
THEOREM EndIsFinal == ManagerSpec => TerminalIsFinal
<1>1. IInv /\ [ManagerNext]_managerVars =>
        [\A id \in Ids :
           /\ executions[id].status \in Terminal => executions'[id] = executions[id]
           /\ records[id].status \in Terminal => records'[id] \in {records[id], NoRecord}
           /\ records[id].status = "CANCEL_REQUESTED"
                => records'[id].status \in {"CANCEL_REQUESTED", "STALE", "none"}
                   /\ executions'[id].status \notin {"COMPLETED", "FAILED"}]_managerVars
  BY StepKeepsEnd
<1>2. QED  BY <1>1, Invariance, PTL DEF ManagerSpec, TerminalIsFinal

=============================================================================
