---------------------- MODULE SettlementOutbox_proofs ----------------------
(* Proofs about the settlement delivery ledger.                            *)
EXTENDS SettlementOutbox, NaturalsInduction, WellFoundedInduction, TLAPS

USE DEF DeliveryState, Terminal, RowIds, Clients

-----------------------------------------------------------------------------
(* The inductive invariant: besides its type and the uniqueness of live    *)
(* rows under the index, what the control state of a client says of its    *)
(* key, and that ids are never handed out twice.                           *)

KeyKnown ==
  \A c \in Clients : client[c].pc \in {"insert", "prune", "reread", "claim"} => client[c].key \in Keys

VerdictKnown ==
  \A c \in Clients : /\ client[c].verdict = "abandon" => c \in Replayers
                     /\ client[c].pc = "mark" => client[c].verdict \in Verdicts

IdsUsed == \A i \in Rows : i <= lastId

IInv == TypeOK /\ LiveRowUnique /\ KeyKnown /\ VerdictKnown /\ IdsUsed

-----------------------------------------------------------------------------
(* What the operators on the table return.                                 *)

LEMMA WriteStateType ==
  ASSUME TypeOK, NEW i, NEW s \in DeliveryState
  PROVE  /\ WriteState(i, s) \in [Rows -> Row]
         /\ DOMAIN WriteState(i, s) = Rows
BY DEF TypeOK, WriteState, Live, Rows, Row

LEMMA ClaimRowType ==
  ASSUME TypeOK, NEW i
  PROVE  /\ ClaimRow(i) \in [Rows -> Row]
         /\ DOMAIN ClaimRow(i) = Rows
<1>1. CASE Claimable(i)
  <2>1. i \in Rows /\ outbox[i] \in Row /\ outbox[i].attempts + 1 \in 0..MAX_DELIVERY_ATTEMPTS
    BY <1>1, OutboxAssumption DEF TypeOK, Claimable, Rows, Row
  <2>2. QED  BY <1>1, <2>1 DEF TypeOK, ClaimRow, Rows, Row
<1>2. CASE ~Claimable(i)
  BY <1>2 DEF ClaimRow, TypeOK, Rows
<1>3. QED  BY <1>1, <1>2

LEMMA LookedBackType ==
  ASSUME TypeOK, NEW i, NEW granted
  PROVE  /\ LookedBack(i, granted) \in [Rows -> Row]
         /\ DOMAIN LookedBack(i, granted) = Rows
BY WriteStateType DEF LookedBack, TypeOK, Rows

\* A nonempty set of numbers up to n has a greatest element.
LEMMA Greatest ==
  ASSUME NEW n \in Nat, NEW S, S \subseteq 0..n, S # {}
  PROVE  \E i \in S : \A j \in S : j <= i
<1> DEFINE below == {n - i : i \in S}
<1>1. below \subseteq Nat
  <2>1. \A i \in S : n - i \in Nat  OBVIOUS
  <2>2. QED  BY <2>1
<1>2. below # {}  OBVIOUS
<1> HIDE DEF below
<1>3. IsWellFoundedOn(OpToRel(<, Nat), Nat)  BY NatLessThanWellFounded
<1>4. PICK m \in below : \A d \in below : <<d, m>> \notin OpToRel(<, Nat)
  BY <1>1, <1>2, <1>3, WFMin
<1>5. \A d \in below : ~(d < m)  BY <1>1, <1>4 DEF OpToRel
<1>6. PICK i \in S : m = n - i  BY DEF below
<1>7. ASSUME NEW j \in S PROVE j <= i
  <2>1. n - j \in below  BY DEF below
  <2>2. ~(n - j < n - i)  BY <1>5, <1>6, <2>1
  <2>3. i \in Int /\ j \in Int  OBVIOUS
  <2>4. QED  BY <2>2, <2>3
<1>8. QED  BY <1>7

LEMMA LatestLiveType ==
  ASSUME TypeOK, NEW k
  PROVE  /\ LatestLive(k) \in 0..MaxRowId
         /\ LiveRowsOf(k) # {} => LatestLive(k) \in LiveRowsOf(k)
         /\ \A i \in LiveRowsOf(k) : i <= LatestLive(k)
<1>1. CASE LiveRowsOf(k) = {}
  BY <1>1, OutboxAssumption DEF LatestLive
<1>2. CASE LiveRowsOf(k) # {}
  <2>1. LiveRowsOf(k) \subseteq 0..MaxRowId  BY OutboxAssumption DEF LiveRowsOf, TypeOK, Rows
  <2>2. \E i \in LiveRowsOf(k) : \A j \in LiveRowsOf(k) : j <= i
    BY <1>2, <2>1, Greatest, OutboxAssumption
  <2>3. QED  BY <1>2, <2>1, <2>2 DEF LatestLive
<1>3. QED  BY <1>1, <1>2

LEMMA PrunedType ==
  ASSUME NEW S \in SUBSET RowIds, NEW rows \in [S -> Row]
  PROVE  /\ Pruned(rows) \in [Kept(rows) -> Row]
         /\ DOMAIN Pruned(rows) = Kept(rows)
         /\ Kept(rows) \subseteq S
  BY DEF Pruned, Kept, Row

\* prune() makes no row live and changes no key.
LEMMA PrunedLive ==
  ASSUME NEW S \in SUBSET RowIds, NEW rows \in [S -> Row], NEW i \in Kept(rows)
  PROVE  /\ Pruned(rows)[i].key = rows[i].key
         /\ Pruned(rows)[i].attempts = rows[i].attempts
         /\ rows[i].state \in Terminal => Pruned(rows)[i].state = rows[i].state
         /\ Pruned(rows)[i].state # rows[i].state =>
              /\ Pruned(rows)[i].state = "dropped"
              /\ rows[i].attempts = MAX_DELIVERY_ATTEMPTS
<1>1. i \in S /\ rows[i] \in Row  BY PrunedType
<1>2. Pruned(rows)[i] = IF rows[i].state = "failed" /\ rows[i].attempts >= MAX_DELIVERY_ATTEMPTS
                        THEN [rows[i] EXCEPT !.state = "dropped", !.stale = FALSE]
                        ELSE rows[i]
  BY DEF Pruned
<1>3. QED  BY <1>1, <1>2, OutboxAssumption DEF Row

-----------------------------------------------------------------------------
(* The invariant holds at the start and every step keeps it.               *)

LEMMA IdleType == Idle \in Client
  BY OutboxAssumption DEF Idle, Client, Verdicts

LEMMA InvInit == Init => IInv
<1>1. SUFFICES ASSUME Init PROVE IInv  OBVIOUS
<1>2. TypeOK
  <2>1. indexed \in BOOLEAN  BY <1>1 DEF Init, IndexMade
  <2>2. QED  BY <1>1, <2>1, IdleType, OutboxAssumption DEF Init, TypeOK
<1>3. LiveRowUnique /\ IdsUsed  BY <1>1 DEF Init, LiveRowUnique, IdsUsed, Rows
<1>4. KeyKnown /\ VerdictKnown  BY <1>1 DEF Init, Idle, KeyKnown, VerdictKnown
<1>5. QED  BY <1>2, <1>3, <1>4 DEF IInv

\* A client that gets the record r.
LEMMA ClientMoves ==
  ASSUME TypeOK, KeyKnown, VerdictKnown,
         NEW c \in Clients, NEW r \in Client,
         r.pc \in {"insert", "prune", "reread", "claim"} => r.key \in Keys,
         r.verdict = "abandon" => c \in Replayers,
         r.pc = "mark" => r.verdict \in Verdicts,
         client' = [client EXCEPT ![c] = r]
  PROVE  /\ client' \in [Clients -> Client]
         /\ KeyKnown'
         /\ VerdictKnown'
  BY DEF TypeOK, KeyKnown, VerdictKnown

\* A step that adds no row and makes none live keeps the live rows unique.
LEMMA RowsShrink ==
  ASSUME LiveRowUnique, IdsUsed,
         DOMAIN outbox' \subseteq Rows,
         \A i \in DOMAIN outbox' :
           /\ outbox'[i].key = outbox[i].key
           /\ outbox'[i].state \notin Terminal => outbox[i].state \notin Terminal,
         lastId' = lastId, indexed' => indexed
  PROVE  LiveRowUnique' /\ IdsUsed'
  BY DEF LiveRowUnique, IdsUsed, Live, Rows

LEMMA WriteStateShrinks ==
  ASSUME TypeOK, NEW i, NEW s \in DeliveryState, outbox' = WriteState(i, s)
  PROVE  /\ DOMAIN outbox' \subseteq Rows
         /\ \A j \in DOMAIN outbox' :
              /\ outbox'[j].key = outbox[j].key
              /\ outbox'[j].attempts = outbox[j].attempts
              /\ outbox'[j].state \notin Terminal => outbox[j].state \notin Terminal
              /\ outbox[j].state \in Terminal => outbox'[j].state = outbox[j].state
              /\ outbox'[j].state # outbox[j].state => j = i /\ outbox'[j].state = s
  BY DEF TypeOK, WriteState, Live, Rows, Row

LEMMA ClaimRowShrinks ==
  ASSUME TypeOK, NEW i, outbox' = ClaimRow(i)
  PROVE  /\ DOMAIN outbox' \subseteq Rows
         /\ \A j \in DOMAIN outbox' :
              /\ outbox'[j].key = outbox[j].key
              /\ outbox'[j].state \notin Terminal => outbox[j].state \notin Terminal
              /\ outbox[j].state \in Terminal =>
                   outbox'[j].state = outbox[j].state /\ outbox'[j].attempts = outbox[j].attempts
              /\ outbox'[j].state = "dropped" => outbox[j].state = "dropped"
<1>1. CASE Claimable(i)
  BY <1>1, OutboxAssumption DEF TypeOK, ClaimRow, Claimable, Rows, Row
<1>2. CASE ~Claimable(i)
  BY <1>2 DEF ClaimRow, TypeOK, Rows
<1>3. QED  BY <1>1, <1>2

LEMMA LookedBackShrinks ==
  ASSUME TypeOK, NEW i, NEW granted, outbox' = LookedBack(i, granted)
  PROVE  /\ DOMAIN outbox' \subseteq Rows
         /\ \A j \in DOMAIN outbox' :
              /\ outbox'[j].key = outbox[j].key
              /\ outbox'[j].state \notin Terminal => outbox[j].state \notin Terminal
              /\ outbox[j].state \in Terminal =>
                   outbox'[j].state = outbox[j].state /\ outbox'[j].attempts = outbox[j].attempts
              /\ outbox'[j].state = "dropped" /\ outbox[j].state \notin Terminal =>
                   outbox[j].attempts = MAX_DELIVERY_ATTEMPTS
<1>1. CASE ~granted /\ Exhausted(i)
  <2>1. outbox' = WriteState(i, "dropped")  BY <1>1 DEF LookedBack
  <2>2. outbox[i].attempts = MAX_DELIVERY_ATTEMPTS
    BY <1>1, OutboxAssumption DEF Exhausted, TypeOK, Rows, Row
  <2>3. QED  BY <2>1, <2>2, WriteStateShrinks
<1>2. CASE ~(~granted /\ Exhausted(i))
  BY <1>2 DEF LookedBack, TypeOK, Rows
<1>3. QED  BY <1>1, <1>2

LEMMA PruneShrinks ==
  ASSUME TypeOK, outbox' = Pruned(outbox)
  PROVE  /\ DOMAIN outbox' = Kept(outbox) /\ Kept(outbox) \subseteq Rows
         /\ outbox' \in [DOMAIN outbox' -> Row]
         /\ \A j \in DOMAIN outbox' :
              /\ outbox'[j].key = outbox[j].key
              /\ outbox'[j].attempts = outbox[j].attempts
              /\ outbox'[j].state \notin Terminal => outbox[j].state \notin Terminal
              /\ outbox[j].state \in Terminal => outbox'[j].state = outbox[j].state
              /\ outbox'[j].state = "dropped" /\ outbox[j].state \notin Terminal =>
                   outbox[j].attempts = MAX_DELIVERY_ATTEMPTS
<1>1. Rows \in SUBSET RowIds /\ outbox \in [Rows -> Row]  BY DEF TypeOK, Rows
<1>2. /\ DOMAIN outbox' = Kept(outbox) /\ Kept(outbox) \subseteq Rows
      /\ outbox' \in [Kept(outbox) -> Row]
  BY <1>1, PrunedType
<1>3. QED  BY <1>1, <1>2, PrunedLive

\* What a start makes of the table: of the live rows of a key only the newest stays so.
LEMMA CollapsedShrinks ==
  ASSUME TypeOK, outbox' = Collapsed
  PROVE  /\ DOMAIN outbox' = Rows /\ outbox' \in [Rows -> Row]
         /\ \A j \in Rows :
              /\ outbox'[j].key = outbox[j].key
              /\ outbox'[j].attempts = outbox[j].attempts
              /\ outbox'[j].state \notin Terminal =>
                   outbox[j].state \notin Terminal /\ LatestLive(outbox[j].key) = j
              /\ outbox[j].state \in Terminal => outbox'[j].state = outbox[j].state
              /\ outbox'[j].state # outbox[j].state =>
                   /\ outbox'[j].state = "dropped" /\ Live(j)
                   /\ LatestLive(outbox[j].key) # j
  BY DEF TypeOK, Collapsed, Live, Rows, Row

LEMMA InvNext == IInv /\ [Next]_outboxVars => IInv'
<1> SUFFICES ASSUME IInv, [Next]_outboxVars PROVE IInv'
  OBVIOUS
<1> USE DEF IInv
<1>a. /\ \A c \in Clients : client[c] \in Client
      /\ Rows \in SUBSET RowIds
      /\ outbox \in [Rows -> Row]
      /\ lastId \in 0..MaxRowId /\ MaxRowId \in Nat
  BY OutboxAssumption DEF TypeOK, Rows
<1>idle. \A c \in Clients : client' = [client EXCEPT ![c] = Idle] =>
           client' \in [Clients -> Client] /\ KeyKnown' /\ VerdictKnown'
  <2> TAKE c \in Clients
  <2> HAVE client' = [client EXCEPT ![c] = Idle]
  <2>1. Idle.pc \notin {"insert", "prune", "reread", "claim"} /\ Idle.verdict # "abandon" /\ Idle.pc # "mark"
    BY DEF Idle
  <2>2. QED  BY <2>1, IdleType, ClientMoves
\* A step that leaves the table alone has only its client to answer for.
<1>still. ASSUME UNCHANGED <<outbox, indexed, lastId>>,
                 client' \in [Clients -> Client] /\ KeyKnown' /\ VerdictKnown'
          PROVE  IInv'
  BY <1>still DEF TypeOK, LiveRowUnique, IdsUsed, Rows, Live
<1>1. ASSUME NEW c \in Clients, NEW k \in Keys, EnqueueCheck(c, k)
      PROVE  IInv'
  <2> DEFINE r == [Idle EXCEPT !.pc  = IF LatestLive(k) = 0 THEN "insert" ELSE "claim",
                               !.key = k, !.id = LatestLive(k)]
  <2>1. r \in Client /\ r.key \in Keys /\ r.verdict # "abandon" /\ r.pc # "mark"
    BY LatestLiveType, OutboxAssumption DEF Idle, Client, Verdicts
  <2>2. client' = [client EXCEPT ![c] = r] /\ UNCHANGED <<outbox, indexed, lastId>>
    BY <1>1 DEF EnqueueCheck
  <2> HIDE DEF r
  <2>3. QED  BY <2>1, <2>2, <1>still, ClientMoves
<1>2. ASSUME NEW c \in Clients, EnqueueInsert(c)
      PROVE  IInv'
  <2> DEFINE id == lastId + 1
             r  == [client[c] EXCEPT !.pc = "prune", !.id = id]
             k  == client[c].key
             S  == Rows \cup {id}
  <2>1. client[c] \in Client /\ k \in Keys /\ id \in RowIds /\ id \notin Rows
    BY <1>2, <1>a DEF EnqueueInsert, KeyKnown, IdsUsed
  <2>2. r \in Client /\ r.key \in Keys /\ r.verdict = client[c].verdict /\ r.pc = "prune"
    <3>1. id \in 0..MaxRowId  BY <2>1, <1>a
    <3> HIDE DEF id
    <3>2. QED  BY <2>1, <3>1 DEF Client
  <2>3. /\ client' = [client EXCEPT ![c] = r]
        /\ outbox' = [i \in S |-> IF i = id THEN NewRow(k) ELSE outbox[i]]
        /\ lastId' = id
    BY <1>2 DEF EnqueueInsert
  <2>4. client' \in [Clients -> Client] /\ KeyKnown' /\ VerdictKnown'
    <3> HIDE DEF r
    <3>1. r.verdict = "abandon" => c \in Replayers  BY <2>2 DEF VerdictKnown
    <3>2. QED  BY <2>2, <2>3, <3>1, ClientMoves
  <2>5. NewRow(k) \in Row /\ NewRow(k).key = k
    BY <2>1, OutboxAssumption DEF NewRow, Row
  <2>6. /\ S \in SUBSET RowIds /\ outbox' \in [S -> Row] /\ DOMAIN outbox' = S
        /\ outbox'[id].key = k
        /\ \A i \in S : i # id => i \in Rows /\ outbox'[i] = outbox[i]
    BY <1>a, <2>1, <2>3, <2>5
  <2>7. id \in Nat /\ \A i \in S : i <= id  BY <2>1, <1>a DEF IdsUsed
  <2>8. TypeOK'  BY <1>2, <2>1, <2>3, <2>4, <2>6 DEF TypeOK, EnqueueInsert
  <2>9. IdsUsed'  BY <2>3, <2>6, <2>7 DEF IdsUsed, Rows
  <2>10. /\ indexed' = indexed
         /\ indexed => \A i \in Rows : Live(i) => outbox[i].key # k
    BY <1>2 DEF EnqueueInsert, IndexRejects, LiveRowsOf
  <2>11. LiveRowUnique'
    BY <2>6, <2>10 DEF LiveRowUnique, Live, Rows
  <2>12. QED  BY <2>4, <2>8, <2>9, <2>11
<1>2b. ASSUME NEW c \in Clients, EnqueuePrune(c)
       PROVE  IInv'
  <2> DEFINE r == [client[c] EXCEPT !.pc = "claim"]
  <2>1. client' = [client EXCEPT ![c] = r] /\ outbox' = Pruned(outbox) /\ lastId' = lastId /\ indexed' = indexed
    BY <1>2b DEF EnqueuePrune
  <2>2. r \in Client /\ r.key \in Keys /\ r.pc # "mark" /\ (r.verdict = "abandon" => c \in Replayers)
    BY <1>2b, <1>a DEF EnqueuePrune, Client, KeyKnown, VerdictKnown
  <2> HIDE DEF r
  <2>3. client' \in [Clients -> Client] /\ KeyKnown' /\ VerdictKnown'
    BY <2>1, <2>2, ClientMoves
  <2>4. LiveRowUnique' /\ IdsUsed'
    BY <2>1, RowsShrink, PruneShrinks
  <2>5. TypeOK'
    BY <2>1, <2>3, <1>a, PruneShrinks DEF TypeOK
  <2>6. QED  BY <2>3, <2>4, <2>5
<1>3. ASSUME NEW c \in Clients, EnqueueRejected(c)
      PROVE  IInv'
  <2> DEFINE r == [client[c] EXCEPT !.pc = "reread"]
  <2>1. client' = [client EXCEPT ![c] = r] /\ UNCHANGED <<outbox, indexed, lastId>>
    BY <1>3 DEF EnqueueRejected
  <2>2. r \in Client /\ r.key \in Keys /\ r.pc # "mark" /\ (r.verdict = "abandon" => c \in Replayers)
    BY <1>3, <1>a DEF EnqueueRejected, Client, KeyKnown, VerdictKnown
  <2> HIDE DEF r
  <2>3. QED  BY <2>1, <2>2, <1>still, ClientMoves
<1>4. ASSUME NEW c \in Clients, EnqueueReread(c)
      PROVE  IInv'
  <2> DEFINE r == [client[c] EXCEPT !.pc = "claim", !.id = LatestLive(client[c].key)]
  <2>1. client' = [client EXCEPT ![c] = r] /\ UNCHANGED <<outbox, indexed, lastId>>
    BY <1>4 DEF EnqueueReread
  <2>2. r \in Client /\ r.key \in Keys /\ r.pc # "mark" /\ (r.verdict = "abandon" => c \in Replayers)
    BY <1>4, <1>a, LatestLiveType DEF EnqueueReread, Client, KeyKnown, VerdictKnown
  <2> HIDE DEF r
  <2>3. QED  BY <2>1, <2>2, <1>still, ClientMoves
<1>5. ASSUME NEW c \in Clients, Claim(c)
      PROVE  IInv'
  <2> DEFINE r == [client[c] EXCEPT !.pc = "look", !.granted = Claimable(client[c].id)]
  <2>1. client' = [client EXCEPT ![c] = r] /\ outbox' = ClaimRow(client[c].id) /\ lastId' = lastId /\ indexed' = indexed
    BY <1>5 DEF Claim
  <2>2. r \in Client /\ r.pc = "look" /\ (r.verdict = "abandon" => c \in Replayers)
    <3>1. Claimable(client[c].id) \in BOOLEAN  BY DEF Claimable
    <3>2. QED  BY <3>1, <1>a DEF Client, VerdictKnown
  <2> HIDE DEF r
  <2>3. client' \in [Clients -> Client] /\ KeyKnown' /\ VerdictKnown'
    BY <2>1, <2>2, ClientMoves
  <2>4. LiveRowUnique' /\ IdsUsed'
    BY <2>1, RowsShrink, ClaimRowShrinks
  <2>5. TypeOK'
    BY <2>1, <2>3, ClaimRowType DEF TypeOK, Rows
  <2>6. QED  BY <2>3, <2>4, <2>5
<1>6. ASSUME NEW c \in Clients, ReplayList(c)
      PROVE  IInv'
  <2> DEFINE r == [Idle EXCEPT !.pc = "replay", !.todo = Replayable]
  <2>1. client' = [client EXCEPT ![c] = r] /\ UNCHANGED <<outbox, indexed, lastId>>
    BY <1>6 DEF ReplayList
  <2>2. r \in Client /\ r.pc = "replay" /\ r.verdict = "none"
    <3>1. Replayable \in SUBSET RowIds  BY <1>a DEF Replayable
    <3>2. QED  BY <3>1, IdleType DEF Idle, Client
  <2> HIDE DEF r
  <2>3. QED  BY <2>1, <2>2, <1>still, ClientMoves
<1>7. ASSUME NEW c \in Clients, ReplayClaim(c)
      PROVE  IInv'
  <2>1. PICK i \in client[c].todo :
          /\ outbox' = ClaimRow(i)
          /\ lastId' = lastId /\ indexed' = indexed
          /\ client' = [client EXCEPT ![c] =
               [Idle EXCEPT !.pc      = "look",
                            !.key     = IF Claimable(i) THEN outbox[i].key ELSE None,
                            !.id      = i,
                            !.granted = Claimable(i),
                            !.todo    = client[c].todo \ {i}]]
    BY <1>7 DEF ReplayClaim
  <2> DEFINE r == [Idle EXCEPT !.pc      = "look",
                               !.key     = IF Claimable(i) THEN outbox[i].key ELSE None,
                               !.id      = i,
                               !.granted = Claimable(i),
                               !.todo    = client[c].todo \ {i}]
  <2>2. r \in Client /\ r.pc = "look" /\ r.verdict = "none"
    <3>1. i \in RowIds /\ client[c].todo \in SUBSET RowIds  BY <1>a DEF Client
    <3>2. Claimable(i) \in BOOLEAN /\ (Claimable(i) => outbox[i].key \in Keys)
      BY <1>a DEF Claimable, Row
    <3>3. i \in 0..MaxRowId /\ client[c].todo \ {i} \in SUBSET RowIds  BY <3>1, <1>a
    <3>4. (IF Claimable(i) THEN outbox[i].key ELSE None) \in Keys \cup {None}  BY <3>2
    <3>5. QED  BY <3>2, <3>3, <3>4 DEF Idle, Client
  <2>3. client' = [client EXCEPT ![c] = r]  BY <2>1
  <2> HIDE DEF r
  <2>4. client' \in [Clients -> Client] /\ KeyKnown' /\ VerdictKnown'
    BY <2>2, <2>3, ClientMoves
  <2>5. LiveRowUnique' /\ IdsUsed'
    BY <2>1, RowsShrink, ClaimRowShrinks
  <2>6. TypeOK'
    BY <2>1, <2>4, ClaimRowType DEF TypeOK, Rows
  <2>7. QED  BY <2>4, <2>5, <2>6
<1>8. ASSUME NEW c \in Clients, ReplayEnd(c)
      PROVE  IInv'
  BY <1>8, <1>idle, <1>still DEF ReplayEnd
<1>8b. ASSUME NEW c \in Clients, LookBack(c)
       PROVE  IInv'
  <2> DEFINE r == [client[c] EXCEPT !.pc = "deliver"]
  <2>1. r \in Client /\ r.pc = "deliver" /\ (r.verdict = "abandon" => c \in Replayers)
    BY <1>a DEF Client, VerdictKnown
  <2>2. /\ RowDone(c) \in Client
        /\ RowDone(c).pc \in {"idle", "replay"}
        /\ RowDone(c).verdict = "none"
    BY <1>a, IdleType DEF RowDone, Idle, Client
  <2>3. /\ \/ client' = [client EXCEPT ![c] = r]
           \/ client' = [client EXCEPT ![c] = RowDone(c)]
        /\ outbox' = LookedBack(client[c].id, client[c].granted)
        /\ lastId' = lastId /\ indexed' = indexed
    BY <1>8b DEF LookBack
  <2> HIDE DEF r
  <2>4. client' \in [Clients -> Client] /\ KeyKnown' /\ VerdictKnown'
    BY <2>1, <2>2, <2>3, ClientMoves
  <2>5. LiveRowUnique' /\ IdsUsed'
    BY <2>3, RowsShrink, LookedBackShrinks
  <2>6. TypeOK'
    BY <2>3, <2>4, LookedBackType DEF TypeOK, Rows
  <2>7. QED  BY <2>4, <2>5, <2>6
<1>9. ASSUME NEW c \in Clients, NEW v \in Verdicts, Deliver(c, v)
      PROVE  IInv'
  <2> DEFINE r == [client[c] EXCEPT !.pc = "mark", !.verdict = v]
  <2>1. client' = [client EXCEPT ![c] = r] /\ UNCHANGED <<outbox, indexed, lastId>>
    BY <1>9 DEF Deliver
  <2>2. r \in Client /\ r.pc = "mark" /\ r.verdict \in Verdicts
      /\ (r.verdict = "abandon" => c \in Replayers)
    BY <1>9, <1>a DEF Deliver, Client, Verdicts
  <2> HIDE DEF r
  <2>3. QED  BY <2>1, <2>2, <1>still, ClientMoves
<1>10. ASSUME NEW c \in Clients, Mark(c)
       PROVE  IInv'
  <2>1. client[c].verdict \in Verdicts => StateOf(client[c].verdict) \in DeliveryState
    BY DEF Verdicts, StateOf
  <2> DEFINE s == StateOf(client[c].verdict)
             r == RowDone(c)
  <2>2. client' = [client EXCEPT ![c] = r] /\ outbox' = WriteState(client[c].id, s) /\ lastId' = lastId /\ indexed' = indexed
    BY <1>10 DEF Mark
  <2>3. r \in Client /\ r.pc \in {"idle", "replay"} /\ r.verdict = "none"
    BY <1>a, IdleType DEF RowDone, Idle, Client
  <2>4. s \in DeliveryState
    BY <1>10, <2>1 DEF Mark, VerdictKnown
  <2> HIDE DEF r, s
  <2>5. client' \in [Clients -> Client] /\ KeyKnown' /\ VerdictKnown'
    BY <2>2, <2>3, ClientMoves
  <2>6. LiveRowUnique' /\ IdsUsed'
    BY <2>2, <2>4, RowsShrink, WriteStateShrinks
  <2>7. TypeOK'
    BY <2>2, <2>4, <2>5, WriteStateType DEF TypeOK, Rows
  <2>8. QED  BY <2>5, <2>6, <2>7
<1>11. ASSUME NEW c \in Clients, StorageFails(c)
       PROVE  IInv'
  <2> DEFINE id == IF client[c].pc \in {"claim", "look"} THEN client[c].id ELSE 0
             r  == [client[c] EXCEPT !.pc = "deliver", !.id = id]
  <2>1. \/ client' = [client EXCEPT ![c] = r]
        \/ client' = [client EXCEPT ![c] = Idle]
    BY <1>11 DEF StorageFails
  <2>2. id \in 0..MaxRowId  BY <1>a DEF Client
  <2> HIDE DEF id
  <2>3. r \in Client /\ r.pc = "deliver" /\ (r.verdict = "abandon" => c \in Replayers)
    BY <1>a, <2>2 DEF Client, VerdictKnown
  <2>4. UNCHANGED <<outbox, indexed, lastId>>  BY <1>11 DEF StorageFails
  <2> HIDE DEF r
  <2>5. QED  BY <2>1, <2>3, <2>4, <1>idle, <1>still, ClientMoves
<1>12. ASSUME NEW i \in RowIds, ClaimGoesStale(i) \/ RowAges(i)
       PROVE  IInv'
  <2>1. /\ outbox' \in [Rows -> Row]
        /\ \A j \in Rows : outbox'[j].key = outbox[j].key /\ outbox'[j].state = outbox[j].state
    <3>1. CASE ClaimGoesStale(i)
      BY <1>a, <3>1 DEF ClaimGoesStale, Row
    <3>2. CASE RowAges(i)
      <4>1. i \in Rows /\ outbox[i].age + 1 \in 0..2  BY <1>a, <3>2 DEF RowAges, Row
      <4>2. QED  BY <1>a, <3>2, <4>1 DEF RowAges, Row
    <3>3. QED  BY <1>12, <3>1, <3>2
  <2>2. UNCHANGED <<indexed, lastId, client>>  BY <1>12 DEF ClaimGoesStale, RowAges
  <2>3. LiveRowUnique' /\ IdsUsed'  BY <2>1, <2>2, RowsShrink
  <2>4. TypeOK' /\ KeyKnown' /\ VerdictKnown'
    BY <2>1, <2>2 DEF TypeOK, Rows, KeyKnown, VerdictKnown
  <2>5. QED  BY <2>3, <2>4
<1>13. ASSUME Crash
       PROVE  IInv'
  <2>1. client' \in [Clients -> Client] /\ KeyKnown' /\ VerdictKnown'
    <3>1. \A c \in Clients : client'[c] = Idle  BY <1>13 DEF Crash
    <3>2. client' \in [Clients -> Client]  BY <1>13, IdleType DEF Crash
    <3>3. QED  BY <3>1, <3>2 DEF KeyKnown, VerdictKnown, Idle
  <2>2. CASE outbox' = Collapsed /\ indexed' \in IndexMade
    <3>1. lastId' = lastId /\ indexed' \in BOOLEAN
      BY <1>13, <2>2 DEF Crash, IndexMade
    <3>2. TypeOK'
      BY <2>1, <2>2, <3>1, <1>a, CollapsedShrinks DEF TypeOK
    <3>3. LiveRowUnique'
      <4>1. \A j \in Rows : outbox'[j].state \notin Terminal => LatestLive(outbox'[j].key) = j
        BY <2>2, CollapsedShrinks
      <4>2. DOMAIN outbox' = Rows  BY <2>2, CollapsedShrinks
      <4>3. QED  BY <4>1, <4>2 DEF LiveRowUnique, Live, Rows
    <3>4. IdsUsed'
      BY <2>2, <3>1, CollapsedShrinks DEF IdsUsed, Rows
    <3>5. QED  BY <2>1, <3>2, <3>3, <3>4
  <2>3. CASE UNCHANGED <<outbox, indexed>>
    <3>1. UNCHANGED <<outbox, indexed, lastId>>  BY <1>13, <2>3 DEF Crash
    <3>2. TypeOK' /\ LiveRowUnique' /\ IdsUsed'
      BY <2>1, <3>1 DEF TypeOK, LiveRowUnique, IdsUsed, Live, Rows
    <3>3. QED  BY <2>1, <3>2
  <2>4. QED  BY <1>13, <2>2, <2>3 DEF Crash
<1>14. ASSUME UNCHANGED outboxVars
       PROVE  IInv'
  BY <1>14 DEF outboxVars, TypeOK, LiveRowUnique, KeyKnown, VerdictKnown, IdsUsed, Rows, Live
<1>15. QED
  BY <1>1, <1>2, <1>2b, <1>3, <1>4, <1>5, <1>6, <1>7, <1>8, <1>8b, <1>9, <1>10, <1>11, <1>12, <1>13, <1>14
  DEF Next, ClientStep

\* The inductive invariant holds in every state the ledger can reach.
LEMMA Inv == Spec => []IInv
  BY InvInit, InvNext, PTL DEF Spec

\* The table and the clients never leave their types, whatever statement fails and
\* whenever the process dies.
THEOREM TypeCorrect == Spec => []TypeOK
  BY Inv, PTL DEF IInv

\* In a process that has the unique index two live rows never share an idempotency
\* key, for any number of notifiers, replayers and keys: neither the gap between an
\* enqueue's SELECT and its INSERT nor a crash between any two statements lets a
\* second one in, nor does what a process without the index wrote before.
THEOREM OneLiveRow == Spec => []LiveRowUnique
  BY Inv, PTL DEF IInv

-----------------------------------------------------------------------------
(* What a step may do to a row.  Six kinds of action write the table:     *)
(* INSERT, prune(), the UPDATE and the look-back of claim(), writeState(); *)
(* and a start.                                                            *)

\* Each step leaves the table alone, or is one of its writers.
LEMMA Writers ==
  ASSUME IInv, [Next]_outboxVars
  PROVE  \/ UNCHANGED outbox
         \/ \E c \in Clients : EnqueueInsert(c)
         \/ outbox' = Pruned(outbox)
         \/ \E i : outbox' = ClaimRow(i)
         \/ \E i, granted : outbox' = LookedBack(i, granted)
         \/ \E c \in Clients :
              /\ client[c].verdict \in Verdicts
              /\ outbox' = WriteState(client[c].id, StateOf(client[c].verdict))
         \/ \E i \in RowIds : ClaimGoesStale(i) \/ RowAges(i)
         \/ outbox' = Collapsed
<1>1. ASSUME NEW c \in Clients, ClientStep(c)
      PROVE  \/ UNCHANGED outbox
             \/ EnqueueInsert(c)
             \/ outbox' = Pruned(outbox)
             \/ \E i : outbox' = ClaimRow(i)
             \/ \E i, granted : outbox' = LookedBack(i, granted)
             \/ /\ client[c].verdict \in Verdicts
                /\ outbox' = WriteState(client[c].id, StateOf(client[c].verdict))
  <2>1. CASE Mark(c)  BY <2>1 DEF Mark, IInv, VerdictKnown
  <2>2. CASE ReplayClaim(c)  BY <2>2 DEF ReplayClaim
  <2>3. CASE Claim(c)  BY <2>3 DEF Claim
  <2>4. CASE LookBack(c)  BY <2>4 DEF LookBack
  <2>5. CASE EnqueuePrune(c)  BY <2>5 DEF EnqueuePrune
  <2>6. CASE ~Mark(c) /\ ~ReplayClaim(c) /\ ~Claim(c) /\ ~LookBack(c) /\ ~EnqueuePrune(c)
    BY <1>1, <2>6 DEF ClientStep, EnqueueRejected, EnqueueReread, ReplayEnd, Deliver
  <2>7. QED  BY <2>1, <2>2, <2>3, <2>4, <2>5, <2>6
<1>2. ASSUME NEW c \in Clients,
             (\E k \in Keys : EnqueueCheck(c, k)) \/ ReplayList(c) \/ StorageFails(c)
      PROVE  UNCHANGED outbox
  BY <1>2 DEF EnqueueCheck, ReplayList, StorageFails
<1>3. Crash => outbox' = Collapsed \/ UNCHANGED outbox
  BY DEF Crash
<1>4. UNCHANGED outboxVars => UNCHANGED outbox
  BY DEF outboxVars
<1>5. QED  BY <1>1, <1>2, <1>3, <1>4 DEF Next

\* INSERT ... RETURNING id adds a row and leaves the others as they are.
LEMMA InsertKeepsRows ==
  ASSUME IInv, NEW c \in Clients, EnqueueInsert(c)
  PROVE  /\ Rows \subseteq DOMAIN outbox'
         /\ \A i \in Rows : outbox'[i] = outbox[i]
<1>1. lastId + 1 \notin Rows
  BY OutboxAssumption DEF IInv, TypeOK, IdsUsed, Rows
<1>2. outbox' = [i \in Rows \cup {lastId + 1} |->
                   IF i = lastId + 1 THEN NewRow(client[c].key) ELSE outbox[i]]
  BY DEF EnqueueInsert
<1>3. QED  BY <1>1, <1>2

\* What a row keeps when the clock moves.
LEMMA TimePasses ==
  ASSUME IInv, NEW i \in RowIds, ClaimGoesStale(i) \/ RowAges(i)
  PROVE  /\ DOMAIN outbox' = Rows
         /\ \A j \in Rows : /\ outbox'[j].state = outbox[j].state
                            /\ outbox'[j].attempts = outbox[j].attempts
  BY DEF IInv, TypeOK, Rows, Row, ClaimGoesStale, RowAges

\* claim() and writeState() leave every row of the table in it.
LEMMA WriteKeepsRows ==
  ASSUME IInv, NEW s \in DeliveryState,
         \/ \E i : outbox' = WriteState(i, s)
         \/ \E i : outbox' = ClaimRow(i)
         \/ \E i, granted : outbox' = LookedBack(i, granted)
  PROVE  DOMAIN outbox' = Rows
  BY WriteStateType, ClaimRowType, LookedBackType DEF IInv

LEMMA VerdictState ==
  ASSUME NEW v \in Verdicts
  PROVE  /\ StateOf(v) \in DeliveryState
         /\ StateOf(v) = "dropped" <=> v = "abandon"
  BY DEF Verdicts, StateOf

LEMMA StepKeepsTerminal == IInv /\ [Next]_outboxVars => KeepsTerminal
<1> SUFFICES ASSUME IInv, [Next]_outboxVars,
                    NEW i \in Rows, ~Live(i), i \in DOMAIN outbox'
             PROVE  /\ outbox'[i].state = outbox[i].state
                    /\ outbox'[i].attempts = outbox[i].attempts
  BY DEF KeepsTerminal
<1>1. outbox[i].state \in Terminal  BY DEF Live
<1>2. CASE UNCHANGED outbox  BY <1>2
<1>3. CASE \E c \in Clients : EnqueueInsert(c)
  BY <1>3, InsertKeepsRows
<1>4. CASE outbox' = Pruned(outbox)
  BY <1>1, <1>4, PruneShrinks DEF IInv
<1>5. CASE \E j : outbox' = ClaimRow(j)
  BY <1>1, <1>5, ClaimRowShrinks DEF IInv
<1>6. CASE \E j, granted : outbox' = LookedBack(j, granted)
  BY <1>1, <1>6, LookedBackShrinks DEF IInv
<1>7. CASE \E c \in Clients : /\ client[c].verdict \in Verdicts
                              /\ outbox' = WriteState(client[c].id, StateOf(client[c].verdict))
  BY <1>1, <1>7, VerdictState, WriteStateShrinks DEF IInv
<1>8. CASE \E j \in RowIds : ClaimGoesStale(j) \/ RowAges(j)
  BY <1>8, TimePasses
<1>9. CASE outbox' = Collapsed
  BY <1>1, <1>9, CollapsedShrinks DEF IInv
<1>10. QED  BY <1>2, <1>3, <1>4, <1>5, <1>6, <1>7, <1>8, <1>9, Writers

\* A delivered or dropped row is final: no late mark, claim or prune() changes its
\* state or its attempts.
THEOREM TerminalFinal == Spec => TerminalIsFinal
  BY Inv, StepKeepsTerminal, PTL DEF Spec, TerminalIsFinal

LEMMA StepKeepsUnsettled == IInv /\ [Next]_outboxVars => KeepsUnsettled
<1> SUFFICES ASSUME IInv, [Next]_outboxVars, NEW i \in Rows, Live(i), outbox[i].age < 2
             PROVE  i \in DOMAIN outbox'
  BY DEF KeepsUnsettled
<1>1. CASE UNCHANGED outbox  BY <1>1 DEF Rows
<1>2. CASE \E c \in Clients : EnqueueInsert(c)
  BY <1>2, InsertKeepsRows
<1>3. CASE outbox' = Pruned(outbox)
  <2>1. outbox[i].state # "delivered"  BY DEF Live
  <2>2. i \in Kept(outbox)  BY <2>1 DEF Kept, Rows
  <2>3. QED  BY <1>3, <2>2, PruneShrinks DEF IInv
<1>4. CASE \E j : outbox' = ClaimRow(j)
  BY <1>4, WriteKeepsRows
<1>5. CASE \E j, granted : outbox' = LookedBack(j, granted)
  BY <1>5, WriteKeepsRows
<1>6. CASE \E c \in Clients : /\ client[c].verdict \in Verdicts
                              /\ outbox' = WriteState(client[c].id, StateOf(client[c].verdict))
  BY <1>6, VerdictState, WriteKeepsRows
<1>7. CASE \E j \in RowIds : ClaimGoesStale(j) \/ RowAges(j)
  BY <1>7, TimePasses
<1>8. CASE outbox' = Collapsed
  BY <1>8, CollapsedShrinks DEF IInv
<1>9. QED  BY <1>1, <1>2, <1>3, <1>4, <1>5, <1>6, <1>7, <1>8, Writers

\* prune() never deletes a settlement that is not settled and not 7 days old, however
\* small the table's limit and however many rows are delivered meanwhile.
THEOREM UnsettledKept == Spec => UnsettledIsKept
  BY Inv, StepKeepsUnsettled, PTL DEF Spec, UnsettledIsKept

LEMMA StepDropsOnlyDue == IInv /\ [Next]_outboxVars => DropsOnlyDue
<1> SUFFICES ASSUME IInv, [Next]_outboxVars,
                    NEW i \in Rows, Live(i), i \in DOMAIN outbox', outbox'[i].state = "dropped"
             PROVE  \/ outbox[i].attempts = MAX_DELIVERY_ATTEMPTS
                    \/ \E c \in Replayers : client[c].id = i /\ client[c].verdict = "abandon"
                    \/ \E j \in Rows : j > i /\ Live(j) /\ outbox[j].key = outbox[i].key
  BY DEF DropsOnlyDue
<1>1. outbox[i].state # "dropped" /\ outbox[i].state \notin Terminal  BY DEF Live
<1>2. CASE UNCHANGED outbox  BY <1>1, <1>2
<1>3. CASE \E c \in Clients : EnqueueInsert(c)
  BY <1>1, <1>3, InsertKeepsRows
<1>4. CASE outbox' = Pruned(outbox)
  BY <1>1, <1>4, PruneShrinks DEF IInv
<1>5. CASE \E j : outbox' = ClaimRow(j)
  BY <1>1, <1>5, ClaimRowShrinks DEF IInv
<1>6. CASE \E j, granted : outbox' = LookedBack(j, granted)
  BY <1>1, <1>6, LookedBackShrinks DEF IInv
<1>7. CASE \E c \in Clients : /\ client[c].verdict \in Verdicts
                              /\ outbox' = WriteState(client[c].id, StateOf(client[c].verdict))
  BY <1>1, <1>7, VerdictState, WriteStateShrinks DEF IInv, VerdictKnown
<1>8. CASE \E j \in RowIds : ClaimGoesStale(j) \/ RowAges(j)
  BY <1>1, <1>8, TimePasses
<1>9. CASE outbox' = Collapsed
  <2>1. PICK k : k = outbox[i].key  OBVIOUS
  <2>2. LatestLive(k) # i /\ i \in LiveRowsOf(k)
    BY <1>1, <1>9, <2>1, CollapsedShrinks DEF IInv, LiveRowsOf
  <2>3. /\ LatestLive(k) \in LiveRowsOf(k) /\ i <= LatestLive(k)
        /\ i \in Nat /\ LatestLive(k) \in Nat
    BY <2>2, LatestLiveType, OutboxAssumption DEF IInv, TypeOK, Rows
  <2>4. QED  BY <2>1, <2>2, <2>3 DEF LiveRowsOf
<1>10. QED  BY <1>2, <1>3, <1>4, <1>5, <1>6, <1>7, <1>8, <1>9, Writers

\* A settlement is given up only after all its attempts, by a replay that found
\* nobody waiting for it, or by a start that finds a newer live row beside it.
THEOREM GivesUpWhenDue == Spec => GivesUpOnlyWhenDue
  BY Inv, StepDropsOnlyDue, PTL DEF Spec, GivesUpOnlyWhenDue

-----------------------------------------------------------------------------
(* Who settles a row: the client that delivered it, under the row's key.   *)

\* A client writes to a row of the key it delivers for: a notifier found or inserted
\* it, a replay was granted it.
OwnRow ==
  \A c \in Clients :
    /\ c \in Notifiers => client[c].pc # "replay"
    /\ c \in Replayers => client[c].pc \in {"idle", "replay", "look", "deliver", "mark"}
    /\ c \in Replayers /\ client[c].pc \in {"deliver", "mark"} => client[c].granted
    /\ c \in Notifiers \/ client[c].granted =>
         /\ client[c].id <= lastId
         /\ client[c].id \in Rows => outbox[client[c].id].key = client[c].key

\* Rows keep their keys, and ids are given out in order.
LEMMA RowsKeepKeys ==
  ASSUME IInv, [Next]_outboxVars
  PROVE  /\ lastId \in Nat /\ lastId' \in Nat /\ lastId <= lastId'
         /\ \A i \in DOMAIN outbox' : i \in Rows => outbox'[i].key = outbox[i].key
         /\ \A i \in DOMAIN outbox' : i \notin Rows => i = lastId + 1 /\ lastId' = lastId + 1
<1>0. IInv'  BY InvNext
<1>1. lastId \in Nat /\ lastId' \in Nat  BY <1>0, OutboxAssumption DEF IInv, TypeOK
<1>2. CASE \E c \in Clients : EnqueueInsert(c)
  <2>1. PICK c \in Clients : EnqueueInsert(c)  BY <1>2
  <2>2. /\ lastId' = lastId + 1 /\ DOMAIN outbox' = Rows \cup {lastId + 1}
    BY <2>1 DEF EnqueueInsert
  <2>3. \A i \in Rows : outbox'[i] = outbox[i]  BY <2>1, InsertKeepsRows
  <2>4. QED  BY <1>1, <2>2, <2>3
<1>3. CASE ~\E c \in Clients : EnqueueInsert(c)
  <2>1. lastId' = lastId
    BY <1>3 DEF Next, ClientStep, EnqueueCheck, EnqueuePrune, EnqueueRejected, EnqueueReread, Claim,
               ReplayList, ReplayClaim, ReplayEnd, LookBack, Deliver, Mark, StorageFails,
               ClaimGoesStale, RowAges, Crash, outboxVars
  <2>2. \A i \in DOMAIN outbox' : i \in Rows /\ outbox'[i].key = outbox[i].key
    <3>1. CASE UNCHANGED outbox  BY <3>1 DEF Rows
    <3>2. CASE outbox' = Pruned(outbox)  BY <3>2, PruneShrinks DEF IInv
    <3>3. CASE \E j : outbox' = ClaimRow(j)  BY <3>3, ClaimRowShrinks DEF IInv
    <3>4. CASE \E j, granted : outbox' = LookedBack(j, granted)
      BY <3>4, LookedBackShrinks DEF IInv
    <3>5. CASE \E c \in Clients : /\ client[c].verdict \in Verdicts
                                  /\ outbox' = WriteState(client[c].id, StateOf(client[c].verdict))
      BY <3>5, VerdictState, WriteStateShrinks DEF IInv
    <3>6. CASE \E j \in RowIds : ClaimGoesStale(j) \/ RowAges(j)
      BY <3>6 DEF IInv, TypeOK, Rows, Row, ClaimGoesStale, RowAges
    <3>7. CASE outbox' = Collapsed  BY <3>7, CollapsedShrinks DEF IInv
    <3>8. QED  BY <1>3, <3>1, <3>2, <3>3, <3>4, <3>5, <3>6, <3>7, Writers
  <2>3. QED  BY <1>1, <2>1, <2>2
<1>4. QED  BY <1>2, <1>3

\* What a client must still say of its row after it has moved.
Says(r, c) ==
  /\ c \in Notifiers => r.pc # "replay"
  /\ c \in Replayers => r.pc \in {"idle", "replay", "look", "deliver", "mark"}
  /\ c \in Replayers /\ r.pc \in {"deliver", "mark"} => r.granted
  /\ c \in Notifiers \/ r.granted =>
       /\ r.id <= lastId
       /\ r.id \in Rows => outbox[r.id].key = r.key

\* What it said before the step it says after it.
LEMMA StillSays ==
  ASSUME IInv, [Next]_outboxVars, NEW c \in Clients, NEW r \in Client, Says(r, c)
  PROVE  /\ c \in Notifiers => r.pc # "replay"
         /\ c \in Replayers => r.pc \in {"idle", "replay", "look", "deliver", "mark"}
         /\ c \in Replayers /\ r.pc \in {"deliver", "mark"} => r.granted
         /\ c \in Notifiers \/ r.granted =>
              /\ r.id <= lastId'
              /\ r.id \in DOMAIN outbox' => outbox'[r.id].key = r.key
<1>1. r.id \in Nat  BY OutboxAssumption DEF Client
<1>2. ASSUME r.id <= lastId, r.id \in DOMAIN outbox'
      PROVE  r.id \in Rows /\ outbox'[r.id].key = outbox[r.id].key
  BY <1>1, <1>2, RowsKeepKeys
<1>3. r.id <= lastId => r.id <= lastId'  BY <1>1, RowsKeepKeys
<1>4. QED  BY <1>2, <1>3 DEF Says

LEMMA IdleSays == ASSUME IInv, NEW c \in Clients PROVE Says(Idle, c)
<1>1. Idle.pc = "idle" /\ Idle.id = 0 /\ ~Idle.granted  BY DEF Idle
<1>2. 0 \notin Rows /\ 0 <= lastId
  BY OutboxAssumption DEF IInv, TypeOK, Rows
<1>3. QED  BY <1>1, <1>2 DEF Says

LEMMA FoundSays ==
  ASSUME IInv, NEW k
  PROVE  /\ LatestLive(k) \in 0..MaxRowId /\ LatestLive(k) <= lastId
         /\ LatestLive(k) \in Rows => outbox[LatestLive(k)].key = k
<1>0. LatestLive(k) \in 0..MaxRowId  BY LatestLiveType DEF IInv
<1>1. CASE LiveRowsOf(k) = {}
  <2>1. LatestLive(k) = 0  BY <1>1 DEF LatestLive
  <2>2. QED  BY <1>0, <2>1, OutboxAssumption DEF IInv, TypeOK, Rows
<1>2. CASE LiveRowsOf(k) # {}
  <2>1. LatestLive(k) \in LiveRowsOf(k)  BY <1>2, LatestLiveType DEF IInv
  <2>2. QED  BY <1>0, <2>1 DEF LiveRowsOf, IInv, IdsUsed
<1>3. QED  BY <1>1, <1>2

LEMMA OwnRowKept == IInv /\ OwnRow /\ [Next]_outboxVars => OwnRow'
<1> SUFFICES ASSUME IInv, OwnRow, [Next]_outboxVars, NEW c \in Clients
             PROVE  /\ c \in Notifiers => client'[c].pc # "replay"
                    /\ c \in Replayers => client'[c].pc \in {"idle", "replay", "look", "deliver", "mark"}
                    /\ c \in Replayers /\ client'[c].pc \in {"deliver", "mark"} => client'[c].granted
                    /\ c \in Notifiers \/ client'[c].granted =>
                         /\ client'[c].id <= lastId'
                         /\ client'[c].id \in DOMAIN outbox' =>
                              outbox'[client'[c].id].key = client'[c].key
  BY DEF OwnRow, Rows
<1>a. /\ client \in [Clients -> Client] /\ client[c] \in Client
      /\ client'[c] \in Client
      /\ Notifiers \cap Replayers = {}
  BY InvNext, OutboxAssumption DEF IInv, TypeOK
<1>b. Says(client[c], c)  BY DEF OwnRow, Says
\* It is enough that what it now says was true when the step was taken.
<1>c. SUFFICES ASSUME ~EnqueueInsert(c) PROVE Says(client'[c], c)
  <2>1. PICK r \in Client : r = client'[c]  BY <1>a
  <2>2. CASE EnqueueInsert(c)
    <3>1. /\ client'[c] = [client[c] EXCEPT !.pc = "prune", !.id = lastId + 1]
          /\ client[c].pc = "insert" /\ lastId' = lastId + 1
          /\ outbox'[lastId + 1] = NewRow(client[c].key)
      BY <1>a, <2>2 DEF EnqueueInsert
    <3>2. /\ client'[c].pc = "prune" /\ client'[c].id = lastId + 1
          /\ client'[c].key = client[c].key
      BY <1>a, <3>1 DEF Client
    <3>3. c \notin Replayers  BY <3>1 DEF OwnRow
    <3>4. lastId' \in Nat  BY RowsKeepKeys
    <3>5. QED  BY <3>1, <3>2, <3>3, <3>4 DEF NewRow
  <2>3. CASE Says(client'[c], c)
    <3>1. Says(r, c)  BY <2>1, <2>3
    <3>2. QED  BY <2>1, <3>1, StillSays
  <2>4. QED  BY <1>c, <2>2, <2>3
<1>d. CASE client'[c] = client[c]  BY <1>b, <1>d
<1>e. CASE client'[c] = Idle  BY <1>e, IdleSays
<1>1. ASSUME NEW k \in Keys, EnqueueCheck(c, k) PROVE Says(client'[c], c)
  <2>1. /\ client'[c].pc \in {"insert", "claim"} /\ client'[c].key = k
        /\ client'[c].id = LatestLive(k) /\ c \in Notifiers
    BY <1>a, <1>1 DEF EnqueueCheck, Idle
  <2>2. QED  BY <1>a, <2>1, FoundSays DEF Says
<1>2. ASSUME EnqueuePrune(c) \/ EnqueueRejected(c) PROVE Says(client'[c], c)
  <2>1. /\ client[c].pc \in {"prune", "insert"} /\ client'[c].pc \in {"claim", "reread"}
        /\ client'[c].key = client[c].key /\ client'[c].id = client[c].id
        /\ client'[c].granted = client[c].granted
    BY <1>a, <1>2 DEF EnqueuePrune, EnqueueRejected, Client
  <2>2. QED  BY <1>b, <2>1 DEF Says
<1>3. ASSUME EnqueueReread(c) PROVE Says(client'[c], c)
  <2>1. /\ client[c].pc = "reread" /\ client'[c].pc = "claim" /\ client'[c].key = client[c].key
        /\ client'[c].id = LatestLive(client[c].key)
    BY <1>a, <1>3 DEF EnqueueReread, Client
  <2>2. PICK k : k = client[c].key  OBVIOUS
  <2>3. QED  BY <1>b, <2>1, <2>2, FoundSays DEF Says
<1>4. ASSUME Claim(c) PROVE Says(client'[c], c)
  <2>1. /\ client[c].pc = "claim" /\ client'[c].pc = "look" /\ client'[c].key = client[c].key
        /\ client'[c].id = client[c].id
    BY <1>a, <1>4 DEF Claim, Client
  <2>2. QED  BY <1>b, <2>1 DEF Says, Clients
<1>5. ASSUME ReplayList(c) PROVE Says(client'[c], c)
  <2>1. /\ client'[c].pc = "replay" /\ ~client'[c].granted /\ c \in Replayers
    BY <1>a, <1>5 DEF ReplayList, Idle
  <2>2. QED  BY <1>a, <2>1 DEF Says
<1>6. ASSUME ReplayClaim(c) PROVE Says(client'[c], c)
  <2>1. PICK i \in client[c].todo :
          client'[c] = [Idle EXCEPT !.pc      = "look",
                                    !.key     = IF Claimable(i) THEN outbox[i].key ELSE None,
                                    !.id      = i,
                                    !.granted = Claimable(i),
                                    !.todo    = client[c].todo \ {i}]
    BY <1>a, <1>6 DEF ReplayClaim
  <2>2. /\ client'[c].pc = "look" /\ client'[c].id = i /\ client'[c].granted = Claimable(i)
        /\ client'[c].key = IF Claimable(i) THEN outbox[i].key ELSE None
    BY <2>1 DEF Idle
  <2>3. c \in Replayers /\ c \notin Notifiers
    BY <1>a, <1>6 DEF ReplayClaim, OwnRow, Clients
  <2>4. Claimable(i) => i \in Rows /\ i <= lastId  BY DEF Claimable, IInv, IdsUsed
  <2>5. QED  BY <2>2, <2>3, <2>4 DEF Says
<1>7. ASSUME ReplayEnd(c) PROVE Says(client'[c], c)
  BY <1>a, <1>7, IdleSays DEF ReplayEnd
<1>8. c \in Replayers /\ client'[c] = RowDone(c) => Says(client'[c], c)
  <2>1. SUFFICES ASSUME c \in Replayers, client'[c] = RowDone(c) PROVE Says(client'[c], c)
    OBVIOUS
  <2>2. client'[c].pc = "replay" /\ ~client'[c].granted  BY <2>1 DEF RowDone, Idle
  <2>3. QED  BY <1>a, <2>1, <2>2 DEF Says
<1>9. ASSUME LookBack(c) PROVE Says(client'[c], c)
  <2>1. CASE c \in Replayers /\ ~(client[c].granted /\ client[c].id \in Rows)
    <3>1. client'[c] = RowDone(c)  BY <1>a, <1>9, <2>1 DEF LookBack
    <3>2. QED  BY <1>8, <2>1, <3>1
  <2>2. CASE ~(c \in Replayers /\ ~(client[c].granted /\ client[c].id \in Rows))
    <3>1. client'[c] = [client[c] EXCEPT !.pc = "deliver"]  BY <1>a, <1>9, <2>2 DEF LookBack
    <3>2. /\ client'[c].pc = "deliver" /\ client'[c].key = client[c].key
          /\ client'[c].id = client[c].id /\ client'[c].granted = client[c].granted
      BY <1>a, <3>1 DEF Client
    <3>3. QED  BY <1>b, <2>2, <3>2 DEF Says
  <2>3. QED  BY <2>1, <2>2
<1>10. ASSUME NEW v \in Verdicts, Deliver(c, v) PROVE Says(client'[c], c)
  <2>1. /\ client[c].pc = "deliver" /\ client'[c].pc = "mark" /\ client'[c].key = client[c].key
        /\ client'[c].id = client[c].id /\ client'[c].granted = client[c].granted
    BY <1>a, <1>10 DEF Deliver, Client
  <2>2. QED  BY <1>b, <2>1 DEF Says
<1>11. ASSUME Mark(c) PROVE Says(client'[c], c)
  <2>1. client'[c] = RowDone(c)  BY <1>a, <1>11 DEF Mark
  <2>2. CASE c \in Replayers  BY <1>8, <2>1, <2>2
  <2>3. CASE c \notin Replayers  BY <1>e, <2>1, <2>3 DEF RowDone
  <2>4. QED  BY <2>2, <2>3
<1>12. ASSUME StorageFails(c) PROVE Says(client'[c], c)
  <2>1. CASE c \in Notifiers /\ client[c].pc # "mark"
    <3>1. /\ client'[c].pc = "deliver" /\ client'[c].key = client[c].key
          /\ client'[c].id \in {0, client[c].id}
      BY <1>a, <1>12, <2>1 DEF StorageFails, Client
    <3>2. 0 \notin Rows /\ 0 <= lastId
      BY OutboxAssumption DEF IInv, TypeOK, Rows
    <3>3. QED  BY <1>a, <1>b, <2>1, <3>1, <3>2 DEF Says
  <2>2. CASE ~(c \in Notifiers /\ client[c].pc # "mark")
    BY <1>a, <1>12, <1>e, <2>2 DEF StorageFails
  <2>3. QED  BY <2>1, <2>2
<1>13. CASE \/ \E i \in RowIds : ClaimGoesStale(i) \/ RowAges(i)
            \/ UNCHANGED outboxVars
  BY <1>13, <1>d DEF ClaimGoesStale, RowAges, outboxVars
<1>14. CASE Crash  BY <1>14, <1>e DEF Crash
<1>15. ASSUME NEW d \in Clients, d # c,
              \/ \E k \in Keys : EnqueueCheck(d, k)
              \/ ReplayList(d) \/ ClientStep(d) \/ StorageFails(d)
       PROVE  client'[c] = client[c]
  BY <1>a, <1>15 DEF EnqueueCheck, ReplayList, ClientStep, StorageFails, EnqueueInsert, EnqueuePrune,
    EnqueueRejected, EnqueueReread, Claim, ReplayClaim, ReplayEnd, LookBack, Deliver, Mark
<1>16. ASSUME \/ \E k \in Keys : EnqueueCheck(c, k)
              \/ ReplayList(c) \/ ClientStep(c) \/ StorageFails(c)
       PROVE  Says(client'[c], c)
  BY <1>c, <1>1, <1>2, <1>3, <1>4, <1>5, <1>6, <1>7, <1>9, <1>10, <1>11, <1>12, <1>16
  DEF ClientStep
<1>17. QED  BY <1>d, <1>13, <1>14, <1>15, <1>16 DEF Next

LEMMA OwnRowStarts == Init => OwnRow
  BY OutboxAssumption DEF Init, OwnRow, Idle, Rows

\* A step settles a row only by an acknowledgement that its client got for the row's key.
SettlesOnlyAcked ==
  \A i \in DOMAIN outbox' :
    outbox'[i].state = "delivered" /\ ~(i \in Rows /\ outbox[i].state = "delivered") =>
      \E c \in Clients : /\ client[c].pc = "mark" /\ client[c].verdict = "ack"
                         /\ client[c].id = i /\ client[c].key = outbox'[i].key

LEMMA StepSettlesOnlyAcked == IInv /\ OwnRow /\ [Next]_outboxVars => SettlesOnlyAcked
<1> SUFFICES ASSUME IInv, OwnRow, [Next]_outboxVars, NEW i \in DOMAIN outbox',
                    outbox'[i].state = "delivered", ~(i \in Rows /\ outbox[i].state = "delivered")
             PROVE  \E c \in Clients : /\ client[c].pc = "mark" /\ client[c].verdict = "ack"
                                       /\ client[c].id = i /\ client[c].key = outbox'[i].key
  BY DEF SettlesOnlyAcked
<1>1. ~(UNCHANGED outbox)  BY DEF Rows
<1>2. ASSUME NEW c \in Clients, EnqueueInsert(c) PROVE FALSE
  <2>1. /\ DOMAIN outbox' = Rows \cup {lastId + 1}
        /\ outbox'[lastId + 1] = NewRow(client[c].key)
    BY <1>2 DEF EnqueueInsert
  <2>2. \A k \in Rows : outbox'[k] = outbox[k]  BY <1>2, InsertKeepsRows
  <2>3. QED  BY <2>1, <2>2 DEF NewRow
<1>3. CASE \E c \in Clients : Mark(c)
  <2>1. PICK c \in Clients : Mark(c)  BY <1>3
  <2>2. /\ client[c].pc = "mark" /\ client[c].verdict \in Verdicts
        /\ outbox' = WriteState(client[c].id, StateOf(client[c].verdict))
    BY <2>1 DEF Mark, IInv, VerdictKnown
  <2>3. PICK s \in DeliveryState : s = StateOf(client[c].verdict)  BY <2>2, VerdictState
  <2>4. /\ i \in Rows /\ outbox'[i].key = outbox[i].key
        /\ outbox'[i].state # outbox[i].state
        /\ i = client[c].id /\ s = "delivered"
    BY <2>2, <2>3, WriteStateShrinks DEF IInv
  <2>5. client[c].verdict = "ack"  BY <2>2, <2>3, <2>4 DEF Verdicts, StateOf
  <2>6. c \in Notifiers \/ client[c].granted  BY <2>2 DEF OwnRow, Clients
  <2>7. QED  BY <2>2, <2>4, <2>5, <2>6 DEF OwnRow
<1>4. CASE ~\E c \in Clients : Mark(c)
  <2>1. CASE outbox' = Pruned(outbox)
    <3>1. Rows \in SUBSET RowIds /\ outbox \in [Rows -> Row]  BY DEF IInv, TypeOK, Rows
    <3>2. i \in Kept(outbox)  BY <2>1, <3>1, PrunedType
    <3>3. outbox'[i].state # outbox[i].state => outbox'[i].state = "dropped"
      BY <2>1, <3>1, <3>2, PrunedLive
    <3>4. i \in Rows  BY <3>1, <3>2, PrunedType
    <3>5. QED  BY <3>3, <3>4
  <2>2. ASSUME NEW j, outbox' = ClaimRow(j) PROVE FALSE
    BY <2>2 DEF ClaimRow, Claimable, IInv, TypeOK, Rows, Row
  <2>3. ASSUME NEW j, NEW granted, outbox' = LookedBack(j, granted) PROVE FALSE
    <3>1. outbox' = WriteState(j, "dropped")  BY <1>1, <2>3 DEF LookedBack
    <3>2. QED  BY <3>1, WriteStateShrinks DEF IInv
  <2>4. CASE \E j \in RowIds : ClaimGoesStale(j) \/ RowAges(j)
    BY <2>4, TimePasses
  <2>5. ASSUME NEW c \in Clients, ClientStep(c)
        PROVE  \/ outbox' = Pruned(outbox)
               \/ \E j : outbox' = ClaimRow(j)
               \/ \E j, granted : outbox' = LookedBack(j, granted)
    <3>1. CASE ReplayClaim(c)  BY <3>1 DEF ReplayClaim
    <3>2. CASE Claim(c)  BY <3>2 DEF Claim
    <3>3. CASE LookBack(c)  BY <3>3 DEF LookBack
    <3>4. CASE EnqueuePrune(c)  BY <3>4 DEF EnqueuePrune
    <3>5. CASE EnqueueRejected(c) \/ EnqueueReread(c) \/ ReplayEnd(c) \/ \E v \in Verdicts : Deliver(c, v)
      BY <1>1, <3>5 DEF EnqueueRejected, EnqueueReread, ReplayEnd, Deliver
    <3>6. QED  BY <1>2, <1>4, <2>5, <3>1, <3>2, <3>3, <3>4, <3>5 DEF ClientStep
  <2>6. ASSUME NEW c \in Clients,
               (\E k \in Keys : EnqueueCheck(c, k)) \/ ReplayList(c) \/ StorageFails(c)
        PROVE  FALSE
    BY <1>1, <2>6 DEF EnqueueCheck, ReplayList, StorageFails
  <2>7. ~UNCHANGED outboxVars
    BY <1>1 DEF outboxVars
  <2>8. ASSUME Crash PROVE FALSE
    <3>1. outbox' = Collapsed  BY <1>1, <2>8 DEF Crash
    <3>2. QED  BY <3>1, CollapsedShrinks DEF IInv
  <2>9. QED  BY <2>1, <2>2, <2>3, <2>4, <2>5, <2>6, <2>7, <2>8 DEF Next
<1>5. QED  BY <1>3, <1>4

\* A row is settled only by a client that delivered for its key and was acknowledged.
THEOREM SettledByAcknowledgement == Spec => [][SettlesOnlyAcked]_outboxVars
  BY Inv, OwnRowStarts, OwnRowKept, StepSettlesOnlyAcked, PTL DEF Spec

=============================================================================
