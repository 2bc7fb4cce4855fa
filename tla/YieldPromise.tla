---------------------------- MODULE YieldPromise ----------------------------
(***************************************************************************)
(* What sessions_yield promises, without queues, turns or handlers: a      *)
(* session has one wait at a time, a wait is taken by one resumption, and  *)
(* a wait that was settled, replaced or cleared never comes back while the *)
(* process lives.  Each session has one durable record, which nobody waits *)
(* for: the process may go on, or die, before it is written.  A restart    *)
(* gives a session the wait its record names, to be taken once more, and   *)
(* nothing else.                                                           *)
(***************************************************************************)
EXTENDS Integers

CONSTANTS
  Sessions,
  Durable   \* is every record written, and every record read at a restart?

VARIABLES
  current,  \* session -> its wait and how far that is
  saved,    \* session -> the wait its durable record names, 0: no record
  used      \* waits armed so far

promiseVars == <<current, saved, used>>

Nothing == [ wait |-> 0, stage |-> "none" ]

Armed(w) == IF w = 0 THEN Nothing ELSE [ wait |-> w, stage |-> "armed" ]

Write(records) ==
  \/ saved' = records
  \/ ~Durable /\ UNCHANGED saved

Arm(s) ==
  /\ used' = used + 1
  /\ current' = [current EXCEPT ![s] = Armed(used + 1)]
  /\ Write([saved EXCEPT ![s] = used + 1])

\* The record of a wait may be written again, which repairs one that was lost.
Save(s) ==
  /\ current[s].stage = "armed"
  /\ saved' = [saved EXCEPT ![s] = current[s].wait]
  /\ UNCHANGED <<current, used>>

Take(s) ==
  /\ current[s].stage = "armed"
  /\ current' = [current EXCEPT ![s].stage = "taken"]
  /\ UNCHANGED <<saved, used>>

Settle(s) ==
  /\ current[s].stage = "taken"
  /\ current' = [current EXCEPT ![s] = Nothing]
  /\ Write([saved EXCEPT ![s] = 0])
  /\ UNCHANGED used

DropAll ==
  /\ current' = [s \in Sessions |-> Nothing]
  /\ Write([s \in Sessions |-> 0])
  /\ UNCHANGED used

Revive ==
  /\ \/ current' = [s \in Sessions |-> Armed(saved[s])]
     \/ ~Durable /\ current' = [s \in Sessions |-> Nothing]
  /\ UNCHANGED <<saved, used>>

Init ==
  /\ current = [s \in Sessions |-> Nothing]
  /\ saved = [s \in Sessions |-> 0]
  /\ used = 0

Next ==
  \/ \E s \in Sessions : Arm(s) \/ Save(s) \/ Take(s) \/ Settle(s)
  \/ DropAll
  \/ Revive

Spec == Init /\ [][Next]_promiseVars
=============================================================================
