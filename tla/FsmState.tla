------------------------------ MODULE FsmState ------------------------------
(***************************************************************************)
(* components/batch-system/src/fsm.rs: the holder of one FSM.  Any number  *)
(* of actors take the FSM out (take_fsm), give it back (release) and close *)
(* the holder (clear); each atomic operation is a step.  What happens to   *)
(* the FSM while it is out is left open: this is what the rest of the      *)
(* batch system relies on, and BatchSystem implements it for every mailbox. *)
(***************************************************************************)
EXTENDS TLAPS

CONSTANT Actors

VARIABLES
  status,   \* FsmState.status
  data,     \* FsmState.data is not null
  out,      \* the FSM is with the scheduler or a poller
  freed,    \* the FSM is freed
  pc,       \* the second half of an operation an actor has begun
  broken    \* a panic of take_fsm or release, or a use of a null pointer

vars == <<status, data, out, freed, pc, broken>>

TypeOK ==
  /\ status \in {"NOTIFIED", "IDLE", "DROP"}
  /\ data \in BOOLEAN /\ out \in BOOLEAN /\ freed \in BOOLEAN /\ broken \in BOOLEAN
  /\ pc \in [Actors -> {"idle", "take", "release", "free"}]

Init ==
  /\ status = "IDLE" /\ data = TRUE /\ out = FALSE /\ freed = FALSE
  /\ pc = [a \in Actors |-> "idle"] /\ broken = FALSE

Goto(a, to) == pc' = [pc EXCEPT ![a] = to]

\* take_fsm: the compare_exchange, then the swap of the cell.
TakeStatus(a) ==
  /\ pc[a] = "idle" /\ status = "IDLE"
  /\ status' = "NOTIFIED" /\ Goto(a, "take")
  /\ UNCHANGED <<data, out, freed, broken>>

TakeData(a) ==
  /\ pc[a] = "take"
  /\ broken' = (broken \/ ~data)
  /\ data' = FALSE /\ out' = TRUE /\ Goto(a, "idle")
  /\ UNCHANGED <<status, freed>>

\* release: the swap of the cell, then the compare_exchange of the status; on a
\* closed holder the FSM is freed.
ReleaseData(a) ==
  /\ pc[a] = "idle" /\ out
  /\ broken' = (broken \/ data)
  /\ data' = TRUE /\ out' = FALSE /\ Goto(a, "release")
  /\ UNCHANGED <<status, freed>>

ReleaseStatus(a) ==
  /\ pc[a] = "release" /\ Goto(a, "idle")
  /\ \/ status = "NOTIFIED" /\ status' = "IDLE" /\ UNCHANGED <<data, freed, broken>>
     \/ /\ status = "DROP" /\ UNCHANGED status
        /\ data' = FALSE /\ freed' = TRUE /\ broken' = (broken \/ ~data \/ freed)
     \/ status = "IDLE" /\ broken' = TRUE /\ UNCHANGED <<status, data, freed>>
  /\ UNCHANGED out

\* clear: the swap of the status, then the swap of the cell of an idle holder.
ClearStatus(a) ==
  /\ pc[a] = "idle" /\ status' = "DROP"
  /\ Goto(a, IF status = "IDLE" THEN "free" ELSE "idle")
  /\ UNCHANGED <<data, out, freed, broken>>

ClearData(a) ==
  /\ pc[a] = "free" /\ Goto(a, "idle")
  /\ data' = FALSE /\ freed' = (freed \/ data)
  /\ broken' = (broken \/ (data /\ freed))
  /\ UNCHANGED <<status, out>>

Step(a) ==
  \/ TakeStatus(a) \/ TakeData(a) \/ ReleaseData(a) \/ ReleaseStatus(a)
  \/ ClearStatus(a) \/ ClearData(a)

Next == \E a \in Actors : Step(a)

Spec == Init /\ [][Next]_vars

----------------------------------------------------------------------------

\* The FSM is in one place: in the cell, out, or freed.
OnePlace ==
  /\ ~(data /\ out) /\ ~(data /\ freed) /\ ~(out /\ freed)
  /\ data \/ out \/ freed

\* take_fsm and release never panic, no null pointer is turned into a Box and
\* nothing is freed twice, whatever the actors do.
Sound == OnePlace /\ ~broken

\* At most one actor is inside an operation with a second half, and the FSM is then
\* in the cell.
OneInside ==
  /\ \A a, b \in Actors : pc[a] # "idle" /\ pc[b] # "idle" => a = b
  /\ \A a \in Actors : pc[a] # "idle" => data

\* An idle holder has its FSM and nobody is at it; the FSM of a notified one is not
\* freed; an FSM in the cell of a holder that is not idle is in somebody's hands.
Agrees ==
  /\ status = "IDLE" => data /\ \A a \in Actors : pc[a] = "idle"
  /\ status = "NOTIFIED" => ~freed
  /\ status # "IDLE" /\ data => \E a \in Actors : pc[a] # "idle"
  /\ \A a \in Actors : pc[a] = "free" => status = "DROP"

Inv == TypeOK /\ Sound /\ OneInside /\ Agrees

\* A new FSM, parked and with no message, satisfies the invariant.
LEMMA InvInit == Init => Inv
  BY Zenon DEF Init, Inv, TypeOK, Sound, OnePlace, OneInside, Agrees

\* Every access to the status, by a sender, a poller or a close, keeps it.
LEMMA InvStep == ASSUME Inv, NEW a \in Actors, Step(a) PROVE Inv'
<1> USE DEF Inv, TypeOK, Sound, OnePlace, OneInside, Agrees, Goto
<1>1. CASE TakeStatus(a) BY <1>1 DEF TakeStatus
<1>2. CASE TakeData(a) BY Zenon, <1>2 DEF TakeData
<1>3. CASE ReleaseData(a) BY Zenon, <1>3 DEF ReleaseData
<1>4. CASE ReleaseStatus(a)
  <2>1. data /\ ~out /\ ~freed /\ ~broken /\ status # "IDLE" BY <1>4 DEF ReleaseStatus
  <2>2. \A b \in Actors : pc'[b] = "idle" BY <1>4 DEF ReleaseStatus
  <2>3. CASE status = "NOTIFIED" BY <1>4, <2>1, <2>2, <2>3 DEF ReleaseStatus
  <2>4. CASE status = "DROP"
    <3>1. data' = FALSE /\ freed' = TRUE /\ broken' = FALSE /\ out' = FALSE /\ status' = "DROP"
      BY <1>4, <2>1, <2>4, Zenon DEF ReleaseStatus
    <3>2. QED BY Zenon, <1>4, <2>2, <3>1 DEF ReleaseStatus
  <2>5. QED BY <2>1, <2>3, <2>4
<1>5. CASE ClearStatus(a) BY <1>5 DEF ClearStatus
<1>6. CASE ClearData(a) BY Zenon, <1>6 DEF ClearData
<1>7. QED BY <1>1, <1>2, <1>3, <1>4, <1>5, <1>6 DEF Step

\* The FSM is never in two places and never lost by FsmState's compare-and-swaps,
\* whatever the number of senders and pollers: at most one of them holds it, and the
\* status and the data pointer agree with where it is.
THEOREM AlwaysInv == Spec => []Inv
<1>1. Inv /\ UNCHANGED vars => Inv'
  BY DEF Inv, TypeOK, Sound, OnePlace, OneInside, Agrees, vars
<1>2. Inv /\ [Next]_vars => Inv'
  BY <1>1, InvStep DEF Next
<1>3. QED BY InvInit, <1>2, PTL DEF Spec

============================================================================
