----------------------------- MODULE BatchSystem -----------------------------
(***************************************************************************)
(* components/batch-system: the FSMs of raftstore and of the apply system  *)
(* (peers, apply delegates, the store), their mailboxes, the router, and    *)
(* the threads that poll them.                                              *)
(*                                                                          *)
(* An FSM is a heap object with exactly one owner: the data cell of its     *)
(* FsmState while it is idle, the queue of the scheduler or the batch of a  *)
(* poller while it is notified, and a thread between two of these.  Every   *)
(* atomic operation on the cell and its status is a step of its own.        *)
(***************************************************************************)
EXTENDS Naturals, Sequences, FiniteSets

CONSTANTS
  Fsms,         \* the normal FSMs; an FSM also names its mailbox
  Control,      \* the control FSM
  Addrs,        \* region ids
  AddrOf,       \* [Fsms -> Addrs]
  Registered,   \* the FSMs in the router at the start
  Target,       \* the FSM that applies a CommitMerge
  Source,       \* the FSM whose logs Target waits for
  Threads,      \* threads that use the router
  Pollers,      \* poll threads; how many of them is a bound on the pool
  Started,      \* the pollers the batch system starts with
  None,
  Empty,        \* FsmTypes::Empty
  Limit,        \* notify_capacity of a channel
  MaxBatch,     \* max_batch_size
  MsgsPerTick,  \* messages_per_tick
  Tokens,       \* the Empty tokens a shutdown sends (256 in the code)
  Workloads     \* bounds: how often a thread makes each kind of call, and how often
                \* an FSM is found hot

Boxes == Fsms \cup {Control}
Actors == Threads \cup Pollers
Kinds == {"task", "merge", "catch_up", "stop"}
Calls == Kinds \cup {"handle", "control", "close", "register", "shutdown", "resize"}

ASSUME BatchAssumption ==
  /\ AddrOf \in [Fsms -> Addrs] /\ Registered \subseteq Fsms
  /\ Target \in Fsms /\ Source \in Fsms
  /\ Control \notin Fsms /\ None \notin Boxes /\ Empty \notin Boxes /\ None # Empty
  /\ Threads \cap Pollers = {} /\ None \notin Actors
  /\ IsFiniteSet(Pollers) /\ Started \subseteq Pollers /\ Started # {}
  /\ {Limit, MaxBatch, MsgsPerTick} \subseteq Nat \ {0}
  /\ Tokens \in Nat /\ Tokens >= Cardinality(Pollers)
  /\ Workloads \subseteq [calls : [Threads -> [Calls -> Nat]], hot : Nat]

VARIABLES
  status,     \* FsmState.status of each mailbox
  data,       \* FsmState.data is not null
  dropped,    \* the Box of the FSM is freed
  connected,  \* State.connected of the channel
  chan,       \* the channel: a sequence of [kind, via]
  stopped,    \* Fsm::is_stopped
  waiting,    \* ApplyDelegate.wait_merge_state is set
  pending,    \* YieldState.pending_msgs
  ready,      \* WaitSourceMergeState.logs_up_to_date
  normals,    \* Router.normals: the mailbox at each address
  guard,      \* who holds the entry of an address in the DashMap
  shutdown,   \* Router.shutdown
  queue,      \* the scheduler's channel
  op,         \* the mailbox operation an actor is inside of
  poll,       \* the local state of Poller::poll
  pool_size,  \* PoolState.expected_pool_size
  panic,      \* the panic that happened
  budget      \* what is left of the workload

mailVars == <<status, data, dropped, connected, chan>>
fsmVars == <<stopped, waiting, pending, ready>>
routerVars == <<normals, guard, shutdown>>
vars == <<mailVars, fsmVars, routerVars, queue, op, poll, pool_size, panic, budget>>

----------------------------------------------------------------------------
(* The state and its types. *)

Status == {"NOTIFIED", "IDLE", "DROP"}
Messages == [kind : Kinds, via : {"router", "handle"}]

\* The kinds of message a mailbox may be sent: only the target executes a
\* CommitMerge, only the source gets LogsUpToDate.
MayReceive(b, k) ==
  CASE k = "task" -> TRUE
    [] k = "merge" -> b = Target
    [] k = "catch_up" -> b = Source
    [] k = "stop" -> b \in Fsms

\* Where an actor is in a send (check .. take), a close (disc .. free) or a
\* broadcast_shutdown (sweep, tokens), and what it does after a close.
OpPc == {"idle", "check", "full", "push", "cas", "take",
         "disc", "clear", "free", "sweep", "tokens"}
Ops == [pc : OpPc, box : Boxes \cup {None}, kind : Kinds,
        via : {"handle", "try", "force", "forced"}, then : {"idle", "sweep", "tokens"}]
Idle == [pc |-> "idle", box |-> None, kind |-> "task", via |-> "handle", then |-> "idle"]

\* ReschedulePolicy; Release carries the length the handler has seen.
Policies == [p : {"none", "remove", "schedule"}] \cup [p : {"release"}, len : Nat]
NoPolicy == [p |-> "none"]
Slot(f) == [fsm |-> f, pol |-> NoPolicy]
Slots == [fsm : Fsms \cup {None}, pol : Policies]

\* Where a poller is: poll's loop, the handler's loop over its messages, and the
\* atomic operations of Batch::release.
PollPc == {"fetch", "control", "handle", "resume", "resumed", "drain", "msgs", "top_up",
           "light_end", "end", "rel_data", "rel_cas", "rel_len", "rel_retake", "rel_take",
           "exit", "gone"}
\* i: the slot at work, 0 for the control FSM; top: that slot was fetched in this
\* round; stop, len: the handler's StopAt; cur: the FSM being released; recheck:
\* release (not remove) looks at the channel again; back: where a release returns.
PollStates == [pc : PollPc, batch : Seq(Slots), ctl : BOOLEAN, i : Nat, top : BOOLEAN,
               buf : Seq(Messages), len : Nat, stop : BOOLEAN, resched : Seq(Nat),
               skip : Seq(Nat), run : BOOLEAN, cur : Boxes \cup {None},
               recheck : BOOLEAN, back : {"handle", "light_end", "end"}]
Fresh == [pc |-> "fetch", batch |-> <<>>, ctl |-> FALSE, i |-> 1, top |-> FALSE,
          buf |-> <<>>, len |-> 0, stop |-> FALSE, resched |-> <<>>, skip |-> <<>>,
          run |-> TRUE, cur |-> None, recheck |-> FALSE, back |-> "end"]

TypeOK ==
  /\ status \in [Boxes -> Status] /\ data \in [Boxes -> BOOLEAN]
  /\ dropped \in [Boxes -> BOOLEAN] /\ connected \in [Boxes -> BOOLEAN]
  /\ chan \in [Boxes -> Seq(Messages)]
  /\ stopped \in [Fsms -> BOOLEAN] /\ waiting \in [Fsms -> BOOLEAN]
  /\ pending \in [Fsms -> Seq(Messages)] /\ ready \in BOOLEAN
  /\ normals \in [Addrs -> Fsms \cup {None}] /\ guard \in [Addrs -> Actors \cup {None}]
  /\ shutdown \in BOOLEAN /\ queue \in Seq(Boxes \cup {Empty})
  /\ op \in [Actors -> Ops] /\ poll \in [Pollers -> PollStates]
  /\ pool_size \in Nat /\ panic \in {"none", "fsm_state", "slot", "control", "unwrap"}
  /\ budget \in [calls : [Threads -> [Calls -> Nat]], hot : Nat]

Init ==
  /\ status = [b \in Boxes |-> "IDLE"] /\ data = [b \in Boxes |-> TRUE]
  /\ dropped = [b \in Boxes |-> FALSE] /\ connected = [b \in Boxes |-> TRUE]
  /\ chan = [b \in Boxes |-> <<>>]
  /\ stopped = [f \in Fsms |-> FALSE] /\ waiting = [f \in Fsms |-> FALSE]
  /\ pending = [f \in Fsms |-> <<>>] /\ ready = FALSE
  /\ normals \in [Addrs -> Fsms \cup {None}]
  /\ \A a \in Addrs :
       \/ normals[a] \in Registered /\ AddrOf[normals[a]] = a
       \/ normals[a] = None /\ \A f \in Registered : AddrOf[f] # a
  /\ guard = [a \in Addrs |-> None] /\ shutdown = FALSE
  /\ queue = <<>>
  /\ op = [a \in Actors |-> Idle]
  /\ poll = [p \in Pollers |-> IF p \in Started THEN Fresh ELSE [Fresh EXCEPT !.pc = "gone"]]
  /\ pool_size = Cardinality(Started) /\ panic = "none"
  /\ budget \in Workloads

----------------------------------------------------------------------------
(* Sending.  A send through the router holds the entry of the address from   *)
(* the lookup to the end; a send through a Mailbox handle, or to the control *)
(* FSM, holds nothing.                                                       *)

Unlock(a) == guard' = [x \in Addrs |-> IF guard[x] = a THEN None ELSE guard[x]]
Finish(a) == op' = [op EXCEPT ![a] = Idle] /\ Unlock(a)
Goto(a, pc) == op' = [op EXCEPT ![a].pc = pc]
Panic(why) == panic' = why

\* An idle thread makes a call of its workload.
Begin(t, c) ==
  /\ panic = "none" /\ op[t] = Idle /\ budget.calls[t][c] > 0
  /\ budget' = [budget EXCEPT !.calls[t][c] = @ - 1]

\* Router::send and the first half of Router::force_send: check_do finds the
\* mailbox and keeps the entry.
RouterSend(t, x, k, v) ==
  /\ Begin(t, k)
  /\ guard[x] = None /\ normals[x] # None /\ MayReceive(normals[x], k)
  /\ guard' = [guard EXCEPT ![x] = t]
  /\ op' = [op EXCEPT ![t] = [Idle EXCEPT !.pc = "check", !.box = normals[x],
                                          !.kind = k, !.via = v]]
  /\ UNCHANGED <<mailVars, fsmVars, normals, shutdown, queue, poll, pool_size, panic>>

\* Router::mailbox clones a connected mailbox; the message is sent later.
TakeHandle(t, x) ==
  /\ Begin(t, "handle")
  /\ guard[x] = None /\ normals[x] # None /\ connected[normals[x]]
  /\ op' = [op EXCEPT ![t] = [Idle EXCEPT !.pc = "check", !.box = normals[x]]]
  /\ UNCHANGED <<mailVars, fsmVars, routerVars, queue, poll, pool_size, panic>>

ControlSend(t) ==
  /\ Begin(t, "control")
  /\ op' = [op EXCEPT ![t] = [Idle EXCEPT !.pc = "check", !.box = Control]]
  /\ UNCHANGED <<mailVars, fsmVars, routerVars, queue, poll, pool_size, panic>>

\* LooseBoundedSender: try_send may refuse a full channel (it looks at the length
\* only now and then), then Sender::send loads connected.
Check(a) ==
  /\ panic = "none" /\ op[a].pc = "check"
  /\ IF connected[op[a].box] THEN Goto(a, "push") /\ UNCHANGED guard ELSE Finish(a)
  /\ UNCHANGED <<mailVars, fsmVars, normals, shutdown, queue, poll, pool_size, panic,
                 budget>>

CheckFull(a) ==
  /\ panic = "none" /\ op[a].pc = "check" /\ op[a].via \in {"try", "force"}
  /\ Len(chan[op[a].box]) >= Limit
  /\ Unlock(a)
  /\ op' = [op EXCEPT ![a] = IF op[a].via = "force" THEN [@ EXCEPT !.pc = "full"] ELSE Idle]
  /\ UNCHANGED <<mailVars, fsmVars, normals, shutdown, queue, poll, pool_size, panic,
                 budget>>

\* The second half of Router::force_send: normals.get(&addr).unwrap().force_send.
ForceSend(a) ==
  /\ panic = "none" /\ op[a].pc = "full"
  /\ LET x == AddrOf[op[a].box] IN
     /\ guard[x] = None
     /\ IF normals[x] = None THEN Panic("unwrap") /\ UNCHANGED <<op, guard>>
        ELSE /\ guard' = [guard EXCEPT ![x] = a]
             /\ op' = [op EXCEPT ![a].pc = "check", ![a].box = normals[x], ![a].via = "forced"]
             /\ UNCHANGED panic
  /\ UNCHANGED <<mailVars, fsmVars, normals, shutdown, queue, poll, pool_size, budget>>

\* The push of the crossbeam channel, which fails once the receiver is dropped.
Push(a) ==
  /\ panic = "none" /\ op[a].pc = "push"
  /\ LET b == op[a].box
         m == [kind |-> op[a].kind, via |-> IF op[a].via = "handle" THEN "handle" ELSE "router"]
     IN IF dropped[b] THEN Finish(a) /\ UNCHANGED chan
        ELSE Goto(a, "cas") /\ chan' = [chan EXCEPT ![b] = Append(@, m)] /\ UNCHANGED guard
  /\ UNCHANGED <<status, data, dropped, connected, fsmVars, normals, shutdown, queue, poll,
                 pool_size, panic, budget>>

\* take_fsm: the compare_exchange of the status.
\* Mutants: every notification takes the FSM; the cell is looked at, not the status.
CanTakeAlways(b) == status[b] # "DROP"
CanTakeCell(b) == data[b]
CanTake(b) == status[b] = "IDLE"

\* FsmState::notify up to the compare_exchange.
Notify(a) ==
  /\ panic = "none" /\ op[a].pc = "cas"
  /\ LET b == op[a].box
     IN IF CanTake(b)
        THEN /\ status' = [status EXCEPT ![b] = "NOTIFIED"]
             /\ Goto(a, "take") /\ UNCHANGED guard
        ELSE Finish(a) /\ UNCHANGED status
  /\ UNCHANGED <<data, dropped, connected, chan, fsmVars, normals, shutdown, queue, poll,
                 pool_size, panic, budget>>

\* take_fsm swaps the cell for null, set_mailbox, and the scheduler's send.
Schedule(a) ==
  /\ panic = "none" /\ op[a].pc = "take"
  /\ LET b == op[a].box
     IN IF data[b]
        THEN /\ data' = [data EXCEPT ![b] = FALSE] /\ queue' = Append(queue, b)
             /\ UNCHANGED panic
        ELSE Panic("fsm_state") /\ UNCHANGED <<data, queue>>
  /\ Finish(a)
  /\ UNCHANGED <<status, dropped, connected, chan, fsmVars, normals, shutdown, poll,
                 pool_size, budget>>

----------------------------------------------------------------------------
(* Closing a mailbox, registering one, shutting down, resizing the pool.     *)

CloseBox(b, then) == [Idle EXCEPT !.pc = "disc", !.box = b, !.then = then]

\* Router::close by another FSM, as the split of a region does with an
\* uninitialized peer in its way: the entry is removed, then the mailbox closed.
Close(t, x) ==
  /\ Begin(t, "close")
  /\ guard[x] = None /\ normals[x] # None
  /\ normals' = [normals EXCEPT ![x] = None]
  /\ op' = [op EXCEPT ![t] = CloseBox(normals[x], "idle")]
  /\ UNCHANGED <<mailVars, fsmVars, guard, shutdown, queue, poll, pool_size, panic>>

\* Router::register: the new mailbox replaces the old one, which is closed; it does
\* not look at the shutdown.
Register(t, f) ==
  /\ Begin(t, "register")
  /\ f \notin Registered /\ connected[f] /\ guard[AddrOf[f]] = None
  /\ LET old == normals[AddrOf[f]] IN
     /\ old # f
     /\ op' = [op EXCEPT ![t] = IF old = None THEN Idle ELSE CloseBox(old, "idle")]
  /\ normals' = [normals EXCEPT ![AddrOf[f]] = f]
  /\ UNCHANGED <<mailVars, fsmVars, guard, shutdown, queue, poll, pool_size, panic>>

\* BasicMailbox::close: close_sender.
Disconnect(a) ==
  /\ panic = "none" /\ op[a].pc = "disc"
  /\ connected' = [connected EXCEPT ![op[a].box] = FALSE]
  /\ Goto(a, "clear")
  /\ UNCHANGED <<status, data, dropped, chan, fsmVars, routerVars, queue, poll, pool_size,
                 panic, budget>>

Closed(a) == op' = [op EXCEPT ![a] = [Idle EXCEPT !.pc = op[a].then]] /\ Unlock(a)

\* Only the FSM of an idle mailbox is freed by the closer.
\* Mutant: it is taken for freed already.
ClearFreesNot(b) == status[b] = "DROP"
ClearFrees(b) == status[b] = "IDLE"

\* FsmState::clear: the swap of the status.
Clear(a) ==
  /\ panic = "none" /\ op[a].pc = "clear"
  /\ status' = [status EXCEPT ![op[a].box] = "DROP"]
  /\ IF ClearFrees(op[a].box) THEN Goto(a, "free") /\ UNCHANGED guard ELSE Closed(a)
  /\ UNCHANGED <<data, dropped, connected, chan, fsmVars, normals, shutdown, queue, poll,
                 pool_size, panic, budget>>

Free(a) ==
  /\ panic = "none" /\ op[a].pc = "free"
  /\ LET b == op[a].box IN
     /\ data' = [data EXCEPT ![b] = FALSE]
     /\ dropped' = [dropped EXCEPT ![b] = dropped[b] \/ data[b]]
  /\ Closed(a)
  /\ UNCHANGED <<status, connected, chan, fsmVars, normals, shutdown, queue, poll, pool_size,
                 panic, budget>>

\* Router::broadcast_shutdown: the flag, every registered mailbox (the iterator
\* holds its entry), the map, the control mailbox, and a token for every poller.
\* Left out: a mailbox registered behind the iterator, which the map drops unclosed.
Shutdown(t) ==
  /\ Begin(t, "shutdown") /\ ~shutdown
  /\ shutdown' = TRUE
  /\ op' = [op EXCEPT ![t].pc = "sweep"]
  /\ UNCHANGED <<mailVars, fsmVars, normals, guard, queue, poll, pool_size, panic>>

Sweep(t) ==
  /\ panic = "none" /\ op[t].pc = "sweep"
  /\ LET open == {x \in Addrs : normals[x] # None /\ connected[normals[x]]} IN
     \/ \E x \in open :
          /\ guard[x] = None
          /\ guard' = [guard EXCEPT ![x] = t]
          /\ op' = [op EXCEPT ![t] = CloseBox(normals[x], "sweep")] /\ UNCHANGED normals
     \/ /\ open = {} /\ \A x \in Addrs : guard[x] = None
        /\ normals' = [x \in Addrs |-> None]
        /\ op' = [op EXCEPT ![t] = CloseBox(Control, "tokens")] /\ UNCHANGED guard
  /\ UNCHANGED <<mailVars, fsmVars, shutdown, queue, poll, pool_size, panic, budget>>

\* NormalScheduler::shutdown.  Mutant: one token too few.
ShutdownTokensShort == [i \in 1 .. Tokens - 1 |-> Empty]
ShutdownTokens == [i \in 1 .. Tokens |-> Empty]

SendTokens(t) ==
  /\ panic = "none" /\ op[t].pc = "tokens"
  /\ queue' = queue \o ShutdownTokens
  /\ op' = [op EXCEPT ![t] = Idle]
  /\ UNCHANGED <<mailVars, fsmVars, routerVars, poll, pool_size, panic, budget>>

\* PoolController::decrease_by and increase_by, by one thread.
Decrease(t) ==
  /\ Begin(t, "resize") /\ ~shutdown
  /\ pool_size > 1 /\ pool_size' = pool_size - 1
  /\ queue' = Append(queue, Empty)
  /\ UNCHANGED <<mailVars, fsmVars, routerVars, op, poll, panic>>

\* A thread is spawned whether or not the tokens of earlier calls are consumed;
\* threads that have ended are told apart from it in nothing.
Increase(t) ==
  /\ Begin(t, "resize") /\ ~shutdown
  /\ \E p \in Pollers : poll[p].pc = "gone"
  /\ poll' = [poll EXCEPT ![CHOOSE p \in Pollers : poll[p].pc = "gone"] = Fresh]
  /\ pool_size' = pool_size + 1
  /\ UNCHANGED <<mailVars, fsmVars, routerVars, queue, op, panic>>

----------------------------------------------------------------------------
(* Poller::poll.  A poller inside a mailbox operation finishes it first.     *)

At(p, pc) == panic = "none" /\ op[p] = Idle /\ poll[p].pc = pc

SwapRemove(batch, i) ==
  SubSeq([batch EXCEPT ![i] = batch[Len(batch)]], 1, Len(batch) - 1)

\* fetch_fsm, then begin.  recv blocks when there is nothing to do.
FetchFsm(p) ==
  /\ At(p, "fetch")
  /\ LET q == poll[p]
         next == IF q.ctl THEN "control" ELSE "handle"
     IN \/ /\ q.ctl \/ (queue = <<>> /\ q.batch # <<>>)
           /\ poll' = [poll EXCEPT ![p] = [q EXCEPT !.pc = next, !.i = 1, !.top = FALSE]]
           /\ UNCHANGED queue
        \/ /\ ~q.ctl /\ queue # <<>>
           /\ queue' = Tail(queue)
           /\ poll' = [poll EXCEPT ![p] =
                CASE Head(queue) = Empty -> [q EXCEPT !.pc = "exit"]
                  [] Head(queue) = Control ->
                       [q EXCEPT !.pc = "control", !.ctl = TRUE, !.i = 1, !.top = FALSE]
                  [] OTHER -> [q EXCEPT !.pc = "handle", !.i = 1, !.top = FALSE,
                                        !.batch = Append(@, Slot(Head(queue)))]]
  /\ UNCHANGED <<mailVars, fsmVars, routerVars, op, pool_size, panic, budget>>

\* handle_control takes up to messages_per_tick messages; release_control when it
\* saw the channel empty, the control FSM is kept otherwise.
HandleControl(p) ==
  /\ At(p, "control")
  /\ LET n == Len(chan[Control])
         k == IF n < MsgsPerTick THEN n ELSE MsgsPerTick
     IN /\ chan' = [chan EXCEPT ![Control] = SubSeq(@, k + 1, n)]
        /\ poll' = [poll EXCEPT ![p] =
             IF n < MsgsPerTick
             THEN [@ EXCEPT !.pc = "rel_data", !.cur = Control, !.len = 0, !.recheck = TRUE,
                            !.back = "handle"]
             ELSE [@ EXCEPT !.pc = "handle"]]
  /\ UNCHANGED <<status, data, dropped, connected, fsmVars, routerVars, queue, op,
                 pool_size, panic, budget>>

\* The poller after slot q.i is handled, and when the slot has a policy.
Onward(q) ==
  IF ~q.top /\ q.i < Len(q.batch) THEN [q EXCEPT !.pc = "handle", !.i = @ + 1]
  ELSE [q EXCEPT !.pc = "top_up", !.i = 1, !.top = FALSE]
WithPolicy(q, pol) == [Onward(q) EXCEPT !.batch[q.i].pol = pol, !.resched = Append(@, q.i)]

\* What poll does with a handled FSM that goes on.  r is [stop, len, skip]; a hot
\* FSM, or one of another priority, is put back into the queue unless it was
\* fetched this round.
Kept(p, r) ==
  LET q == [poll[p] EXCEPT !.len = 0, !.stop = FALSE]
      With(pol) == WithPolicy(q, pol)
      Skip(n) == IF r.skip THEN [n EXCEPT !.skip = Append(@, q.i)] ELSE n
  IN \/ /\ ~q.top /\ budget.hot > 0
        /\ budget' = [budget EXCEPT !.hot = @ - 1]
        /\ poll' = [poll EXCEPT ![p] = With([p |-> "schedule"])]
     \/ /\ UNCHANGED budget
        /\ poll' = [poll EXCEPT ![p] =
             IF r.stop THEN Skip(With([p |-> "release", len |-> r.len])) ELSE Onward(q)]

\* The start of handle_normal.  An FSM that waits for a merge source reads the
\* length of its channel before it looks whether the source is ready.
HandleNormal(p) ==
  /\ At(p, "handle")
  /\ LET q == poll[p] IN
     /\ q.i <= Len(q.batch)
     /\ IF q.batch[q.i].fsm = None THEN Panic("slot") /\ UNCHANGED poll
        ELSE LET f == q.batch[q.i].fsm IN
             /\ waiting[f]
             /\ poll' = [poll EXCEPT ![p].pc = "resume", ![p].len = Len(chan[f])]
             /\ UNCHANGED panic
  /\ UNCHANGED <<mailVars, fsmVars, routerVars, queue, op, pool_size, budget>>

\* resume_pending: still waiting, or back to the pending messages.
Resume(p) ==
  /\ At(p, "resume")
  /\ LET f == poll[p].batch[poll[p].i].fsm IN
     \/ /\ ~ready /\ Kept(p, [stop |-> TRUE, len |-> poll[p].len, skip |-> FALSE])
        /\ UNCHANGED fsmVars
     \/ /\ ready
        /\ waiting' = [waiting EXCEPT ![f] = FALSE]
        /\ pending' = [pending EXCEPT ![f] = <<>>]
        /\ poll' = [poll EXCEPT ![p].pc = "resumed", ![p].buf = pending[f]]
        /\ UNCHANGED <<stopped, ready, budget>>
  /\ UNCHANGED <<mailVars, routerVars, queue, op, pool_size, panic>>

\* try_recv until messages_per_tick messages are taken or the channel is empty; a
\* plain task has no further effect on the batch system.
Drain(p) ==
  /\ \/ At(p, "drain")
     \/ /\ At(p, "handle") /\ poll[p].i <= Len(poll[p].batch)
        /\ LET f == poll[p].batch[poll[p].i].fsm IN f # None /\ ~waiting[f]
  /\ LET f == poll[p].batch[poll[p].i].fsm
         n == Len(chan[f])
         k == IF n < MsgsPerTick THEN n ELSE MsgsPerTick
     IN /\ chan' = [chan EXCEPT ![f] = SubSeq(@, k + 1, n)]
        /\ poll' = [poll EXCEPT ![p] = [@ EXCEPT !.pc = "msgs", !.len = 0,
                       !.buf = SelectSeq(SubSeq(chan[f], 1, k), LAMBDA m : m.kind # "task"),
                       !.stop = n < MsgsPerTick]]
  /\ UNCHANGED <<status, data, dropped, connected, fsmVars, routerVars, queue, op,
                 pool_size, panic, budget>>

\* The end of handle_tasks or handle_msgs: a waiting FSM stops at the length it
\* knows, a resumed one goes on to its channel.
HandleDone(p) ==
  /\ At(p, "msgs") \/ At(p, "resumed")
  /\ LET q == poll[p]
         f == q.batch[q.i].fsm
     IN /\ q.buf = <<>>
        /\ IF q.pc = "resumed" /\ ~waiting[f] THEN poll' = [poll EXCEPT ![p].pc = "drain"] /\ UNCHANGED budget
           ELSE IF stopped[f]
           THEN /\ poll' = [poll EXCEPT ![p] = WithPolicy([q EXCEPT !.len = 0, !.stop = FALSE],
                                                         [p |-> "remove"])]
                /\ UNCHANGED budget
           ELSE \E skip \in BOOLEAN :
                  /\ skip => q.stop /\ ~waiting[f]
                  /\ Kept(p, [stop |-> waiting[f] \/ q.stop, len |-> q.len, skip |-> skip])
  /\ UNCHANGED <<mailVars, fsmVars, routerVars, queue, op, pool_size, panic>>

Pop(p) == poll' = [poll EXCEPT ![p].buf = Tail(@)]

\* A CommitMerge whose source is ready, or a message that a stopped FSM skips.
HandleOther(p) ==
  /\ At(p, "msgs") \/ At(p, "resumed")
  /\ LET q == poll[p]
         f == q.batch[q.i].fsm
     IN /\ q.buf # <<>>
        /\ \/ Head(q.buf).kind = "merge" /\ (ready \/ stopped[f])
           \/ Head(q.buf).kind = "stop" /\ stopped[f]
  /\ Pop(p)
  /\ UNCHANGED <<mailVars, fsmVars, routerVars, queue, op, pool_size, panic, budget>>

\* CommitMerge before the source has caught up: the entry and what follows it
\* stay with the FSM.
HandleMerge(p) ==
  /\ At(p, "msgs") \/ At(p, "resumed")
  /\ LET q == poll[p]
         f == q.batch[q.i].fsm
     IN /\ q.buf # <<>> /\ Head(q.buf).kind = "merge" /\ ~ready /\ ~stopped[f]
        /\ waiting' = [waiting EXCEPT ![f] = TRUE]
        /\ pending' = [pending EXCEPT ![f] = q.buf]
        /\ poll' = [poll EXCEPT ![p].buf = <<>>]
  /\ UNCHANGED <<mailVars, stopped, ready, routerVars, queue, op, pool_size, panic, budget>>

\* The FSM destroys itself: it stops and closes its address, whoever is there
\* (ApplyDelegate::destroy).  A peer that finds another peer in its place goes on
\* (destroy_peer); only a delegate gets LogsUpToDate.
HandleStop(p) ==
  /\ At(p, "msgs") \/ At(p, "resumed")
  /\ LET q == poll[p]
         f == q.batch[q.i].fsm
         x == AddrOf[f]
     IN /\ q.buf # <<>> /\ Head(q.buf).kind \in {"stop", "catch_up"} /\ ~stopped[f]
        /\ guard[x] = None
        /\ \E leaves \in {FALSE, Head(q.buf).kind = "stop" /\ normals[x] \notin {f, None}} :
             /\ stopped' = [stopped EXCEPT ![f] = ~leaves]
             /\ IF leaves \/ normals[x] = None THEN UNCHANGED <<normals, op>>
                ELSE /\ normals' = [normals EXCEPT ![x] = None]
                     /\ op' = [op EXCEPT ![p] = CloseBox(normals[x], "idle")]
        /\ IF Head(q.buf).kind = "stop" THEN Pop(p) ELSE UNCHANGED poll
  /\ UNCHANGED <<mailVars, waiting, pending, ready, guard, shutdown, queue, pool_size, panic,
                 budget>>

\* logs_up_to_date_for_merge after the destroy: publish, then wake the target
\* through a handle of its mailbox.
HandleCatchUp(p) ==
  /\ At(p, "msgs") \/ At(p, "resumed")
  /\ LET q == poll[p]
         f == q.batch[q.i].fsm
         x == AddrOf[Target]
     IN /\ q.buf # <<>> /\ Head(q.buf).kind = "catch_up" /\ stopped[f]
        /\ guard[x] = None
        /\ ready' = TRUE
        /\ IF normals[x] # None /\ connected[normals[x]]
           THEN op' = [op EXCEPT ![p] = [Idle EXCEPT !.pc = "check", !.box = normals[x]]]
           ELSE UNCHANGED op
  /\ Pop(p)
  /\ UNCHANGED <<mailVars, stopped, waiting, pending, routerVars, queue, pool_size, panic,
                 budget>>

\* The poller after Batch::push of x, in the second loop of a round.
\* Mutant: the result of push is ignored.
PushedOn(q, x) ==
  CASE x = Empty -> [q EXCEPT !.pc = "light_end"]
    [] x = Control -> [q EXCEPT !.pc = "light_end", !.ctl = TRUE]
    [] OTHER -> [q EXCEPT !.pc = "handle", !.top = TRUE, !.i = Len(q.batch) + 1,
                          !.batch = Append(@, Slot(x))]
Pushed(q, x) ==
  CASE x = Empty -> [q EXCEPT !.pc = "light_end", !.run = FALSE]
    [] x = Control -> [q EXCEPT !.pc = "light_end", !.ctl = TRUE]
    [] OTHER -> [q EXCEPT !.pc = "handle", !.top = TRUE, !.i = Len(q.batch) + 1,
                          !.batch = Append(@, Slot(x))]

\* The second loop of a round: fetch and handle more FSMs while the batch is small.
\* A token or the control FSM ends it.
TopUp(p) ==
  /\ At(p, "top_up") \/ (At(p, "handle") /\ poll[p].i > Len(poll[p].batch))
  /\ LET q == [poll[p] EXCEPT !.i = 1] IN
     IF Len(q.batch) >= MaxBatch \/ queue = <<>>
     THEN /\ poll' = [poll EXCEPT ![p] = [q EXCEPT !.pc = "light_end"]]
          /\ UNCHANGED <<queue, panic>>
     ELSE /\ queue' = Tail(queue)
          /\ IF Head(queue) = Control /\ q.ctl THEN Panic("control") ELSE UNCHANGED panic
          /\ poll' = [poll EXCEPT ![p] = Pushed(q, Head(queue))]
  /\ UNCHANGED <<mailVars, fsmVars, routerVars, op, pool_size, budget>>

\* Batch::release or remove of slot i takes its FSM to the data cell.
\* Mutant: the length is read now, not by the handler.
StartReleaseLate(q, i, pc) ==
  LET s == q.batch[i] IN
  [q EXCEPT !.pc = "rel_data", !.i = i, !.cur = s.fsm, !.recheck = s.pol.p = "release",
            !.back = pc, !.len = Len(chan[s.fsm])]
StartRelease(q, i, pc) ==
  LET s == q.batch[i] IN
  [q EXCEPT !.pc = "rel_data", !.i = i, !.cur = s.fsm, !.recheck = s.pol.p = "release",
            !.back = pc, !.len = IF s.pol.p = "release" THEN s.pol.len ELSE 0]

\* After the handler's light_end the FSMs that skip end are scheduled; they all have
\* the policy Release.
LightEnd(p) ==
  /\ At(p, "light_end") /\ poll[p].skip # <<>>
  /\ poll' = [poll EXCEPT ![p] =
                 StartRelease([@ EXCEPT !.skip = Tail(@)], Head(@.skip), "light_end")]
  /\ UNCHANGED <<mailVars, fsmVars, routerVars, queue, op, pool_size, panic, budget>>

\* Batch::remove.  Mutant: messages are not looked at.
KeepsNone(f) == FALSE
Keeps(f) == chan[f] # <<>>

\* end, then Batch::schedule of the slots to reschedule, from the last to the first;
\* swap_reclaim takes an emptied slot out of the batch.
End(p) ==
  /\ At(p, "end") \/ (At(p, "light_end") /\ poll[p].skip = <<>>)
  /\ poll[p].resched # <<>>
  /\ LET i == poll[p].resched[Len(poll[p].resched)]
         q == [poll[p] EXCEPT !.pc = "end", !.resched = SubSeq(@, 1, Len(@) - 1)]
         s == q.batch[i]
         kept == [q EXCEPT !.batch[i].pol = NoPolicy]
         emptied == [q EXCEPT !.batch = SwapRemove(@, i)]
     IN IF s.fsm = None THEN poll' = [poll EXCEPT ![p] = emptied] /\ UNCHANGED queue
        ELSE CASE s.pol.p = "none" -> poll' = [poll EXCEPT ![p] = kept] /\ UNCHANGED queue
               [] s.pol.p = "schedule" ->
                    poll' = [poll EXCEPT ![p] = emptied] /\ queue' = Append(queue, s.fsm)
               [] s.pol.p = "remove" /\ Keeps(s.fsm) ->
                    poll' = [poll EXCEPT ![p] = kept] /\ UNCHANGED queue
               [] OTHER -> poll' = [poll EXCEPT ![p] = StartRelease(q, i, "end")]
                           /\ UNCHANGED queue
  /\ UNCHANGED <<mailVars, fsmVars, routerVars, op, pool_size, panic, budget>>

\* The end of a round.
NextRound(p) ==
  /\ At(p, "end") \/ (At(p, "light_end") /\ poll[p].skip = <<>>)
  /\ poll[p].resched = <<>>
  /\ poll' = [poll EXCEPT ![p] = [Fresh EXCEPT !.batch = poll[p].batch, !.ctl = poll[p].ctl,
                                     !.pc = IF poll[p].run THEN "fetch" ELSE "exit"]]
  /\ UNCHANGED <<mailVars, fsmVars, routerVars, queue, op, pool_size, panic, budget>>

\* FsmState::release: the swap of the data cell.
ReleaseData(p) ==
  /\ At(p, "rel_data")
  /\ LET q == poll[p]
         b == q.cur
     IN /\ IF data[b] THEN Panic("fsm_state") ELSE UNCHANGED panic
        /\ data' = [data EXCEPT ![b] = TRUE]
        /\ poll' = [poll EXCEPT ![p] =
             IF b = Control THEN [q EXCEPT !.pc = "rel_cas", !.ctl = FALSE]
             ELSE [q EXCEPT !.pc = "rel_cas", !.batch[q.i] = Slot(None)]]
  /\ UNCHANGED <<status, dropped, connected, chan, fsmVars, routerVars, queue, op,
                 pool_size, budget>>

\* The poller after a release that did not get the FSM back, and after one that did.
Back(q) == [q EXCEPT !.pc = q.back, !.cur = None, !.i = 1, !.len = 0, !.recheck = FALSE,
                     !.back = "end"]
\* Mutant: swap_reclaim is left out.
ReleasedInPlace(q) == Back(q)
Released(q) ==
  IF q.back = "end" THEN [Back(q) EXCEPT !.batch = SwapRemove(@, q.i)] ELSE Back(q)
Retaken(q) ==
  LET r == Back(q) IN
  IF q.cur = Control THEN [r EXCEPT !.ctl = TRUE] ELSE [r EXCEPT !.batch[q.i] = Slot(q.cur)]

\* The compare_exchange of the status; a closed mailbox frees the FSM.
ReleaseStatus(p) ==
  /\ At(p, "rel_cas")
  /\ LET q == poll[p]
         b == q.cur
     IN /\ CASE status[b] = "NOTIFIED" ->
                   status' = [status EXCEPT ![b] = "IDLE"] /\ UNCHANGED <<data, dropped, panic>>
             [] status[b] = "DROP" ->
                   /\ data' = [data EXCEPT ![b] = FALSE]
                   /\ dropped' = [dropped EXCEPT ![b] = TRUE]
                   /\ UNCHANGED <<status, panic>>
             [] OTHER -> Panic("fsm_state") /\ UNCHANGED <<status, data, dropped>>
        /\ poll' = [poll EXCEPT ![p] = IF q.recheck THEN [q EXCEPT !.pc = "rel_len"]
                                       ELSE Released(q)]
  /\ UNCHANGED <<connected, chan, fsmVars, routerVars, queue, op, pool_size, budget>>

\* Batch::release looks at the length of the channel again.
\* Mutant: one message more is not seen.
SameLenLoose(q) == Len(chan[q.cur]) <= q.len + 1
SameLen(q) == Len(chan[q.cur]) = q.len
ReleaseCheck(p) ==
  /\ At(p, "rel_len")
  /\ poll' = [poll EXCEPT ![p] = IF SameLen(@) THEN Released(@)
                                 ELSE [@ EXCEPT !.pc = "rel_retake"]]
  /\ UNCHANGED <<mailVars, fsmVars, routerVars, queue, op, pool_size, panic, budget>>

Retake(p) ==
  /\ At(p, "rel_retake")
  /\ LET q == poll[p] IN
     IF CanTake(q.cur)
     THEN /\ status' = [status EXCEPT ![q.cur] = "NOTIFIED"]
          /\ poll' = [poll EXCEPT ![p].pc = "rel_take"]
     ELSE poll' = [poll EXCEPT ![p] = Released(q)] /\ UNCHANGED status
  /\ UNCHANGED <<data, dropped, connected, chan, fsmVars, routerVars, queue, op, pool_size,
                 panic, budget>>

RetakeData(p) ==
  /\ At(p, "rel_take")
  /\ LET q == poll[p] IN
     /\ IF data[q.cur] THEN UNCHANGED panic ELSE Panic("fsm_state")
     /\ data' = [data EXCEPT ![q.cur] = FALSE]
     /\ poll' = [poll EXCEPT ![p] = Retaken(q)]
  /\ UNCHANGED <<status, dropped, connected, chan, fsmVars, routerVars, queue, op,
                 pool_size, budget>>

\* After the loop: what is left in the batch goes back to the queue.
Exit(p) ==
  /\ At(p, "exit")
  /\ LET q == poll[p] IN
     queue' = queue \o (IF q.ctl THEN <<Control>> ELSE <<>>)
                    \o [i \in 1 .. Len(q.batch) |-> q.batch[i].fsm]
  /\ poll' = [poll EXCEPT ![p] = [Fresh EXCEPT !.pc = "gone"]]
  /\ UNCHANGED <<mailVars, fsmVars, routerVars, op, pool_size, panic, budget>>

----------------------------------------------------------------------------

Call(t) ==
  \/ \E x \in Addrs : \/ \E k \in Kinds, v \in {"try", "force"} : RouterSend(t, x, k, v)
                      \/ TakeHandle(t, x) \/ Close(t, x)
  \/ ControlSend(t) \/ Shutdown(t) \/ Decrease(t) \/ Increase(t)
  \/ \E f \in Fsms : Register(t, f)

Operate(a) ==
  \/ Check(a) \/ CheckFull(a) \/ ForceSend(a) \/ Push(a) \/ Notify(a) \/ Schedule(a)
  \/ Disconnect(a) \/ Clear(a) \/ Free(a) \/ Sweep(a) \/ SendTokens(a)

Poll(p) ==
  \/ FetchFsm(p) \/ HandleControl(p) \/ HandleNormal(p) \/ Resume(p) \/ Drain(p)
  \/ HandleDone(p) \/ HandleOther(p) \/ HandleMerge(p) \/ HandleStop(p) \/ HandleCatchUp(p)
  \/ TopUp(p) \/ LightEnd(p) \/ End(p) \/ NextRound(p)
  \/ ReleaseData(p) \/ ReleaseStatus(p) \/ ReleaseCheck(p) \/ Retake(p) \/ RetakeData(p)
  \/ Exit(p)

Work == (\E a \in Actors : Operate(a)) \/ (\E p \in Pollers : Poll(p))

Next == (\E t \in Threads : Call(t)) \/ Work

Spec == Init /\ [][Next]_vars

\* Some thread inside a call, or some poller with work, runs.  The operating system
\* guarantees more, each of them; the properties below need only this.
FairSpec == Spec /\ WF_vars(Work)

----------------------------------------------------------------------------
(* Properties. *)

Times(x, seq) == Cardinality({i \in 1 .. Len(seq) : seq[i] = x})
Slotted(f, p) == {i \in 1 .. Len(poll[p].batch) : poll[p].batch[i].fsm = f}

\* The holders of an FSM: the cell of its mailbox, places of the queue, slots of
\* the pollers.
Holders(b) ==
  {<<"cell">> : x \in {y \in {1} : data[b]}}
  \cup {<<"queue", i>> : i \in {j \in 1 .. Len(queue) : queue[j] = b}}
  \cup {<<"control", p>> : p \in {r \in Pollers : b = Control /\ poll[r].ctl}}
  \cup UNION {{<<"batch", p, i>> : i \in Slotted(b, p)} : p \in Pollers}

\* An FSM that is not freed has exactly one holder and a freed one has none, however
\* senders, closers and pollers interleave their atomic operations on FsmState
\* (take_fsm, release, clear): no FSM is polled by two threads, none is lost and
\* none is freed twice.
SingleHolder == \A b \in Boxes : Cardinality(Holders(b)) = IF dropped[b] THEN 0 ELSE 1

Out(b) ==
  \/ \E i \in 1 .. Len(queue) : queue[i] = b
  \/ \E p \in Pollers : Slotted(b, p) # {} \/ (b = Control /\ poll[p].ctl)

\* Where an actor is in an operation of FsmState on mailbox b.
Inside(a, b) ==
  CASE op[a].box = b /\ op[a].pc \in {"take", "free"} -> op[a].pc
    [] a \in Pollers /\ poll[a].cur = b /\ poll[a].pc = "rel_cas" -> "release"
    [] a \in Pollers /\ poll[a].cur = b /\ poll[a].pc = "rel_take" -> "take"
    [] OTHER -> "idle"

Cell(b) == INSTANCE FsmState WITH
  status <- status[b], data <- data[b], out <- Out(b),
  freed <- dropped[b], pc <- [a \in Actors |-> Inside(a, b)],
  broken <- panic = "fsm_state"

\* Every mailbox implements FsmState: senders, closers, a destroyed FSM and
\* Batch::release use it by its protocol, and an FSM goes into and out of its cell
\* in no other way.
ImplementsFsmState ==
  /\ \A b \in Boxes : Cell(b)!Init
  /\ [][\A b \in Boxes : UNCHANGED Cell(b)!vars \/ Cell(b)!Next]_vars

\* The panics of take_fsm and release, the unwrap of a slot in poll and the
\* assertion of Batch::push are never reached.  Router::force_send can meet a
\* closed address between its two lookups, which is the only panic left.
NoPanic == panic \in {"none", "unwrap"}

\* A message that the router accepted is handled before a destroyed FSM is freed
\* (Batch::remove keeps an FSM with messages): raft command callbacks are invoked.
AcceptedIsHandled ==
  \A f \in Fsms : stopped[f] /\ dropped[f] =>
    \A i \in 1 .. Len(chan[f]) : chan[f][i].via = "handle"

\* Until the shutdown the pollers that will go on polling are as many as the pool
\* size once every token is consumed: resizing loses and duplicates no thread.
PoolSizeExact ==
  ~shutdown => Cardinality({p \in Pollers : poll[p].run /\ poll[p].pc \notin {"exit", "gone"}})
                 = pool_size + Times(Empty, queue)

\* Once the threads of a workload make no more calls, every message in an open
\* mailbox is taken, unless its FSM waits for a merge source.
MessagesTaken ==
  <>[](\/ panic # "none"
       \/ \A b \in Boxes : connected[b] /\ chan[b] # <<>> => b = Target /\ waiting[b])

\* A target that waits for its source goes on once the source is ready: the wake-up
\* message is not lost in the race of resume_pending with release.
MergeResumes ==
  <>[](panic # "none" \/ (ready /\ waiting[Target] => ~connected[Target]))

\* The FSM of a closed mailbox is freed, by its closer or by the poller that has it.
ClosedIsFreed ==
  <>[](\/ panic # "none" \/ shutdown
       \/ \A f \in Fsms : ~connected[f] => dropped[f])

\* Every poller ends after a shutdown.
ShutdownEnds ==
  <>[](panic # "none" \/ (shutdown => \A p \in Pollers : poll[p].pc = "gone"))

============================================================================
