# ioa++ in TLA+

ioa++ is a C++ framework for programs written as I/O automata. User code
defines automata with input, output and internal actions. A *model* keeps the
automata and the bindings between their actions; a *scheduler* runs actions in
several threads. This directory specifies the parts that every ioa++ program
depends on, the helpers and socket automata of the library, and the distributed
algorithms among its examples; checks them with TLC on small instances; and
proves the most important safety properties for all instances with TLAPS.

Paths below are relative to the repository (`src/` in `PROJECT.json`).

## 1. The system

### Components

| component | state | operations | correct when |
|---|---|---|---|
| aid allocator (`lib/sequential_set.hpp`) | counter, ids in use | `take`, `replace`, `clear` | an id is free when handed out and not reused soon, across the wrap of the counter |
| registry (`lib/model.*`, `lib/automaton_record.*`) | `m_aids`, `m_instances`, `m_records` (tree, keys in use), `m_bindings` (executors and their binding records) | `create` (root, child), `bind`, `unbind`, `destroy` (target, child), `clear` | the five collections agree, the tree is a tree, no binding dangles, an action never involves an automaton twice |
| automata (`lib/automaton.cpp`) | ten sets of helpers: to send, sent, granted, for create/destroy and bind/unbind | `create`, `bind`, `unbind`, `destroy`; four system outputs; four system inputs; destructor | each request gets one answer, the automaton's view converges to the registry, no assertion fails |
| runnables (`lib/*_runnable.hpp`, `lib/runnable_interface.cpp`) | what to do, for whom; a global count of existing ones | construct, run, delete | the count is zero exactly when nothing is left to do |
| executors (`include/ioa/action_executor.hpp`) | automaton, member, parameter; an output's binding records | lock, run, unlock in order of aids; bind, unbind | no deadlock, locked code excludes other locked code of its automaton |
| simple scheduler (`lib/simple_scheduler.cpp`, `lib/blocking_list.hpp`) | several threads: system queue, one queue per context, timer, read, write and close queues, wakeup pipe, the I/O thread's maps | `schedule...`, `close`, `run` | nothing scheduled is lost, duplicates are few, `run` returns when nothing is left |
| global fifo scheduler (`lib/global_fifo_scheduler.cpp`) | one thread: configuration queue, user queue, timers, read and write registrations, closes | the same | the same, and the earliest time asked for an action is in force |
| managers (`include/ioa/*_manager.hpp`) | keys, handles, a state of the request | `bind`, `unbind`, `create`, `destroy`; callbacks from the automaton | a helper outlives its use, asks once, and is deleted once |
| observers (`lib/observer.cpp`) | who observes whom; additions and removals during a notification | add, remove, notify, destruct | nobody is called after it is gone, and who has to be told is observed |
| TCP automata (`lib/tcp_*`) | a socket, two state machines with their buffers, an error state; connections waiting for a descriptor | accept, connect, hand over a descriptor, send, receive, report | bytes in order, every enabled action scheduled, an accepted descriptor has one holder (the connector's may be closed twice) |
| UDP automata (`lib/udp_*`) | a socket, a queue, who was served and must be told | send, send complete, receive | one message of a user at a time, its completion reported |
| TCP ring (`examples/tcp_ring_automaton.hpp`) | managers of an acceptor, a connector, two connections; queues of messages | made, failed, retried; messages passed on | an automaton refers to what it made and has not ended, one message at a time; that ended connections do not report is false (finding 6) |
| ring elections (`examples/asynch_lcr_*`, `peterson_leader_*`) | identifiers, mode, channels | compare, pass on, report | one leader, once |
| network algorithms (`examples/asynch_{spanning_tree,bfs,bellman_ford,bcast_ack}_*`) | parent, distance, value, channels | search, tell a shorter distance, broadcast, acknowledge | parents form a tree below the root, distances are the shortest, the root reports last |
| other examples (`examples/echo_*`, `clock` ...) | - | - | - |
| locks, threads, time, addresses, allocators | wrappers | - | - |

### How they interact

    user code --calls--> automaton --(sys_create, sys_bind ...)--> system queue
        ^                   ^                                          |
        |                   | created, bound, unbound, destroyed       v
     executors <------------+---------------------------------- registry (model)
        ^
        |  context queues <-- schedule --- user code, I/O thread (timers, fds)

An automaton asks for children and bindings through *helpers*. A helper is put
in a set; a `sys_...` runnable lets the automaton choose a helper and hand out
a request, which is pushed to the system queue; the system thread runs the
request on the registry under the unique lock, and the registry posts the answer
to the system queue; running the answer moves the helper to its next set. A
destruction posts notifications nobody asked for. Actions run in the threads of
the contexts: under the shared lock of the registry and the mutexes of the automata that
take part.

### What is hard

* Requests, answers and the consequences of destructions overtake each other
  (`lib/automaton.cpp`, `lib/model.cpp`); helpers are reused.
* `inner_destroy` must update five collections, for a subtree.
* Locks are taken in an order computed from bindings that change.
* Duplicate search and push, and push and wakeup, are separate steps
  (`lib/simple_scheduler.cpp`).
* Termination is detected by a counter while threads block in queues and `select`.
* Helpers observe each other and delete themselves in the middle of a notification
  (`include/ioa/binding_manager.hpp`, `lib/observer.cpp`).
* A socket automaton must schedule by itself every action that becomes enabled: by
  its own steps, by a binding made late, by a binding taken away.
* A descriptor changes hands between automata that may be destroyed at any time.
* What an automaton reports may still arrive after its owner asked for its end
  (`examples/tcp_ring_automaton.hpp`).
* `PROJECT.json` lists each of these at its line under `hazards`, with the
  properties that cover it, or the reason why none does.

## 2. Modules

| module | of | extends / uses |
|---|---|---|
| `IdFactory` | abstract: what a client of the aid allocator relies on | - |
| `SequentialSet` | `sequential_set.hpp` | refines `IdFactory` |
| `Registry` | abstract: what executions see of the registry | - |
| `Model` | `model.cpp`, `automaton_record.cpp`, the binding records of executors | instance of `SequentialSet`; refines `Registry` |
| `System` | `automaton.cpp`, the requests and notifications, the system queue | extends `Model` |
| `Execution` | `model::execute...`, the locking executors | steps of `Registry` |
| `SimpleScheduler` | `simple_scheduler.cpp`, `blocking_list.hpp` | - |
| `GlobalFifo` | `global_fifo_scheduler.cpp` | - |
| `Managers` | `automaton_manager.hpp`, `binding_manager.hpp`, `observer.cpp` | - |
| `TcpConnection` | two `tcp_connection_automaton`s and the kernel between them | - |
| `TcpSetup` | `tcp_acceptor_automaton.cpp`, `tcp_connector_automaton.cpp`, `connection_init_automaton` | - |
| `Udp` | `udp_sender_automaton.cpp`, `udp_receiver_automaton.cpp`, the network | - |
| `TcpRing` | `tcp_ring_automaton.hpp` | - |
| `Election` | abstract: what an election promises | - |
| `LcrRing`, `PetersonRing` | the two ring elections with `channel_automaton` | refine `Election` |
| `Network` | the networks of `examples/bidirectional_*` | - |
| `SpanningTree`, `ShortestPaths`, `BcastAck` | the algorithms on them | extend `Network` |
| `ModelProofs` | theorems about `Model`; that it refines `Registry` | `Model` |
| `SystemProofs` | theorems about `System`, from those about `Model` | `System`, `ModelProofs` |
| `ExecutionProofs`, `SchedulerProofs`, `FifoProofs`, `TcpConnectionProofs` | theorems about the module of that name | that module |
| `PartsProofs` | theorems about `SequentialSet`, `Managers`, `TcpRing`, `Udp` and `TcpSetup`, and about `MCParts` | `MCParts`, `TcpConnectionProofs` |
| `DistributedProofs` | theorems about the networks and rings of `MCParts`, and its type invariant | `PartsProofs` |
| `MCModel`, `MCExecution`, `MCScheduler`, `MCRuntime`, `MCParts` | values, symmetry and the harness for TLC | - |

**SequentialSet.** `Takes` is the loop of `take` without its iterations: the
first free value after the counter, wrapping at `MaxId`. `recent` is a history
variable that states what the class's comment promises: an id given back does
not come out again within the next `Window - 1` takes.

**Model.** Variables are the members of `model`: `counter` and `aids` are
`m_aids`, `records` is `m_records` (each `Record` the fields of
`automaton_record`), `executors` is `m_bindings` and `bindings` the binding
records inside its executors. Each operation holds the unique lock throughout, so it is one
step; what the operation posts is in `System`. `BindResult` is the chain
of checks of `bind`, in order. `InnerDestroy` states the recursion's outcome:
`Subtree` is the least set closed under `Children`, which is provable where a
recursive definition is not. Assumed: all automata have one type, so the
`dynamic_cast` of an executor succeeds exactly when the automaton lives.

**System.** Adds the helper sets, the system queue, and the request `inhand`
between the automaton's unlock and the push. Each `Execute...`, `Run...` and
`Notify` step is what `process_sysq` does with the head of the queue, with the
pushes of `schedule ()` at the end. `aborted` holds the result whose assertion
stopped the program. A destruction's notifications come in any order the
sets of pointers can have, children before parents (`DestroyOrders`,
`DestroyPosts`). `Underway` is the queue with the request that is on its way to it.
User calls happen whenever user code can run, and respect what
the called functions assert of their argument.

**Execution.** A thread's `job` goes through locking, running user code of one
automaton after another, unlocking. `LockSet` follows `lock_in_order` exactly:
the output's automaton is locked only when an input with a greater aid follows.
`Home` is the context of an automaton (`aid % THREAD_COUNT`): `Begin` lets it begin the automaton's
actions, and the system thread the system actions and hooks. Code of an automaton runs
elsewhere only as an input of another one's output.
What the writer changes is any step of `Registry`, which `Model` is checked to
implement; so the result does not depend on how the registry works.

**SimpleScheduler.** Threads loop over check, pop, run (`pc`); the I/O thread
goes through its four queues, `select`, dispatch and the drain of the pipe. A
call of the scheduler is two steps, `half` being the second (push or delete
after the search, wakeup after the push). The runnable count is not a variable
but its meaning (`NoRunnable`: no queue, map, thread or call has one). Who may schedule
an action at the same time is what `Execution` leaves: the thread of its automaton's context, with an
output that is not locked; one other thread that runs locked code of it (`OutsideContext`); and the I/O
thread, which asks nobody. `EndOfRun` is the destruction of what is
left after the threads were joined, whose destructors may still close descriptors
(`CloseLate`), and the next call of `run` (`RunAgain`): the system queue and the
contexts' queues are cleared, the pipe is new, and the close queue is left as it was. Which of two times is earlier is abstracted:
a timer expires some time after it was set. (`GlobalFifo` has the times; the two
maps of timers are kept by the same code in both schedulers.)

**GlobalFifo.** One thread goes round a loop, `pc`: register what was asked
for (timers one request at a time, so the clock may advance in between), remove closed descriptors, `select`, run one configuration runnable, run one
action. While a runnable is in execution (`hold`), it calls the scheduler.
Times are relative to the clock: `Tick` makes each one smaller, and a time that has
gone by is `Past`. `wanted` is a history variable: the earliest time asked for since
the timer last expired. A descriptor's number is used again by `Open`, once
it was closed. Configuration runnables are only counted; what they do is
in `System`. A close that meets neither a timer nor a registration is dropped
without closing the descriptor (`Purge`; see the hazard at
`lib/global_fifo_scheduler.cpp:379`): no descriptor is closed too early, but one may
stay open.

**Managers.** `am[a]` and `bm[b]` are the two kinds of helper of one owner, each with the
owner's sets it is in (`stage`, `ending`); the system's answers, which `System` models, come in any
order. A `binding_manager` observes the automaton managers whose handles it lacks
(`observables`); the list of `observers` on the other side, and the removals put off during
a notification, are kept separately, as in the code. A name is used again once its
helper deleted itself.

**TcpConnection.** `conn[c]` has the members of the automaton, `sched[c]` its actions
in the queue and `armed[c]` those registered for its descriptor. A byte is its position in
what the sender took from its user, so a lost, repeated or misplaced byte shows. The
kernel takes any part of a write up to its capacity, reports readiness once per
registration, and may fail a write, a read or the setting of the descriptor's option at any time, with both
automata alive or not. Users bind, unbind and send in any order.

**TcpSetup.** The acceptor gets connections to fill, the connector is for one
connection, and each creates a helper (`connection_init_automaton`) that binds to the
connection and hands the descriptor on. Any connection can be offered to the acceptor again, as the code
checks nothing (`offers`; `MaxOffers` bounds how often). A connection that has a descriptor ignores a second
one, its helper reports success, and the descriptor is lost (`ignored`, a history variable). Creation, bindings and destructions are steps
of the system in between. `closes` counts how often a descriptor was closed.

**Udp.** The sender serves several users, observes its own bindings through the
wrappers' notices (`notices`, in order) and forgets a user who unbinds. A user may be bound again before
the notice of its unbinding arrives, because the request was already in the system queue when the
notice was put at its end. `awaiting` is a history variable: whether a user waits for a completion, or will never get it because
a purge took its datagram (`forgotten`). The network
loses, repeats and reorders; the receiver queues what it reads.

**TcpRing.** `managed[s]` is a manager with what matters of the automaton it has
made; a manager asked to destroy its automaton stays until that is done, and what the
automaton reports in the meantime arrives. `ring.aborted` names an assertion
of the code that failed, which ends the behaviour. The accepting and the connecting half share no member,
so one of them moves in a behaviour.

**Election, LcrRing, PetersonRing.** `Election` allows one step: one of the
candidates is announced. In `LcrRing` the candidate is the automaton with the strongest
identifier, and automata may be initialised again; in `PetersonRing` any automaton.

**Network and its algorithms.** `Network` draws root and links (any graph, connected
or not, as the code draws them) and has the channels. `SpanningTree`, `ShortestPaths` (breadth-first
search is Bellman-Ford with weights 1; weights of 0 are allowed, as in the code) and
`BcastAck` add what a message does.

**MCRuntime.** `Execution` and `GlobalFifo` share nothing; `moves` says which of the two a behaviour is of.

**MCParts.** The parts that need no other part, side by side in one model. They share no
variable except `node` and `channel`, of which one ring or network has the use, so their
steps commute, and a behaviour of one part is not changed by steps of another:
`part` says which one moves, the others stay in an initial state. The sizes of the
rings, the automata of the networks and the longest link are constants (`PartsAssumption`): small
ones for TLC, any for the proofs.

## 3. What TLC checks

| run | shows | states | bounds |
|---|---|---|---|
| `registry` | `RegistriesAgree`, `TreeSound`, `NoDanglingBinding`, `BindingsSound`, `BindingLossJustified`, `ImplementsRegistry` | 30 k (symmetry) | 3 automata, 2 + 2 keys, 3 addresses, 2 bindings |
| `system` | `SanityChecksHold`, `OneAnswerPerRequest`, `ViewsAgree`, `NoLateRequestHits` | 0.9 M | 3 automata, 1 + 1 helper each, queue of 2 before a user call |
| `system_live` | `EventuallyAnswered`, `EventuallyReleased` | 88 k | 2 automata, queue of 3 |
| `system_key_dne`, `system_signals` | findings 1, 2 | | as `system` |
| `runtime` | `NoWaitCycle`, `LocksHeldThroughout`, `GuardedCodeExclusive`, `Progress` of `Execution`; `TimersExact`, `SelectsOpenOnly`, `EventuallyExecuted`, `EventuallyReturns` of `GlobalFifo` | 0.35 M | 3 automata, 2 contexts and the system thread, 1 output member; 2 actions, 1 descriptor, offsets 0 and 1, 1 waiting request, 1 configuration runnable |
| `execution_exclusion` | finding 3 | | as `runtime` |
| `scheduler` | `AtMostThreeCopies`, `NoLostAction`, `NoLostWakeup`, `EventuallyRuns`, `EventuallyStopsUnlessClosed` | 0.41 M | 1 context, 1 action, 1 descriptor, 4 calls |
| `scheduler_purge`, `scheduler_hang` | findings 4, 5 | | 1 context, 2 to 4 calls |
| `parts` | everything of the modules from `SequentialSet` to `BcastAck` that stand alone: see below | 0.36 M | see below |
| `tcp_ring_links` | finding 6 | | as `parts` |

Each of these runs checks its module's type invariant too. The properties of `parts`:

| property | of | says |
|---|---|---|
| `RefinesIdFactory` | `SequentialSet` | an id comes out again only after `Window - 1` others, through wraps of the counter |
| `EveryEnabledScheduled` | TCP, UDP, `TcpRing` | whatever an automaton can do next is queued or registered, after every handler |
| `StreamIntact` | `TcpConnection` | what a user gets, what is held, in the kernel and unsent is the stream, in order |
| `DescriptorsHeldOnce` | `TcpSetup` | an accepted descriptor is never in two places, and is lost only with the acceptor or to a connection that had one, which takes a connection that was offered twice; the connector's descriptor is left out |
| `OneAtATime` | `Udp`, `TcpRing` | the next message goes out only after the one before was completed (one more if the ring began with garbage in its flags); what a user of the UDP sender waits for is lost only to an error or a purge |
| `HelpersAgree` | `Managers`, `TcpRing` | a helper asks to be bound once; the two sides of an observation agree; the ring refers to what it has not asked to be destroyed and follows no null pointer, until a link assertion fails (finding 6) |
| `ElectsOne` | `LcrRing`, `PetersonRing` | they implement `Election`, its liveness included |
| `WavesSound` | networks | parents are a tree below the root at all times, no distance is too short, the root of a broadcast reports last |
| `EveryPartProgresses` | TCP, UDP, networks | bytes are delivered, descriptors handed over, datagrams completed; the network algorithms finish |

Why the bounds are enough to be interesting:

* Three automata give a chain or two siblings, a binding whose three roles
  (output, input, binder) are three automata, two automata waiting for each
  other, and outputs with inputs of smaller and of greater aids. In
  `registry` aids wrap and are reused; `Model` is proved for all values.
* In `System` aids are not reused (`MaxAid` creations per behaviour): with 2^31
  or 2^63 of them a runnable of a dead automaton does not meet its aid again.
  One helper of a kind per automaton is reused over and over, which is the
  hard case; different helpers of one automaton meet only in the choice of the
  next request. `MaxQueue` stops only user calls, never answers.
* In `SimpleScheduler` `MaxCalls` bounds the calls; four are a registration, a
  close, and two competing schedules. A descriptor and an action suffice for
  every interaction of one registration with another. The context, the system
  thread and the I/O thread are the three threads that can schedule one action
  concurrently. With several actions and contexts the safety properties are proved.
* In `Execution` the two contexts have the automata 0 and 2, and 1; so an automaton's
  unlocked output meets its system actions and, through another's output, its inputs.
* In `GlobalFifo` nothing bounds the number of calls in a behaviour, only how many
  requests wait at one time: an action that schedules itself for ever is one of
  the behaviours, and `EventuallyExecuted` says that it starves nobody. With two
  waiting requests TLC finds no error either (0.94 M states), so a timer
  replaced within one round of the loop is covered as well as one replaced in a later round.
* In `parts`: 7 ids with 3 in use wrap several times; a connection sends 2 buffers of 2 bytes
  through a kernel that holds 1, so that every write is split and
  resumed (buffers of 1 and 2 show no error either); 2 connections, of which the connector calls one, are offered twice in all, one of them again
  or both, and compete for 2 descriptors and 2 helpers (with 3 offers `TcpSetup` has 370 k states
  and no error);
  2 users of the UDP sender, of whom one may unbind; 2 automaton managers that two
  binding managers observe, one of them together with the owner's own handle; the TCP ring
  with 1 manager of acceptors or connectors and 2 of connections, so that a new one meets
  an old one that is still being destroyed; rings of 3 (LCR) and 4 (Peterson, which
  goes through two phases and has relays); all graphs of 3 nodes with every root. With 4 nodes
  `SpanningTree` (139 k states) and `BcastAck` (169 k), and with 2 managers of
  acceptors and connectors `TcpRing` (125 k), show no error either.
* Deadlock is checked except in the simple scheduler's runs, where the program is
  meant to end, and in `parts`, where an algorithm is done or users ask no
  more. `System` has a `Stopped` step for a failed assertion only.

### Fairness

* `FairSysSpec`: weak fairness of the system thread, which runs whenever its
  queue is not empty. None for user calls.
* `FairRuntimeSpec` is `FairExecSpec` and `FairFifoSpec`, for the half that moves.
* `FairExecSpec`: weak fairness of each thread's next step once it has begun
  something. Mutexes hand over to any waiter, so nothing is promised to a
  particular thread; `Progress` is global. Taking the unique lock is not fair:
  the default `pthread_rwlock_t` may starve a writer.
* `FairSchedSpec`: threads that can run do, user code returns, timers expire,
  `select` sees a byte in the pipe. A descriptor need never become ready.
* `FairFifoSpec`: the thread runs, user code returns, time passes. A descriptor
  need never become ready, and nobody need call `run`.
* `FairPartsSpec`: weak fairness of the steps of the part that moves (`PartsSteps`), which the schedulers
  justify: an action that is queued is executed (`EventuallyRuns`, `EventuallyExecuted`). A descriptor
  is found ready when there is something to read or room to write, or the peer is gone (`Ready`), and
  possibly at other times, for which nothing is promised (`Select`). What
  users do, what the peer or the network does beyond what was asked for, and the
  UDP receiver, are not fair. Nothing is said of the progress of the TCP ring: unfair
  reports of failures may recur for ever.

### Findings

1. `system_key_dne`: `sys_unbound_effect` asserts that `BIND_KEY_DNE_RESULT`
   cannot come ("We prevent this in unbind."). If an automaton of the binding is
   destroyed while the binder's unbind request is in the queue, it comes.
2. `system_signals`: a helper asked to be destroyed or unbound after its request
   was sent is in two sets, and `~automaton` signals it twice, although "a helper
   is in one place or another". The managers delete themselves on the first.
3. `execution_exclusion`: an output without inputs of greater aids runs
   without its automaton's lock. In TLC's trace the thread of the context is in the output of an automaton
   while another thread is in locked code of the same automaton. `schedule_execq` relies on the
   opposite ("We explicitly prevent this to adhere to the I/O automata
   model."). `GuardedCodeExclusive` and `AtMostThreeCopies` say what remains true.
4. `scheduler_purge`: the I/O thread empties the registrations before the
   closes; a registration and a close that arrive in between leave a closed
   descriptor registered, and `select` fails.
5. `scheduler_hang`: the purge of a closed descriptor can delete the last
   runnable just before `select` without a timeout, and `run` never returns.
   `GlobalFifo` has the same order of steps; `EventuallyReturns` speaks only of behaviours
   without closes, and so does not show it.
6. `tcp_ring_links`: `tcp_ring_automaton` asserts of each report that it comes from its current
   successor or predecessor. A connection that failed, and was asked to end, still reports that it is connected before the
   system destroys it: the output `connected` does not look at `errno`.

The same action may be in a context's queue three times, since the I/O thread and outputs that are not
locked schedule beside locked code; `AtMostThreeCopies` says that it is never there more often.

## 4. What is proved

Each theorem holds for all constants that satisfy the named assumptions of its
module, and each names the property a run checks on a small instance.

**`Model`** (`ModelProofs`; `MaxAid`, `MaxBindings` are naturals, `NoKey` is not a key).
`TypeCorrect`, `Invariance`, `RegistriesCorrect`, `TreeCorrect`, `BindingsNeverDangle`, `BindingsCorrect`:
`Spec => []IInv` with `IInv == TypeOK /\ Safe`, and its parts. `LossOnlyWhenJustified`: no step takes down a
binding that it should not.
The parts of `Safe` are not inductive one by one. That a destroyed subtree has
no live child outside (`ParentsAndChildrenAgree`) needs both views of the tree;
that a new record is no one's child needs that aids in use are those
with records (`RegistriesAgree`); that erasing by address erases the right one
needs addresses to be unique; that an unbind takes only one binding needs
`BindKeysExact`. Their conjunction is inductive. `TreeWellFounded` says of every set
of live automata that one member has its parent outside, which induction-free
reasoning handles: a new leaf, or the removal of a set closed under children,
cannot close a cycle. The lemmas `SubtreeClosed`, `BoundMeans` and `ActType` carry what
the operators `Subtree`, `BindResult` and `Act` mean.

**`System`** (`SystemProofs`; besides those of `Model`: aid 1 exists, and so does an address for the root
(`RootAssumption`)). `SysInvariance`, `SysTypeCorrect`, `SysRegistrySafe`, `SanityChecks`, `OneAnswer`,
`ViewsBecomeRegistry`, `NoLateRequest`: any number of automata, helpers and waiting requests, and destructions of
whole subtrees in between. None of the properties is inductive: that an answer finds its helper where it is
expected depends on all that went before. The invariant `SysInv` says for each helper in which few
situations it can be (`ChildHelper`, `BindHelper`): which of its requests and answers are under way, the sets it is in,
and whether the registry has the child or binding. For children no order in the queue is needed. For
bindings it is: an unbind that comes too late is still in the queue when its key is bound again, and
what keeps it from hitting the new binding is that it is `Before` the new bind; likewise the answer
`BOUND` is before the `UNBOUND` of a destruction. (The order of two items says all, since nothing is under way twice: `Once`.)
Positions in the queue occur only in lemmas about sequences. `StepMoves` turns them, for every step that executes the head
and appends something, into what is under way and in which order before and after (`Moves`); each
kind of step is then a case analysis for the helper it concerns, and `ChildKept` and `BindKept` dispose of all
the other helpers.
For a destruction, `PostsOf` says that in whatever order the subtree goes, exactly the bindings it
dissolves and the children it takes are posted, each once; `BindingDissolved` and `DestroyKeeps` that every
binder and the parent are thereby told. Bindings are finitely many (`IsFiniteSet`), which the
sequences of posts need. `RequestInHand` is a second, small invariant: only requests wait to be pushed, so
notifications are on the queue itself.
In `NoLateRequest` what is lost by an unbind or a destroy is compared with the helper's
sets before the step, by `UnbindPending` and `DestroyPending`.

**Refinement of `Registry`** (`ModelProofs`). `RegistryImplemented`: every step of `Model`
is a step of `Registry` or a stutter, under the mapping of automata and bindings the
run `registry` uses. Executions, which are checked and proved against `Registry` alone, thus
hold for `Model`.

**`Execution`** (`ExecutionProofs`). `ExecTypeCorrect`, `ExecInvariance`, `LocksAreHeld`, `GuardedCodeIsExclusive`,
`NoCircularWait`. The invariant says that a thread holds exactly the locks its progress says
(`HeldExactly`), is in the context of its action's automaton unless it is the system thread, has locked smaller aids than those it has yet to lock (`LocksAscending`), runs code of its own action's automata
only (`InsideOwn`), and that a writer is alone (`WriterAlone`).
No circle: the thread that holds the greatest of the aids waited for in a circle would
itself wait for a greater one.

**`SimpleScheduler`** (`SchedulerProofs`; assumptions on `Home`, `MaxCalls`, `Threads`, `Sentinel` and `Nothing`).
`SchedInvariance`, `SchedTypeCorrect`, `NothingIsLost`, `WakeupsArrive`, `DuplicatesAreFew`, `RunEndsIdle`. An
action that somebody asked for is in a queue, in a map or in the hands of a thread that will put it there (`NoLostAction`, with
`BatchHeld` for what the I/O thread took out of its queues); a filled queue means a byte in the
pipe or a thread about to write one (`NoLostWakeup`, with `Noticed`); several copies need as many
pushers, and they are the I/O thread, the thread of the context and at most one other (`AtMostThreeCopies`, with `OneOutsider`). That there is no more than one other is
assumed in `CallSchedule`, and is what `GuardedCodeIsExclusive` proves of `Execution`. `RunEndsIdle`: `run` joins its threads
only when nothing is left to do; its invariant is that a thread that left its loop saw no runnable
(`Finished`), and that from then on none can come, since only runnables schedule.

**`GlobalFifo`** (`FifoProofs`). `OpenOnly`: `select` is only called with open descriptors
(`FdsKnown`: what is registered or asked for is open or is going to be purged, so its number is
not used again before; `RoundInOrder`: from the registration to `select` nobody asks for another).
`FifoTypeCorrect` and `TimersInForce` assume no more than finitely many actions, which `Select` needs to put those
that became ready on the queue in some order. `TimersExact` is kept by each kind of step that touches a timer, for maps
and queues in general: `AskExact` (a request), `AddTimerExact` (one is registered: dropped, or put in the place of a
later one), `ExpireExact` and `TickExact` (the clock keeps the order of times, though those in the past
become equal). What it needs besides the types is `TimersRegistered`: when `select` takes the past
timers out of both maps, no request for the same action is still waiting, so that nothing is wanted of it any more.

**`SequentialSet`** (`PartsProofs`). `IdFactoryImplemented`: `Spec => RefinesIdFactory`. The counter moves over
the ids as on a circle; to come back to an id it must pass all the others, of which fewer than
`MaxUsed` were in use before (`Old`), so the rest of the `Arc` was handed out in between.

**`TcpConnection`** (`TcpConnectionProofs`). `BytesInOrder`: `ConnSpec => []StreamIntact`, for buffers of any sizes,
a kernel of any capacity and every way to split a write. What is in each place is a piece of the
stream, told by where it begins and how long it is: `SendsLast` (the buffer is the last piece taken),
`HoldsNext` (what is held comes next, then the kernel's), `AddsUp` (no gap in between).

`ConnectionNeverForgets`: `ConnSpec => []ConnEnabledScheduled`, for any users (`Uses`, `Sends`, at most the four
outputs the automaton has). `QInv` adds to it that a dead automaton has nothing queued and that one that waits for
its descriptor has one. A step of a handler either leaves a wait as it was or registers the descriptor
(`HandlerQueues`, `HandlerKeepsQueued`); a binding or the scheduler changes the queues only (`QueuesChange`).

`ConnectionTypes`: `ConnSpec => []ConnTypeOK`. That every position in a buffer or in the kernel is one of the
`MaxBytes` is not a matter of types: it needs to know where each piece begins (`BytesInOrder`'s invariant) and that what
has arrived at an end was taken at the other (`ArrivedWasTaken`) or has not grown since that end died (`WInv`).

**`Managers`** (`PartsProofs`; the owner is not one of its managers, and each binding manager has two sides
(`ManagersAssumption`)). `ObserversNeverDangle`: `ManagersSpec => [](ManagersTypeOK /\ AsksToBindOnce /\ ObserversAgree)`.
The two lists are kept by different objects and change at different moments. The invariant (`ManagersInv`)
says when each must have the other (`ObservesRight`: what a binding manager observes is live and lists it;
`ObserversRight`: who is in a list of observers is live, observes this side, and cannot have its handle), and that a
binding manager has been given to `bind` exactly if it has both handles and left its first stage (`AskedRight`).

**`TcpRing`** (`PartsProofs`; managers of listeners and of links are different, and neither has the name of the null
pointer (`RingAssumption`)). `RingRefersRight`: `RingSpec => []` of `RingTypeOK`, `RingManagersAgree`,
`OneMessageOutstanding`, `RingEnabledScheduled`. That no null pointer is followed depends on what the other
automata may still report: a retry is queued only for what has failed (`RetryRight`); a descriptor arrives
only from a connector or acceptor that is there, or whose failure is known (`HandOverRight`); and how many messages are
under way follows from the two flags and from whether the successor has told of its connection (`SendsRight`):
one, or two if the constructor left a connected successor in the flags. All of it up to the failure of a link
assertion (finding 6), which ends the program; that none fails is not claimed.

**`Udp`** (`PartsProofs`). `SenderServesRight`: `UdpSpec => [](UdpTypeOK /\ OneOutstandingSend /\ UdpEnabledScheduled)`.
`SenderRight`: the queue has one datagram of each automaton in `m_send_set` and no other, and no automaton is also in
`m_complete_set`. It is what makes `purge` find its item; `OneGone` is the lemma that says what the erased
list is. `ServedRight`: who is in one of the sets is bound, or a notice of the unbinding is on its way.
`AwaitInv`: what a user waits for is in one of the sets or lost to an error; only a purge makes it `forgotten`.

**`TcpSetup`** (`PartsProofs`; finitely many connections, descriptors that differ from the marks for none and
gone (`SetupAssumption`)). `DescriptorsGoOnce`: `SetupSpec => []` of `SetupTypeOK`, `SetupEnabledScheduled`,
`DescriptorsHeldOnce`. There is an acceptor, or a connector with its one descriptor (`OneCaller`), of which
nothing is claimed. With an acceptor (`Accepts`) a descriptor is in one place at most (`HeldOnce`): the queue, one helper
that has yet to hand it over or close it, one connection, or closed; while the acceptor lives it is somewhere
(`Somewhere`) unless it was handed to a connection that had one. That this takes a connection offered twice needs to know that
a connection offered once is in the acceptor's queue or with one waiting helper or served, never two of these (`ServedOnce`);
and that a helper bound to a connection finds it there (`HelpersRight`).

**The parts side by side** (`PartsProofs`). `PartsBehave`: in a behaviour of `FairPartsSpec` each part behaves as
its own specification says, since no step of one changes a variable of another. From this follow, for the
properties the run `parts` checks, `HelpersAlwaysAgree`, `MessagesOneAtATime`, `NothingForgotten`, `PartsCarryRight`.

**The networks** (`DistributedProofs`; finitely many automata, none called "-1", and any weights up to a longest one).
`WavesAlwaysSound`: `FairPartsSpec => []WavesSound`. The prover cannot do induction over data, but a set of
numbers with no least member is empty (`LeastNatural`, from the library's theorem about well-founded relations), so an
induction is the search for a least counterexample, and `CountUp` is the usual one, for a set.
*Trees.* `Below` says that every set of automata with parents has one whose parent is outside: no circle. In the
spanning tree and the broadcast an automaton takes a parent once (`LeafBelow`). In the shortest paths it
takes another one whenever that is nearer. Links of weight 0 are allowed, so the distance need not grow along a circle; what
excludes a circle is that a child is never nearer than its parent is now, link included (`Farther`), and
that only a strictly smaller distance is taken (`NearerBelow`).
*Distances.* `PathsNeverShort` compares with the reference definition, whose rounds are a recursive
function (`PathsReached`, `PathsShortest`: what its rounds are, and that there is such a function). In each round
the automata with parents that are reached, and no nearer than the round says, are joined by one more while there is one left,
since some automaton of those left has its parent among them; after as many rounds as there are automata none is left (`Spread`).
*Broadcast.* `OnePlace`: the value an automaton sends to a neighbour is in exactly one place: on the way, held by a
child that has not reported, on the way back as the acknowledgement, or acknowledged. So when the last answer is
counted nothing is under way on that link, and a child that has reported has all below it done; by the tree, the root reports last.

**The ring of `asynch_lcr_automaton`s** (`DistributedProofs`, any number of automata, identifiers in any order).
`OnlyTheStrongestElected`: `FairPartsSpec => Vote!Init /\ [][part # "peterson" => Vote!Elect]_elected`, the safety part of
`ElectsOne`. Invariant (`LcrInv`): an identifier that is anywhere on the ring has come past weaker automata only (`Rightful`,
by `Between`, the automata from its origin to where it is). One that arrives at its origin has come past
all others, so its automaton has the greatest identifier; by the pigeonhole principle that is `N` (`BestIsStrongest`). An automaton
initialised again sends an identifier that is rightful where it begins, whatever is under way.

**The types** (`DistributedProofs`). `PartsTypesCorrect`: `FairPartsSpec => []PartsTypeOK`, from the theorems about the
parts and, for `PetersonRing`, `PetersonTypes`: an identifier that goes on to the next phase beats another one,
so it is never the mark for "not known".

Only model-checked: `ElectsOne` for `PetersonRing` (that no two automata are chosen depends on the phases of
all active automata, which are not in step), `EveryPartProgresses`, and all liveness, for which the prover has no rules.

## 5. Not modelled

* In the simple scheduler, the order of timers (see `GlobalFifo`).
* The `bound` and `unbound` hooks of user actions: they call user code and change
  no state of the framework. (The notices of the wrappers that the UDP sender
  observes are in `Udp`.)
* How executors pass values and parameters: the twelve specialisations differ in
  types only.
* `take` with every id in use (it would not return): needs 2^31 automata.
* Wrappers of pthreads, time and addresses; they appear as guards or values.
* The values of `errno` and the contents of datagrams; whether there is an error is modelled.
* `asynch_lcr_automaton` is initialised again only by `tcp_lcr`; `LcrRing` bounds how often (`MaxInits`).
  In `PetersonRing` the identifier (0, 0) of an automaton that drew 0, which is the mark for "not
  known", is left out.
* Members that `tcp_lcr` reads before they are set.
* The echo programs, `clock`, `random`, `slow_count` and the other demonstrations: users
  of the modelled parts without state of their own worth a model.

Modelled, but forbidden by no property, mostly since nothing in the repository promises the contrary:

* `GlobalFifo` drops a close when nothing is registered (`Purge`).
* A `binding_manager` whose automaton manager ends without a handle waits until its owner
  unbinds it.
* The connector closes its descriptor again after handing it over; `DescriptorsHeldOnce` and the theorem
  about it leave this one descriptor out.
* An acceptor that is offered a connection again loses a descriptor, when that connection has one already.
  `DescriptorsHeldOnce` says that it is lost in no other way while the acceptor lives.
* An automaton bound to the UDP sender sends, unbinds, binds again before the sender hears of it, and sends: the notice then purges
  the new datagram, which is neither sent nor completed (`awaiting` becomes `forgotten`). The sender does not compare with
  what is bound now, though the comment in `observe` (`lib/udp_sender_automaton.cpp:36`) speaks of "the
  automata that are no longer bound". `OneAtATime` says that nothing else but an error of the socket loses what is waited for, and
  `EveryPartProgresses` takes the forgotten datagram for done.
* `GlobalFifo` waits in `select` for ever when a close removes the last runnable, as `SimpleScheduler` does in finding 5.
* If the flags that `tcp_ring_automaton`'s constructor leaves undefined begin with a connected
  successor (`ring.garbage`), a message is sent before there is one, so that two can be under way;
  `OneMessageOutstanding` bounds them by two for that start.
* A datagram without bytes leaves the UDP receiver's `errno` as it was: both outcomes are explored.

## 6. Plan

Done: all modules of section 2 and the theorems of section 4. What is left, in the order of
its worth:

1. A proof that `PetersonRing` elects no two automata, for rings of any size.
2. Time arithmetic (`lib/time.cpp`) as operators checked against integers.
