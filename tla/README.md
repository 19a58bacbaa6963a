# Faust: a verification project

Faust compiles a functional signal-processing language to C++ (and LLVM, C, Java,
JavaScript...). `compiler/` is the compiler, `architecture/` the run-time code that the
generated `dsp` class is wrapped in, `embedded/` holds libraries built on both. This
project models the parts that carry the program's own logic and are hard to test: the
work stealing scheduler of the `-sch` option, the passes of the compiler from diagrams to
samples, the instruments that allocate voices, the remote compilation service, the caches
of factories, and the zones with their graphical and OSC interfaces.

## 1. Inventory

| Component | State | Operations | Hard because |
|---|---|---|---|
| `TaskQueue` (scheduler.cpp 750-900), a queue per thread | array `fTaskList`, word `fCounter` = (head, tail) | `PushHead`, `PopHead`, `PopTail`, `InitOne` | lock-free; the push is not a CAS, the load of a pop follows its CAS |
| `TaskGraph`, `DSPThreadPool`, `DSPThread`, `WorkStealingScheduler` | activation counters, threads with a semaphore each, ready tasks | `InitTask`, `ActivateOutputTask`, `GetReadyTask`, `StartAll`, `SignalAll`, `SyncAll`, `GetNextTask`, `StopAll` | exactly one of the predecessors that end at once must activate a join; workers are never joined at the end of a cycle |
| `DynThreadAdapter` | timings, number of threads | `StopMeasure` | changes the number of threads between cycles |
| code generated by `WSSCodeContainer` | `fIndex`, `fFullcount`, locals of `computeThread` | `compute`, `computeThread` | `fIndex` is the barrier, the vector counter and the end condition at once |
| `CodeLoop`, `computeForwardDAG` | the graph of loops | `sortGraph`, `groupSeqLoops`, `absorb` | recursion over a shared DAG |
| pattern matcher | tree automaton of the rules | `make_pattern_matcher`, `apply_pattern_matcher` | rules are merged into copies of what earlier rules left |
| diagrams | types, signals with de Bruijn references | `infereBoxType`, `propagate`, `deBruijn2Sym` | signals from outside a recursion are used under one more level |
| signals | types, sharing, delay lines | `typeAnnotation`, occurrences, `InstructionsCompiler` | a fixpoint over intervals; what is cached per block or for good; lengths and indices of delay lines |
| `LV2SynthPlugin` | voices, note table, queued note-offs, tunings | MIDI events, `run` | voices stolen while their note-off is queued, at the limit of the polyphony |
| VST `Faust` | three lists of voices, queue of notes | `processEvents`, `synthProcessReplacing` | a block is cut at the frames of its notes |
| remote `Server` | factories, running slaves | HTTP requests, slave threads | a list shared by the daemon and the threads that start slaves |
| remote client | cache of factories, blocks in flight, known servers | create, get, delete, `compute`, `pingHandler` | answers lost, a server that restarts, messages lost or late |
| LLVM factories | table by SHA key, reference counts | create, read, delete | counts that include a local pointer |
| `GUI` zones | value per zone, cache per item | `modifyZone`, `updateAllZones` | callbacks write zones while another thread does |
| OSC interface | address tree, one shared stream, ports | messages, `sendOSC`, `run`, `start`, `stop` | two threads, one stream, no lock; applications compete for ports |
| HTTP interface, `mydsp_poly`, parser and evaluation, normalisation, back ends, documentation, drivers | | | see section 8 |

Components interact by calls, except where threads share memory: in the scheduler
(queues, counters, `fIndex`), between the user interface thread, the audio code and the
OSC listener (zones, the OSC stream), and between the server's daemon and its slave
threads (`fRunningDsp`). The client and the server of `faustremote` exchange HTTP requests,
NetJack slices and multicast messages.

What makes each correct. Scheduler: a task is neither lost nor given to two threads; for
each vector each task runs once, after those it reads from; `compute` renders all samples
and returns. Compiler: each stage keeps the meaning of the previous one. Instruments: a
voice is in one list, notes and voices point to each other, gates and pitches follow the
events. Remote: what is asked for is answered, rendered and found, whatever is lost.
Factories: one object per program, alive as long as it is held. Interfaces: the value last
asked for is kept and comes to be shown everywhere; answers are complete and go where they
should.

## 2. Modules

| Module | Stands for |
|---|---|
| `TaskQueue` | the queues and their operations, one step per access to shared memory |
| `WSQ`, `Deque` | the queues with the clients the scheduler gives them; what they promise, deques with atomic operations |
| `WorkStealing`, `DagExecution` | `compute` and `computeThread` on `TaskQueue`, the task graph and the pool; what they promise, a DAG executed in order, vector by vector |
| `WorkStealingInv`, `WorkStealing_proofs` | the inductive invariant of the scheduler; the proofs |
| `LoopGraph` | how the graph of loops becomes tasks |
| `SchedulerParts_proofs` | proofs about the two parts the scheduler rests on, `WSQ` and `LoopGraph` |
| `PatternMatcher` | the automaton of a `case`, built and applied |
| `Diagrams` | from block diagrams to signals |
| `Intervals`, `Signals` | from signals to samples: types, delay lines, generated code |
| `LV2Synth`, `VSTSynth`, `LV2Synth_proofs` | the two instruments with voices of their own; proofs about the first |
| `RemoteServer`, `RemoteDSP`, `RemoteRender`, `RemoteDNS` | the server, the client's factories, its rendering, the discovery of servers |
| `LLVMFactory` | the cache of factories of libfaust |
| `LLVMFactory_proofs` | proofs about it, for every value of its constants |
| `GUIZones`, `OSCRoot`, `OSCSetup` | zones and items, the OSC root with its streams, the OSC ports |
| `Filters` | what is left of a list when a loop erases some of its elements |
| `MCWSQ`, `MCWorkStealing` | instances for TLC: the DAGs, the symmetry |
| `MCCompiler`, `MCSynths`, `MCRemote`, `MCFactories`, `MCInterfaces` | several instances each |
| `MCSynths_proofs`, `MCRemote_proofs`, `MCFactories_proofs`, `MCInterfaces_proofs` | the invariants of these four runs, with the proofs about the components that have no proof module of their own |

The last five check several instances in one run. Their variable `part` says which instance
a behaviour is of: the components of such a module never run in one state machine (the
passes of the compiler, or instruments for different hosts), so the variables of the
others stay put. Two instances of one module differ in their constants only, and share its
variables. `MCCompiler` extends `LoopGraph` instead of instantiating it, so that its
properties about loops are those the theorems state (`GraphInit`, `GraphNext`, `GraphSpec`
are what other modules call `Init`, `Next`, `Spec`). Where a property of a module is checked for
some instances and not for others, section 5 says why.

### The scheduler

`TaskQueue`. `fTaskList`, `fHead`, `fTail` are the fields (the two halves of the word
`fCounter`). `op[t]` holds the locals of the operation thread `t` is in: the word it
read (`old_val`), the task it pushes, where it stands. `PushHead` writes the slot,
`IncHeadLoad` and `IncHeadStore` are the `++` of the macro `IncHead`; `PopRead` and
`PopEmpty` are the top of the `do` loops, `PopCAS` and `PopCASFails` the outcomes of
`CAS1`, `PopLoad` the load of the slot in the `return`.

`WSQ` gives every thread the operations the scheduler lets it call: push and `PopHead`
on its own queue, `PopTail` on all. The guards marked *client* are what the code does
not check: a push stays inside the array, a reset comes when the queue is empty and
nobody is inside a push or before the load of a pop. `WorkStealing` checks that the
generated code keeps to them (`QueueContract`), with one exception: a call of no sample deals
tasks out that nobody runs, and the next call of `compute` resets the queues that hold them.
All workers wait then, so there is no other client; `ResetIsSafe` says that this is the only
case in which a queue that is not empty is reset.

`WorkStealing`. `pc[t]` is the place of a thread, `tasknum`, `count` are the locals of
`computeThread`, `base` is the `fIndex` from which the buffer pointers were computed.
`Compute`, `ResetIndex`, `InitGraph`, `InitAll`, `PushReady`, `ReadyPushed`, `SignalAll`
are `compute` up to `computeThread(0)` (`generateDAGLoopWSSAux2`, `Aux1`); `Wake` is
`DSPThread::Run`; `Dispatch` is the `while` test, the loop header and the `switch`;
`StealEmpty`, `StealRead`, `Popped` are case 0; `LastTask`, `NextVector` are case 1,
whose second half goes on with `InitGraph` for the next vector; `EndOfTask` is the end
of a task's case, chosen from the shape of the DAG as the generator does;
`ActivateOneOutputTask`, `PushOutput`, `ActivateOutputTask`, `PushActivated`,
`Activated` are what that case calls. `Return` is the end of `computeThread`, for thread 0
with `syncAll`, whose `StopMeasure` may move `fDynamicNumThreads` by one; `num` is that
number as `InitAll` and `GetNextTask` received it. `Delete` and `StopAll` end the pool
(`thread_terminate`, wherever a worker is). `done`, `computes` and `leftover` are history;
`leftover` is the queues that a call of no sample has dealt to and that were not reset since.

Steps that group several accesses, and why nothing is lost:

- the stores of `initTask` are one step: a counter is only touched by a thread that
  holds a task of the current vector, and there is none then (`QueueContract`);
- `InitOne` clears the slots and the word in one step: either the queue is empty, so a thief
  reads the word only, and only the last store changes it, or all workers wait (`ResetIsSafe`);
- the loop header reads `fIndex` up to four times; for a task these reads see one value
  (`IndexIsLatched`), for the other cases they are not used;
- the body of a task is a start and an end; its buffers are what `NoSharedBody` and
  `ImplementsDag` protect.

Memory is sequentially consistent in the model. On x86, for which the code is written,
that is enough: what one thread publishes for another is a sequence of stores (slot, then
head; counters and queues, then the first head; buffers, then `fIndex`), which x86 keeps in
order, or a locked instruction (`CAS1`, `DEC_ATOMIC`), and no thread relies on a plain
store being seen before its own next load of another location.

Outputs of a task are visited by the generator in the order of a `set` of pointers, so
the model visits them in any order and keeps any direct output for itself.
The last stage `dag[0]` of the generator is the set of tasks without outputs, which
`DagIsSchedulable` of `LoopGraph` checks.

### The compiler

`LoopGraph`. The fields of `CodeLoop` are functions on the loops, `V` is the vector of
levels. `calls` is the recursion of `computeUseCount` and `groupSeqLoops`: the calls still
to make, the next one first; the order in which a set is walked is open because it is an
order of addresses. `EraseEmptyLevels` keeps the levels that have code (`Keep` of
`Filters`). Its result is what `WorkStealingAssumption` asks of `Back`,
`fReadyTaskList` and `QueueSize`, and what `LastStage` and `Outputs` are defined from.

`PatternMatcher`. A term is a node with its branches; the automaton is a tree of states with
rule markers and transitions, as `make_state` and the `merge_` functions build it. `MergeRule`
adds one rule of the source, `CheckShadowed` is the test of each rule against the automaton,
`Apply` one call of `apply_pattern_matcher` with one argument (`Walk`, `Bind`). Transitions are
sorted by the addresses of their symbols, so `address` is chosen from `Addresses`. `whole` is
history: no transition was dropped when another state was merged into this one.

`Diagrams`. A diagram goes through `GetBoxType`, `BoxPropagateSig` and `PrepareSym`:
`infereBoxType`, `propagate` (with the lifting of the signals that enter a recursion) and
`deBruijn2Sym`. The reference `Run` computes the diagram on sequences of samples, a recursion
by as many rounds as there are samples; `At` computes the signals.

`Signals`. A program is a sequence of signals. `Iterate` is one round of `typeAnnotation`,
`TypeAll` types the rest, marks what is shared, and sets the lengths of the delay lines
(`occurences.cpp`); `InstanceInit`, `StartBlock`, `Sample` run the generated code beside the
meaning of the program, and `MoveSlider` writes the zone of a slider at any moment, as the
user interface does. `konst`, `slow` hold what the code caches for good and per block, `vec`
and `IOTA` the delay lines, `perm` and `table` the other memories. `Intervals` are the
operations of `interval.hh` with integer bounds, `Huge` for the infinite one.

### The instruments

`LV2Synth`. Variables have the names of the fields of `LV2SynthPlugin`. One call of `run` is
`BeginRun`, the events of the block in any order, `EndRun`; `NoteOn` is `alloc_voice` with
its cases `Retrigger`, `TakeFree` and `Steal`, `NoteOff` is `dealloc_voice`, which queues the
end of a note that was not heard yet; `ChangePolyphony` is the change of the control
port; `PitchBend`, `SelectRpn`, `DataEntry`, `DataStep`, `ScaleTuning`, `ControlChange`,
`AllNotesOff`, `AllControllersOff` are the other events. A frequency is the tuple of numbers it
is computed from (`midicps`). The rest is history: `seen` (the gate when a voice was last
computed), `fresh` (voices taken since the last block), `holder` (the voice taken for a key
that is down, until it is stolen), `restruck` (keys that got a second voice while the note-off
of the first waited) and `stale` (voices that run since a scale tuning in the form that does
not move them). `Keep` of `Filters` is what the erasing loops over the lists of voices leave.

`VSTSynth`. `noteOn` and `noteOff` fill `m_currentNotes`; `StartBlock`, `StartNote`,
`EndNote`, `WaitBlock`, `EndBlock` are `synthProcessReplacing`, which computes up to the
frame of each note in turn; `due` in an event, `late` and `mixed` are history. `mixed` says
that a block began with notes inside it and notes of a later one, which the code does not
get right (section 5).

### Remote compilation and rendering

`RemoteServer`. `call` is the daemon's thread inside `answer_to_connection`: `StartCall`,
`stop_NotActive_DSP` (one slave per step), `Accept`, then the handler of the request
(`answer_get`, `compile_Data`, `getJsonFromKey`, `createInstance`, `setKey`, `startAudio`,
`stopAudio`). `Lock`, `Open`, `Push`, `Delete`, `Unlock` are the thread `start_audioSlave`,
`Lose` a NetJack connection that breaks. `fAvailableFactories[key]` on a key that is absent
makes an entry without factory, which the model keeps.

`RemoteDSP`. `available` is the server's map, `proxy` the client's objects. The actions are
the calls of `remote-dsp.h`; their Boolean parameters say which request was lost, in which
direction, and whether the compilation succeeds. `Restart` and `OtherClient` are the
environment. `restarted` is history: the server has restarted since the cache was last
empty.

`RemoteRender`: `Start`, one `sendSlice` and one `recvSlice` per cycle, each of which may
fail and call the application's `Callback`, `Return`. `RemoteDNS`: time in ticks; one
turn of `registration` is a second of sleep and a message, sent (`MessageSent`) or lost
(`MessageLost`). What is sent is in `flight` with its age until `pingHandler` receives and stamps
it, in any order and also after its sender stopped. `MachineList` is
`getRemoteMachinesAvailable`. `limit`, chosen at the start and constant, is what processes and
network may do: how much longer than a second a turn takes, how long a message is under way
and how many in a row are lost. `down`, the time since a process stopped, is history.

### Factories and interfaces

`LLVMFactory`. Actions are the calls of `llvm-dsp.h`; `refs` are the reference counts of
smart pointers, `handles` (history) the pointers callers hold, `gInstance` and `settings` the
count and the LLVM settings that come with the first factory.

`GUIZones`. The user interface thread is a stack of calls (`updateAllGuis`, `updateZone`,
`reflectWidget`, `reflectDisplay`, `sendOSC`, `modifyZone`...), one step per access to a zone;
`Move` is the user, `accept` an OSC client in another thread. `WidgetValue` is what a slider
of resolution `Unit` makes of a value.

`OSCRoot`. `todo[t]` is what the listener or the user interface thread still has to do;
`Handler` gives the steps of a message (`RootNode::accept`, `MessageDriven::get`,
`FaustNode::accept`), `start`, `args`, `end`, `send`, `idle` are the stream, `redirect` and
`restore` the change of destination around an answer. `option`, chosen at the start and
constant, is the application: its options, and the messages it receives and sends. `replaced`
(history) says that the first remote host has replaced a destination that a message had set
(`OSCListener.cpp:79`), until the next one is set. The message that `OSCControler::run` writes on
`oscout` when it starts is left out.
`OSCSetup`: `run`, `startStreams`,
`startListener`, `returnPort`, `returnRequested`, `announce`, `hello`, `stop`.

## 3. Runs

| Run | Instance | Shows |
|---|---|---|
| `wsq` | 2 threads, 2 tasks, 3 slots | the queues lose and duplicate nothing, `Inv` holds, `Deque` is implemented |
| `scheduler` | 2 threads, 7 tasks with every form of activation, 2 calls of 0 or 3 samples, fair | all properties of the scheduler: the inductive invariant `Inv` (with the types), each body by one thread, complete results, the contract of the queues, `DagExecution` implemented, every call returns and every worker sleeps again |
| `scheduler_adapt` | 3 threads, 3 ready tasks and a join, 3 calls of 0 or 3 samples, `OMP_DYN_THREAD` | the number of threads changes between calls |
| `compiler` | *graph*: every graph of 5 loops, root with and without code, grouped or not; *signals*: some hundred programs, 2 blocks of 2 samples, 2 initialisations; *patterns*: every list of 3 rules out of 15 left sides, two orders of addresses, every pair of arguments; *diagrams*: all of 2 atoms, all typed ones of 4, and recursions of abstractions over them, 3 samples | loops become tasks in order; code computes what signals mean; types admit the values; a rule applied matches; signals mean the diagram; the walks end |
| `synths` | *voices*: 2 channels, 2 notes, 2 voices, polyphony 1 to 3, 4 events per block; *tuning*, *rpn*: one voice, bends, scale tunings, parameters; *vst*: 2 voices, blocks of 2 frames, notes in this block and the next | voices are partitioned, notes lead to voices, a key that is down sounds and one that is up ends, pitches follow the channel, notes start on their frame |
| `remote` | *two*, *one*: 2 connections, 1 key, 2 slaves or 1; *dns*: 3 processes on 2 machines, on every network that loses one message in a row, or delivers messages half a second late, or turns that take half a second more, as far as no server is unheard of for more than two seconds; *render*: slices of 3, calls of 0 to 8 frames | slaves are accounted for, requests answered, the list follows the servers, blocks are rendered whole |
| `factories` | *cache*, *counted*, *compiled*: 3 objects, 2 pointers to each; *client*: 2 keys, 2 options, 2 proxies, a server that restarts | one object per program, references counted, what is returned is valid |
| `interfaces` | *user*: 2 zones, 2 widgets, a display, an OSC node, 2 moves; *client*: a zone with coarse widgets, 2 moves, 2 stores; *osc*: 2 parameters, 2 hosts, four applications (no destination given; one given; one given and values transmitted; none given, and values transmitted while messages are answered and set the destination), 2 or 3 messages; *setup*: 3 applications, 5 ports, 2 sockets each, 4 starts | values asked for are kept and shown, the destination is restored after every answer, answers are complete and well addressed where the two threads do not send at once, starts end with a port |
| `back_to_back` | 2 threads, join, 2 calls | **violated**: a call that starts before the workers have left breaks the order of tasks |
| `old_value` | 1 thread, join | **violated**: `xaddl` returns the old value and no join is activated |
| `first_rule` | as `compiler` | **violated**: a rule that matches is passed over |
| `type_table` | as `compiler` | **violated**: a table written at each sample is read once per block |

Bounds.

- Scheduler. Two threads reach all races between an owner and a thief, three add races
  between thieves and a thief that sees a queue the last task of another thread resets.
  `VecSize` 2 with 3 samples gives a whole and a partial vector, so the graph is set up
  both by `compute` and by the last task. `MaxComputes` 2 lets state survive from one call
  to the next; `scheduler_adapt` needs three calls, for the number of threads to shrink and
  to grow again over a queue with tasks left by a call without samples (`ReturnsComplete` is
  not asked there: such tasks do stay in a queue that is out of use, until it is reset).
  Queues of three slots with two tasks let the head reach the end of the array and move
  away and back between a read and its CAS.
- Compiler. Five loops are the smallest graphs in which a shared loop is reached by paths
  of three lengths and a chain starts behind a shared loop. `MaxCopyDelay` 3 puts delays of
  1, 3, 4 and 6 on both sides of the limit between a shifted array and a ring;
  `MaxBlocks` 2 and `MaxInits` 2 carry delay lines over blocks and initialisations; `Huge`
  1000 is never reached by a finite bound. Three rules are needed for one to be merged into
  what two others left. Four atoms nest one recursion in another; *Deep* adds an abstraction.
- Instruments. `BlockEvents` 4 fills two voices, steals one and ends its note in one block;
  a polyphony of 3 exceeds `NVOICES`, one of 1 cuts a sounding voice off. `MaxQueue` 3. A byte
  is 0 to 3, so that 3 is the null parameter and 0, 1, 2 are the ones the code knows;
  `EntryBytes` and `RpnBound` keep one byte of an entry 0 and the upper byte of a number 0 or 3,
  which is where the guard of line 1157 matters.
- Remote. Two slaves put one in the list while the other starts; one lets a fair daemon run
  against a small state space. `Jitter`, `MaxLost` are what the three seconds of the code
  tolerate; where turns are slow or messages lost or late only two processes run
  (`LossyProcesses`, a bound).
  `MaxCount` 8 is two slices and a part of a third. `MaxRefs`, `MaxHandles` 2 distinguish the
  last holder from another; `MaxMissed` bounds a counter that may fall below 0.
- Interfaces. `MaxMoves`, `MaxStores`, `MaxRuns` and the numbers of messages of
  `Applications` bound what the environment does; two of each let the second meet the first
  unfinished. Three applications look for a port at once, and the two ports of output are in the way of the search: five
  ports and three tries are just enough (`RoomForAll`), as the 1000 tries of the code are for
  any number of applications a machine runs. Three of `Applications` use the stream so that
  nothing is in the way of anything else (`Sound`); the fourth transmits while it answers and is
  told other destinations. `RepliesComplete` and the part of `DestIsKept` about transmitted
  values are asked of the three, the rest of `DestIsKept` of all four.

`BackToBack` is the assumption on the host of the scheduler. The code has no barrier at the
end of `compute` (`SyncAll`, scheduler.cpp 1255-1259): the passing runs assume that the next
call comes when the workers wait again, as it does when the audio period is long
compared with a worker's last turn of its loop; `back_to_back` shows the assumption is
needed. `XaddReturnsNew` selects the branch of `atomic_xadd`.

Fairness.

- Scheduler: each thread is weakly fair. The pool's threads are real-time threads that run
  until they wait on their semaphore, and a wait whose semaphore is posted ends. Calling
  `compute` and deleting the instance are the host's choice and not fair. The spinning
  thieves need no more: CAS can only fail when another one succeeds, and a vector has
  finitely many tasks.
- Compiler: sequential code, which runs to its end (weak fairness of `Process` of
  `LoopGraph` and of `Iterate`, `TypeAll` of `Signals`).
- Server: weak fairness of the daemon's steps and of the start threads. `StartCall` of a
  connection is strongly fair: the daemon waits in `select` on all its sockets and serves each
  that is ready in turn, so a connection that asks again and again is not passed over for ever.
- Interfaces: weak fairness of the user interface thread, whose timer runs a pass again and
  again, and of each application while it starts.

## 4. Proofs

Eight modules hold proofs. A theorem about a component is for every value of its constants,
the bounds included; the assumptions on constants are named, and TLC evaluates them on every
run. Where a property is only true of some constants, the theorem has that as a hypothesis,
and the run has an instance of it.

### Queues (`SchedulerParts_proofs`)

For every set of threads and tasks and every size
of the array (`TaskQueueAssumption`: the size is positive, 0 and -1 are no tasks):

- `Invariance`: `Spec => []Inv`;
- `Safety`: no task is lost or duplicated;
- `Refinement`: `WSQ` implements `Deque`.

That a task is in one place is not inductive by itself. `Inv` adds the word (`WordInv`:
tail <= head <= size, live slots hold tasks), the push (`PushInv`: the slot written is
still the one at the head, because only the owner moves the head up and nobody else can
move it down while it pushes), the pop (`PopInv`: between CAS and load the slot is
outside the live ones, and below the head unless the popper owns the queue, so that no
push overwrites it) and `HeldInv`. The CAS step is the heart: the word equals the one
read, so the slot to load is the last or the first live one *now*, even when the word
has moved away and back since the read; there is no ABA problem because the task is
loaded after the CAS.

### Scheduler (`WorkStealingInv`, `WorkStealing_proofs`)

For every finite DAG, number of threads, vector size, set of sample counts and number of
calls (`WorkStealingAssumption`), with fixed or adapted number of threads, under two
hypotheses: `XaddReturnsNew` (the branch of `atomic_xadd` that works) and `~BackToBack` (the
next call comes when the workers wait again). Section 6 shows both are needed. That `Back` is
a DAG and that the ready tasks are those without inputs is what `LoopGraph` establishes
(`DagIsSchedulableHolds`, below); that the array has `Cardinality(Task) + 2` slots is
`loop_count` of the generator.

- `Invariance`: `Inv` of `WorkStealingInv`;
- `BodiesApart`: no two threads are in the body of one task (`NoSharedBody`), and a thread in a
  body renders the current vector although it read `fIndex` without a lock (`IndexIsLatched`);
- `QueuesUsedRightly`: `QueueContract`, what `WSQ` assumes of its client: one thread pushes on a
  queue, the head stays in the array, no queue is reset that someone is about to use, and none
  that holds tasks, unless a call of no sample dealt them out and all workers wait. `LeftInv`
  carries the last part over any number of calls and changes of the number of threads;
- `CallsRendered`: when `compute` returns every task has rendered every sample of the call;
  `CallsComplete`: and nothing is left in a queue or with a thread (`ReturnsComplete`), if the
  number of threads is fixed or no call is empty. Without that hypothesis it is false: a call
  without samples deals out tasks that nobody runs, and a queue that goes out of use keeps them;
- `Refinement`: `WorkStealing` implements `DagExecution`.

The invariant turns on one distinction. A vector is *open* from the reset of the last queue to
the start of the last task. While it is open, a task whose inputs have ended and told it (it is
`Released`) is with one thread (`OwnerInv`), or in one queue (`SlotInv`, `LiveInv`), or has
ended, and nothing that is not released is anywhere (`ReleaseInv`); the counter of a join is
the number of inputs that have not ended plus the threads that have still to activate it
(`CounterInv`), so the decrement that finds zero is the last one and there is only one. While
it is *closed*, nobody has a task and no operation is past its first access (`ClosedInv`,
`ClosedQueues`), so the one thread that is between two vectors (`Pool`) may reset counters and
queues without a lock. A vector is closed by the last task, which is released only when every
task has ended: a task of a finite DAG that has not ended has an input that has not, or leads
to the last stage. `Locals` says what the locals of a thread mean at each place; `OpInv` is the
part of `Inv` of the queues that survives resets. The refinement maps `done` and `fIndex` and
the threads in a body: `EndOfTask` is `Finish`, entering a body is `Start`, the last task goes on
to the next vector, `Compute` begins a call, the other steps stutter.

### Loop graph (`SchedulerParts_proofs`)

For every finite set of loops, every graph `closeLoop` can leave, with and without grouping,
and every order in which the sets of loops are walked (`LoopGraphAssumption`; loops are
numbered against the order in which they were closed):

- `GraphInvariance`: `GraphSpec => []GraphInv`;
- `LoopsInOrderHolds`: every loop with code is in one task, once, and runs after the loops it
  reads from;
- `DagIsSchedulableHolds`: what the scheduler takes for granted of its tasks.

`GraphInv` follows the passes. While uses are counted, a loop that two counted loops depend on
was counted twice or is still to be (`Counting`, `Twice`), so that a use count of one means one
reader. While loops are grouped, a loop about to become part of its only reader has no chain
of its own yet and is not among the calls to make (`Grouping`); what is in a chain is in no
other, and once (`Chained`); what is separate depends on separate loops and is used (`Linked`);
and the chains keep the dependencies of `closeLoop` (`ChainsKeep`), which is what `concat` could
break. While `sortGraph` walks, a loop on a level is before those it depends on, or they are about
to be moved (`Sorting`); a loop that is moved again leaves its level, and the level of every loop
has a reader not more than one level before it. So only the root is on level 0, and at
the end only that level can be empty of code (`Sorted`, `Place`, `Erased`). While
`computeForwardDAG` numbers, the loops with a number are those of the levels behind
(`Numbering`).

### Factories (`LLVMFactory_proofs`, `MCFactories_proofs`)

- `SameObject`: the same key gives the same object, and what is in the table is alive. `Inv`
  adds that the references counted are among the pointers held and that an object outside
  the table is gone.
- `CountedPointers`, for callers that look nothing up by key (`WithSHAKey` FALSE) and delete
  instances before their factory (`Careful`): `PointersValid` and `InstancesHaveFactory`, from `CountedInv` (every pointer is
  counted).
- `HandlerStays`, with compiled programs only: `HandlerInstalled`, from `CompiledInv`
  (`gInstance` is the size of the table). The hypotheses are those of section 5, without
  which the code does not keep these properties.
- `CountedReferences`: one reference of a remote factory per pointer handed out, across restarts
  and lost answers. `CreatedOnServer`: what is returned is on the server, unless it has restarted
  since the cache was last empty. `Inv` of `RemoteDSP` adds that until then every proxy's factory
  is on the server (`Known`).
- `MCFactories_proofs` carries these to the five invariants of the run `factories`: `part`
  never changes, so a behaviour of the run is one of the instance it names.

### Remote (`MCRemote_proofs`)

- `NoSlaveLost`: a slave that exists is in `fRunningDsp` once or with its start thread, and has a
  key whenever a request looks for it. `Inv` says where a slave can be (`Owned`), that `fLocker`
  keeps start threads apart (`StartsApart`), and that a slave without a key is the one
  `createInstance` is about to give one (`KeysComing`).
- `SweepComplete`: a slave found inactive when a call starts is gone when it is served, because it
  stays ahead of the iterator while other elements are erased and appended (`LostAhead`).
- `RunningStays`, for networks that are `Timely` (the turns of the messages lost in a row and
  the lateness of one make up two seconds at most): a machine whose server runs and was heard of
  is listed. `StoppedLeaves`, for any network: the server listed runs, or stopped less than three
  seconds and the longest time of a message ago, since a late message is stamped when it
  arrives. `Inv` bounds the age of an entry by the messages lost since and the current sleep when
  nothing is under way, else by the turn that sent a message under way (`Heard`), and says that
  the messages of a stopped process are older than its stop.
- `BlockRenderedHolds`: the slices of a call tile its block and its output is written, for any
  buffer size and block; between two slices `RemoteRender!Inv` says which frames were sent and
  written.
- The module states the four invariants of the run `remote`, for all networks, processes,
  connections, keys, slaves and blocks.

### Instruments (`LV2Synth_proofs`, `MCSynths_proofs`)

For every number of channels, notes and voices, every polyphony, block size and queue:

- `Invariance` of `LV2Synth`: the voices are in the two lists, each once, the counters count
  them, notes lead to voices, gates follow the used voices, a key that is down has its voice,
  with the gate up and no note-off waiting, until that is stolen (`HeldNotesSound`), and a voice
  that is taken over was heard with its gate closed. `Inv` adds that a key that was not struck
  again has one voice, to which `notes` leads while its note-off is not waiting
  (`OneVoicePerKey`), that an inactive instrument has no voice in use, and that a gate the synth
  saw open was open at the end of the block before. From it `GatesFollowKeysHolds`: a voice
  whose key is up is closed or waits for its end, unless the key was struck again (`NoNoteHangs`;
  on such keys notes do hang, section 5).
- `ChannelsFollowed`: in any order of bends, tunings, registered parameters, controllers and
  thefts a voice in use has the note, the tuning, the bend and the control of its channel, and its
  scale tuning, unless that came in the form that leaves running voices alone and the voice got
  no frequency since. A change of the bend range moves no voice; it counts from the next bend on.
- `VSTInvariance`: no voice is lost between `playing`, `released` and `free`; the queue is in the
  order of its deltas, which inside a block are counted from its start; what was rendered of a
  block ends at the last note taken from the queue. From it `NotesOnTheirFrameHolds`, until a
  block begins with notes of its own and of a later one (`mixed`).
- The five invariants of the run `synths` follow.

What a loop over a list erases is `Keep` of `Filters`: the k-th element left is the one at the
place of rank k. The library's `SelectSeq` says the same by recursion, which cannot be reasoned
about without induction.

### Zones (`MCInterfaces_proofs`)

`UserInvariance` and `AskedIsKeptHolds`, for any number of zones, widgets, displays and OSC
nodes, any range and any resolution whose positions include both ends of the range, when the
user alone moves widgets: the value last asked for is in the zone, and an item that believes it
is up to date shows what it has cached, although reflecting a zone in a widget runs the
handler of the widget, which calls `modifyZone`. Neither holds in the middle of the calls, so
`Inv` speaks of the stack: the value asked for is the one the call of `modifyZone` carries, or
the one in the zone (`Carried`); below the top there are only passes and scans; and the item
whose cache is ahead of what it shows is the one the current call is about (`Told`).

### OSC root (`MCInterfaces_proofs`)

For any number of nodes, hosts, messages and transmitted values:

- `DestIsKeptHolds`, for every application: between two messages the stream points to the
  destination asked for, whatever is answered, set and transmitted meanwhile by the other
  thread, unless the first remote host has replaced one that a message had set (`replaced`).
- `OscInvariance`, `RepliesCompleteHolds` and, in `DestIsKeptHolds`, what is said of transmitted
  values, for every application that is `Sound`: values are transmitted only when a destination
  was given, and then no message is answered and none sets the destination. The code does not
  enforce this; section 5 shows what happens otherwise.

`Handler` gives
the list of steps of a message; that list is `Balanced`: it sends only while the destination is
away, and puts it back before it replaces it again and at the end. `Away(q, k)` is where the
destination is after k steps, and `DestInv` says that `fAddress` agrees with it at every
step; nothing the other thread does changes `fAddress`. `Place(j)` is the step that sends the j-th packet: the attributes and the alias first, then
one in the three steps of each node, so that a get of the root of any number of nodes is
answered completely and in order (`SendsAnswer`). `UiInv` and `Message` say that the other
thread sends one message at a time while the listener sends nothing, so that a packet is whole.

### Ports (`MCInterfaces_proofs`)

`SetupInvariance`, `ListenersSoundHolds`, for any number of applications, ports and starts,
where there is room for all (`RoomForAll`: a port besides the two of output for each application,
a try for each, and a socket for the streams and one for the listener): a port announced
is the one the listener has, the streams are there while it listens, and no search fails. The
last is a counting argument: an application goes past a port only because another one listens to
it and stays there, so that at most `Cardinality(Apps) - k` applications have gone k ports far
(`Crowd`), while `Held` says what each holds at every point of start, run and stop.

### Only model-checked

- Liveness: `CyclesEnd`, `RequestsAnswered`, `Terminates`, `Reflected`,
  `StartEnds`. Fairness is out of the prover's reach.
- `CompiledIsMeaning`, `ValuesAdmitted`, `AppliedMatches`, `FirstAppliedIfWhole`,
  `SignalsMeanDiagram` of the run `compiler`. `PatternMatcher`, `Diagrams` and `Signals` are
  written with recursive operators on terms and signals, which the prover does not take, and what
  they compute for every input would need induction over data.
- `LoopsInOrder` and `DagIsSchedulable` are proved of `GraphSpec`; that the part *graph* of
  `MCCompiler` is a behaviour of it is not, since that module reaches the recursive operators of
  the others. By definition its steps are those of `GraphNext`, and in the other parts the graph
  does not move.

## 5. What the modules state and the code does not keep

These properties are definitions of the modules, each with the constants that show it and the
line where the code fails it. The passing runs check them only where the last column
says so; the others are in no run.

| Property | Module, instance | Line | What happens; where it holds |
|---|---|---|---|
| `ReturnsQuiescent` | `WorkStealing`, any two threads | scheduler.cpp:1257 | `compute` returns with workers still in `computeThread` |
| `ZeroLengthNotesSound` | `LV2Synth`, *voices* | lv2synth.cpp:625 | `lastgate` is that of the last block: when a voice is taken over, a note that ends in its first block ends at once |
| `AllocatedVoicesFound`, `NoNoteHangs` without `restruck` | `LV2Synth`, *voices* | lv2synth.cpp:767 | a queued note-off clears the entry of its note in `notes`, although the key was pressed again and another voice plays it, which then hangs; `NoNoteHangs` holds in *voices* of all other keys |
| `ReleasedKeyOff` | `VSTSynth` | vst.cpp:758 | a note that sounds on several voices puts them all among the released ones and closes one gate; a stolen voice stays among them |
| `TailsRendered` | `VSTSynth` | vst.cpp:808 | computing no frame finds every voice silent: one that was just released is given back before its gate is closed |
| `FramesExact`, `NotesOnTime` without `mixed` | `VSTSynth` | vst.cpp:693 | after notes of this block, a note of a later one makes the whole block computed again; with `mixed`, which says that this came up, they hold in *vst* |
| `RunningExclusive` | `RemoteServer` | Server.cpp:210 | the daemon walks `fRunningDsp` while a start thread appends to it |
| `SlaveKept` | `RemoteServer` | Server.cpp:184 | a slave that fails to start is deleted and then used for its mutex, and `createInstance` may still set its key |
| `AvailableInstanciable` | `RemoteServer` | Server.cpp:551 | a failed lookup leaves an entry without factory |
| `StopHonoured` | `RemoteServer` | Server.cpp:376 | start and stop are given the SHA key, which is empty in these requests, instead of the instance's |
| `CreatedAreValid` without `restarted` | `RemoteDSP` | remote_dsp_aux.cpp:363 | the factory returned is unknown to a server that restarted; holds until a restart |
| `CompiledAsAsked` | `RemoteDSP` | remote_dsp_aux.cpp:347 | the key does not depend on the options: a factory compiled with others is returned |
| `ListComplete` | `RemoteDSP` | remote_dsp_aux.cpp:1068 | an empty name shifts the words of the list |
| `DeleteDestroys` | `RemoteDSP` | remote_dsp_aux.cpp:424 | the release of the reference is commented out |
| `WritesInBuffers` | `RemoteRender` | remote_dsp_aux.cpp:674 | the padding of the last slice is written into the caller's input, behind its block |
| `PointersValid` | `LLVMFactory`, `WithSHAKey` | llvm_dsp_aux.cpp:1047 | a lookup by key returns a pointer it does not count; holds in *counted* |
| `HandlerInstalled` | `LLVMFactory`, `Bitcodes` | llvm_dsp_aux.cpp:788 | all factories are counted when they are destroyed, compiled ones only when they are made; holds in *compiled* |
| `NoNullFactory` | `LLVMFactory`, `Machines` | llvm_dsp_aux.cpp:1272 | machine code that cannot be read leaves a NULL in the table |
| `InstancesHaveFactory` | `LLVMFactory`, `Careful` FALSE | llvm_dsp_aux.cpp:1348 | a factory deleted before its instances is not found when they are; holds for careful callers, in *counted* |
| `AskedIsKept` | `GUIZones`, `MaxStores` > 0 or `Unit` 2 | GUI.h:107, faustqt.h:1041 | a handler writes back the value read before, or the value rounded to the widget's positions; holds in *user* |
| `Reflected` | `GUIZones`, `Nodes` and `MaxStores` | FaustNode.h:106 | the zone is read twice, to send it and to remember it; holds in *user* and *client* |
| `ActionsTransmitted` | `GUIZones` | GUI.h:162 | a value replaced before the next pass is never sent |
| `DestIsKept` without `replaced` | `OSCRoot`, kind "desthost" and no destination given | OSCListener.cpp:79 | the first remote packet replaces a destination that a message has set; with `replaced`, which says that this came up, it holds in *osc* |
| `TransmittedToDest`, `PacketsWhole`, `RepliesComplete`, `ListenerAlive` | `OSCRoot`, an application that sends and answers | FaustNode.cpp:44, OSCStream.cpp:78 and 96 | two threads on one stream: values go to whoever is being answered, packets mix, and the listener's thread ends when the other one has ended its message; hold under `Sound` |
| `HelloTellsPort`, `NoNullStream` | `OSCSetup` | OSCSetup.cpp:103, OSCControler.cpp:135 | `hello` answered during the start tells the requested port; without `Descriptors` for the streams `start` fails and `run` writes its message to streams that are not there |
| `AnnouncedIsBound` | `OSCSetup`, outside `RoomForAll` | OSCControler.cpp:132 | the result of `start` is ignored, and the port announced is not bound; holds while there is room for all |
| `TypingEnds` | `Signals`, `7 & (-1 - x')` | sigtyperules.cpp:105 | the search for a type oscillates; holds for the programs of the run |
| `ValuesAdmitted` | `Signals`, `&` of a positive and a possibly negative operand; reads of a table | interval.hh:127, sigtyperules.cpp:441 | the interval is too small: the bound of the operand that may be negative is taken; a read of a table has the type of the initial content, whatever is written |
| `MinOf`, `MaxOf` | `Intervals` | interval.hh:200 | bounds of an interval that is not valid are used |
| outcome "undefined" | `PatternMatcher`, a pattern (x, x, y) and a more general rule after it | patternmatcher.cpp:706, environment.cpp:152 | after a repeated variable has failed, the variables left are searched in an environment that is `boxError` |

Stated in the modules, true on the instances of the runs, and in no run because another
property implies them or rests on them: `IndexIsLatched`, `NoTaskLost` (parts of `Inv`),
`StoppedForGood`, `SearchAvoidsOutput`, `GraphInv` (inductive, proved) and
`GraphTerminates` of `LoopGraph`, and the `TypeOK` of the components that is not part of an
`Inv`.

## 6. Findings

Four runs show that the code does something else than its documentation says; `PROJECT.json`
quotes the lines.

1. `back_to_back`: the wait for the workers at the end of `compute` is commented out, and a
   call that follows closely meets the worker of the previous call between its store and
   its test of `fIndex`: both set up the graph.
2. `old_value`: outside Apple builds `DEC_ATOMIC` returns the old value, and a task with
   several inputs is never activated.
3. `first_rule`: `case {(x,1) => a; (x,y) => b; (0,2) => c}` applied to `(0,1)` gives `b`. The
   third rule makes a transition on 0, into which only the first of the transitions behind
   the variable is merged.
4. `type_table`: the type of a written table forgets how often it is written, and a read at
   the pace of a slider is cached for the block.

## 7. Plan

Done: the scheduler with its queues and thread count, the loop graph from `processFIR` on, the
two instruments, the remote service and the caches of factories, zones and OSC (checked and
proved); pattern matching, propagation, typing and code of signals (checked). Next:

1. Proofs: the operations of `Intervals` admit the results of the operations they stand for;
   what one step of the generated code does to the delay lines, for any program.
2. How the loop graph is built (`openLoop`, `closeLoop` and the dependencies of `CS`), so that
   the graphs `LoopGraph` starts from are derived too.
3. The Max object `faustgen~` (`embedded/faustgen`), which shares LLVM factories between
   objects that compile while they compute.

## 8. Not modelled

- In the scheduler: the timing of stealing (`MeasureStealingDur`), priorities and
  affinities; the memory the destructor frees while a terminated worker may be anywhere
  (scheduler.cpp:573); a number of threads larger than the number of queues
  (`OMP_NUM_THREADS` above the number of processors, scheduler.cpp:1211); `dag[0]` of a
  program without outputs (wss_code_container.cpp:95), which has no levels.
- OpenMP, vector and scalar containers: sequential emission of the same loop graph.
- Parser and evaluation, normalisation: functions on terms of unbounded size, whose
  definitions would repeat the code; the results of evaluation that matter to the stages
  after it are the inputs of `PatternMatcher` and `Diagrams`.
- The hash-consed trees of `tlib`: a sequential table; terms are values in the models, for
  which equality of pointers and of terms coincide.
- Back ends, documentation, diagrams: text output. The HTTP interface: the tree of addresses
  of OSC over a library, without state between requests. `mydsp_poly`: a table of voices
  without theft or release. Drivers and the other plug-in wrappers: glue to a host's API.
- In the modelled components, what the notes of `PROJECT.json` say: real numbers and the
  other primitives of signals, regular expressions of OSC addresses, texts of requests and
  answers, the layout of interfaces.

The greater part of the repository is of these kinds (parsers and lexers that are generated,
instruction classes, wrappers for some forty hosts, vendored libraries, examples), so the
modules stand for a small share of its lines.
