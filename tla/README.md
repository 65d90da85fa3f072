# TLA+ models of the TeraS memory system simulator

The repository is a SystemC/TLM performance model of RRAM storage: an NVMe
controller behind PCIe (`TeraSPCIeController/`), a DIMM-style memory controller
(`RRAMMemoryController/`), the RRAM device both drive (`RRAMMemory/`), and test
benches. The numbers it reports are only worth something if the control logic
moves every command exactly once through its queues, tables and latches. That
logic is spread over some twenty SystemC processes which share queues and wake
each other with events, and it is what these modules are about.

Paths below are relative to `src/`. `TC` is
`TeraSPCIeController/src/TeraSPCIeController.cpp`, `TC.h` its header, `DC` is
`RRAMMemoryController/src/TeraSController.cpp`, `TB` is
`RRAMMemoryController/Testbench/includes/TestbenchTop_mod.h`, `CH` is
`RRAMMemory/src/TeraSMemoryChip.cpp` and `RC` is
`TeraSPCIeController/TeraSPCIeTest/rootComplex/src/pcieRC.cpp`.

## 1. Inventory

| Component | State | Operations and partners | What is hard | What makes it correct |
|---|---|---|---|---|
| **Command path of the PCIe controller** (`TC`, `inc/TeraSPCIeController.h`) | doorbell queue, SQ1 and CQ1 rings, phase tag, four TLP queues, done queues | threads `memReadReqCmd`, `pcmdQInsert`, `arbiter`, `writeCmdDone`, `readDone`; register writes and completions come in through `b_transport` | five threads that test a condition once, wait, and go on; lost events; rings that wrap | commands accepted in order, never more than the tables hold, each reported once; completions never overwritten unread |
| **Command tables** (`HostCmdQueueMgr`, `iTagManager`, `CmdParamTable`, `RunningCntTable`, `TLPManager`) | one entry per tag | filled by `processCompletionTLPCmd`, released by the arbiter | four structures updated one by one, by two processes | they agree on which tags are busy and with what |
| **Physical command queue** (`CommandQueueManager`, `CwBankLinkListManager`) | PCMDQ entries and a linked list per channel and bank | `pcmdQInsert` adds, dispatchers unlink, completions free | queue full in the middle of a command; recycled entries still linked | each code word inserted once, with its own offset; lists hold just the live entries |
| **Banks, dispatcher, channel manager** (`TC` 629-1073, 1201-1627) | bank and latch status, short/long/DMA queues, credits | per-channel processes; timed queues | latches freed by four processes in different orders | at most one command in a bank and its latches; every queued command is dispatched |
| **Data buffers** (`DataBufferManager`, `TC` 875-1000, 1074-1199, 1628-1732, 2590-2657) | write and read buffers, queues of buffer numbers | shared by all channels | a buffer handed out before it is reserved; queues popped in lock-step by index | a buffer belongs to one code word; data goes to the channel that asked |
| **DIMM controller** (`RRAMMemoryController/src/TeraSController.cpp`) | slot table, link lists, queues, latches, completion queue | `b_transport` from the bench; dispatcher, channel manager, pending and completion methods | two latches per bank handed on by four processes; an event shared by reads' data and writes' responses; a countdown whose zero means two things | every slot completes once |
| **RRAM device** (`RRAMMemory/src/TeraSMemoryChip.cpp`) | two data latches per bank, pages | command, data and status phases over ONFI | guards that drop data when a latch is busy; one queue shared by channels | a page read returns what was written last |
| **Root complex, router, system memory** (`TeraSPCIeTest/`) | TLP queues, arbiter token | between host memory and controller | one token for two arbiters; a fetch split where SQ wraps | every request answered, in full, once |
| **DIMM bench** (`TB`, `slotManager.h`) | submission queue, slots, tags, lists of a command's slots | single core: two threads that hand commands to each other; several cores: one thread each, a mutex for the bus | a slot, a tag or the bus given to two users; a flag never reset | every command of a test reported once, then the test stops |
| **Host** (`PciTestBench`, source not in the repository) | SQ and CQ in memory, doorbells | submits, polls by phase tag | - | external here |
| **Device bench** (`RRAMMemory/TestBench/`), **generators, reports, utilities** | files | input and output | - | not modelled |

Files named `_old`, `_vector` or `_backup` are earlier versions of the same
classes that no current file includes.
`NvmeQueue.h`, `tlp.h`, `NvmeReg.h`, `Config.h` and `PciTestBench.cpp` are
included but not in the repository; what is needed of them is modelled from its
use and marked external.

`PROJECT.json` lists the hazards found in this survey, each at its line and with
the properties that watch it, or the reason why none does.

## 2. Modules and plan

| module | models | composed with |
|---|---|---|
| `PCIeCommandPath`, abstract `NvmeCommandService` | doorbells, fetch, tags, PCMDQ, completions (section 3) | its own kernel variables |
| `PCIeCommandPathProofs`, `PCIeCommandTagProofs`, `PCIeCommandServiceProofs`, `PCIeCommandDataProofs` | the proofs about it, each on top of the one before (section 7) | `PCIeCommandPath` |
| `SystemC` | kernel: processes, events, timed queues | used by all below |
| `RRAMDevice` | the memory device's latches and processes | `SystemC` |
| `DimmController`, abstract `DimmService`; `DimmControllerProofs` | `TeraSController`; its inductive invariant (section 7) | `RRAMDevice` |
| `DimmBench` with `QueueHost` (`QueueHostProofs`), or with `CoreHost` (`CoreHostProofs`) | the bench with one core, with several | `DimmController` (section 4) |
| `RootComplex`, `RootComplexProofs` | `pcieRC` | `RRAMDevice` for the kernel |
| `PCIeDataPath` | PCIe controller from the bank lists to the memory and over the link | `RootComplex`, `RRAMDevice` (section 5) |

They were written in this order: the command path first because everything the
host sees depends on it, then the DIMM controller, whose channel logic the PCIe
controller inherited, then the PCIe controller's own channels and buffers.

Left to prove: `ReadsReturnOwnData` of the DIMM controller and the five invariants
of the data path (section 7, "Only model-checked").

## 3. The command path (`PCIeCommandPath`)

### State and actions against the code

| TLA+ | code |
|---|---|
| `sqHead`, `tailQ` | head of `mSQ1Queue`, `mTailAddrQueue` |
| `rdCmdQ`, `rdDataQ`, `wrDataQ`, `compQ`, `token` | the four queues of `TLPManager`, `mArbiterToken` |
| `tagTable`, `hostCmd`, `hCmdQSize`, `param`, `runCnt` | `iTagManager`, `HostCmdQueueMgr`, `CmdParamTable`, `RunningCntTable` |
| `insertQ`, `job` | `mHCmdQueue`/`mCmdSize`/`mFreeTagQueue`/`mDelayQueue` (always pushed and popped together), locals of `pcmdQInsertThread` |
| `pcmdq` | PCMDQ entries and how far each sub-command is |
| `tagQ`, `dmaActive`, `cmdDoneTagQ` | `mTagQueue`, `mDMAActiveCmdQueueData`, `mCmdDoneTagQueue` |
| `cqHead`, `cqTail`, `phaseTag` | `mCQ1Queue`, `mPhaseTagCQ1` |
| `sqMem`, `cqMem`, `fetchResp`, `moved`, `completed`, ... | host memory, the request being answered, and what the host has seen |

Actions carry the names of the functions they model; a thread's loop is split at
its calls of `wait()`, and the suffixes say what the turn does
(`WriteCmdDoneWaits`, `WriteCmdDone`). `PROJECT.json` maps every definition to
its lines.

SystemC is modelled by four variables: the event each thread waits for, the
runnable threads, the pending delta notifications and the pending timed ones.
`Delta` is a delta notification phase and `Tick` lets time pass, each only when
no process is runnable; a notification nobody waits for is lost. Which runnable
process goes next is open, as in the standard. Timed notifications expire in any
order and any combination, so the model covers every choice of delays.

### Abstractions

- A command is a number with a kind and a count of code words; a code word's
  place is the offset within the command. LBAs, payloads, field widths and
  reports are left out.
- Between PCMDQ and memory a sub-command takes its own way: a write asks for its
  data, receives it and is programmed; a read delivers its data. Banks, channel
  queues and data buffers are `PCIeDataPath`'s (section 5); here they only delay,
  and the model allows every order in which sub-commands can finish, and more.
- `WriteDataArrives` and `MemReadCompletion` may happen between any two steps of
  threads. The code has them in processes of their own; the model does not ask
  for a delta cycle between them.
- A TLP reaches host memory when its transfer starts; the thread is released
  when it ends (`tlpSent`, `compSent`).
- The wait for MEM_READ_DATA_Q in `longQueueThread` (`TC` 1106) only delays a
  request and is left out.
- The full waits for MEM_READ_CMD_Q and MEM_WRITE_COMP_Q are in the model
  (`FetchBlocksOn`, `DoneBlocksOn`) although no step takes them: `FetchFits`
  and `CompletionQueueHasRoom` say so.
- The host keeps at most `SQSize - 1` commands outstanding, counted by the
  completions it has seen, and rings the tail doorbell only for new commands.
  `CircularQueue::isFull` is taken as "one entry is kept free".

## 4. The DIMM controller, its device and its bench

### State and actions against the code

`SystemC` is the kernel: `Wait`, `Sleep` and `Notify` are `wait(event)`,
`wait(time)` and `notify(SC_ZERO_TIME)`; a timed queue (`peq_with_get`,
`PendingCmdQueueManager`, `sc_event_queue`) is a pair of entries to come and
entries that are due. `running` keeps other processes out while one is in the
middle of a run that is cut into several actions.

| TLA+ | code |
|---|---|
| `mCmdQueue`, `head`, `tail` | command queue memory with the next addresses, `mBankLinkList` |
| `mSlotTable`, `mIntermediateQueue` | `mSlotTable` and the countdown of a slot's code words |
| `mAscq`, `mAlcq`, `mCwBankStatus`, `mPhyDL1Status`, `mPhyDL2Status`, `mAvailableCredit` | the members of these names |
| `dispatch`, `manager` | where `cmdDispatcherProcess` and `chanManagerProcess` of a channel are, and their code word |
| `mSlotNumQueue`, `mCompletionQueue`, `mCompletionQueue_mcore` | finished slots on the way to the host, in both completion modes |
| `dl1`, `dl2`, `emulation`, `readBankQ`, `writeBankQ`, `phyBank` (`RRAMDevice`) | latches, emulation cache and bank queues of the device |
| `mSubQueue`, `mSlotIndexQueue`, `slotBusy`, `slotTags`, `queueSlots`, `test`, `core` | the benches |

One action is one run of a process from a wait to the next, or a part of one when
the code between the waits loops. `b_transport` is part of the bench's action
that calls it.

`DimmService` is what the host relies on: a slot is idle, busy with one command,
or done until its completion was read, and takes a command only when idle, one
with a higher number than the last.
`DimmBench` maps the controller to it (`SlotService`): busy while a code word of
the slot is in a list, queue, thread or timer; done while the slot's number is
in `mSlotNumQueue` or a completion queue.

### Abstractions

- A code word is its address in the command queue, and its data the pair of
  sub-command number and code word. Field widths, latencies and reports are left
  out. The LBA gives channel and bank as `getPendingChannel`/`getPendingBank` do.
- One die. A page is not stored: what a read brings is named after the code word
  that reads it, so the properties tell whose data arrives, not its bytes.
- Controller and device use the same read and program times: a read's two timers
  expire together, and the device's program time ends no later than the
  controller's (`SameInstant`). All other timers expire in any order.
- A poll that finds nothing is left out; the poll timer expires when there is
  something to read. The bench's batch limit of 31 entries is never reached here.
- `residualCmd`, uninitialised for some cores, is any value up to `MaxResidual`.
- With several cores a sub-command gets its tag and enters its list (`CoreBegins`)
  before the core asks for `bus_arbiter` (`CoreSends`, `CoreWaitsForBus`).

## 5. The data path of the PCIe controller (`PCIeDataPath`)

Here a sub-command starts where `pcmdQInsertThread` links it to its bank and ends
where its PCMDQ entry is freed. Tags, running counts and completions are in
`PCIeCommandPath`; banks, buffers, credits, latches and the link are here. The
two are not composed: the product is out of TLC's reach, and the interface
between them is narrow (a sub-command is linked, later it is finished), so the
command path allows every order of finishing that the data path can produce.

| TLA+ | code |
|---|---|
| `list` | the link list of each bank, as a sequence (`DimmController` has the pointers) |
| `queue` | per channel: `mAscq`, `mAlcq`, `mAdcq`, `mDMADoneQueue`, `mDMAQueueData`, `mWriteBuffAddr` |
| `shared` | for all channels: `mActiveWriteCmdQueue`, `mActiveDMACmdQueue`, `mWrBuffAddr`, `mRdBuffPtrQueue` |
| `status`, `credit` | bank and latch status, `mAvailableCredit` |
| `buffer` | write and read data buffers (busy, content), `mWriteData` |
| `tlpQueue`, `link` | `mTLPQueueMgr`, `mArbiterToken`, `chanIndex` of `parseData` |
| `local[p]` | where thread `p` is, with its sub-command and buffer |
| `rcQueue`, `rcToken`, `rc`, `hostData` (`RootComplex`) | the root complex and the data it left in memory |

All processes are there: the dispatcher, `longQueueThread`, `sendWriteCmdThread`,
`dispatchReadCmdThread`, `chanManagerThread`, `chipSelectMethod`, the pending and
completion threads, `checkRespMethod`, the arbiter, both threads of the root
complex, and the device.

A write waits for a buffer, asks for its data over the link, is answered by the
root complex (`parseData` finds the channel by the buffer), and then takes the
bank. A read takes credit and latch, then a read buffer, then the bank select
brings its data, which crosses the link after the ECC delay. A fetch of
submission entries that crosses the end of the queue shares the link with them.

The time assumptions of section 4 hold here too, and a data transfer ends for
both its ends at once. Polls of 1 ns that find what they found before are left out.
The root complex's `mArbiterToken` is uninitialised and starts as 0 or 1; above 1 its
arbiters end without a return value (`pcieRC.cpp` 522, 558), which is undefined and not
modelled beyond the build that takes the second branch.

### Loads of the run, and those it leaves out

The passing run has writes of one or two banks beside a read of another channel, reads
of one bank and its neighbour, reads of two channels, and writes of one bank beside a
read of the other. Other mixes break in ways for which no document of the
repository states the opposite, so they are not findings; they are named here:

- **Writes on two channels.** `getFreeBuffPtr` does not reserve; `setBuffBusy`
  follows later in another thread (`TC` 891, 1134), so two channels can get one
  buffer, and a stale wake-up reads the front of an empty `mActiveWriteCmdQueue`
  (`TC` 882).
- **Reads and writes of one bank.** The dispatcher and the channel manager wait
  for each other's latches (finding `pcie_dispatcher`); with the bank free and the
  latch busy the dispatcher loops without waiting (`TC` 1069).
- **Several reads of a channel whose transfers overlap.** `mReadData` is one
  array per channel and may be overwritten before the ECC delay of 1000 ns is
  over (`TC` 1650; 512 bytes at 800 MT/s take 640 ns); the second read may skip its
  delay; `memReadCompletionThread` frees latch and bank that another read holds
  (`TC` 1707). `DataIsOwn` therefore asks for a read's data only where no
  other read runs beside it.
- **Reads of two channels at the same instant.** The device's bank queue is
  shared by the channels and one channel may take the other's bank.
- `pushQueue` drops an entry silently when the queue is full, and
  `pendingWriteCmdMethod` does not notify the dispatcher (`TC` 1431).

## 6. Runs

`MCPCIeCommandPath`, `MCDimmQueue`, `MCDimmCores` and `MCPCIeDataPath` hold the
workloads.

| run | bounds | shows |
|---|---|---|
| `mixed` | 3 commands (write of 2, read of 2, write of 1), 2 tags, SQ 4, CQ 4, PCMDQ 2 | tables, counts, done queues and fetching stay consistent; refinement of `NvmeCommandService` |
| `writes` | 4 writes (one of 2), 2 tags, SQ 3, CQ 3, PCMDQ 3 | CQ1 fills up and wraps; the phase tag stays right; the unchecked `front()` is safe; write data complete; types, and refinement of `NvmeCommandService`, across the wrap of SQ1 |
| `reads` | 4 reads, same sizes | the same for `readDoneThread`, with MEM_WRITE_DATA_Q full |
| `liveness` | 3 commands of one code word, 1 tag, PCMDQ 1 | every command is reported, once |
| `long_write` | a write of 3 code words, PCMDQ 2 | **violated**: `WriteDataComplete` |
| `cq_full` | 4 commands, 3 tags, CQ 2 | **violated**: `PostedIsVisible` |
| `dimm_queue` | 1 channel, 2 banks, 2 slots of 4 code words, credit 1, 4 commands; tests of reads or writes, one or two slots to a command | lists, countdowns, latches, buffers and slots stay in step; refinement of `DimmService`; every command completes |
| `dimm_cores` | 2 cores, 2 channels of one bank, 2 slots of 2 code words, credit 1; 2 reads or writes of one sub-command, or 3 writes of two | one place per code word, exact countdowns, credits, one bus master, slots under their own tags |
| `dimm_read_stall` | 1 bank, credit 2, 2 reads of 2 code words | **violated**: `DL1IsHandedOn` |
| `dimm_latch` | 1 bank, 2 writes of 1 code word | **violated**: `DL2FreeWhenWriteArrives` |
| `pcie_data_path` | 2 channels of 2 banks, one write buffer, one read buffer, credit 1, TLP queues of 1, SQ 3; five loads | one place per sub-command, credits, read buffers, own data, no wake-up on an empty queue, everything done |
| `pcie_dispatcher` | 1 channel, 1 bank, a write and a read | **violated**: `DispatchesToFreeBanks` |

Why these bounds suffice: in the command path, with fewer tags than commands each
tag is recycled while other commands are live; rings of three entries wrap in
`writes` and `reads`; a PCMDQ of two is full in the middle of a command; two
sub-commands of one command finish in either order; one command of each kind
finishes at the same time. In `dimm_queue` a sub-command has two code words for
each bank, so lists grow at the tail while their head is dispatched; there are
more commands than slots, so slots, tags and addresses are reused with stale next
addresses in them; queues hold as many entries as there are banks and fill up. In
`dimm_cores` two threads meet at the bus, at both channels and in the completion
array, and core 0, which has two of the three writes, may take a tag for its second that
core 1 still uses for the second sub-command of its own. In `pcie_data_path` each resource exists once and several sub-commands want
it, so every wait in the code happens; reads of both channels meet at the read
buffer; the fetch wraps. Every action fires in some passing run. The number of
commands is the only bound on a behaviour; all queues have the sizes the code
gives them. `dimm_cores` is checked without the deadlock check because a mixed
test really stalls: the channel manager waits inside a write for a latch that only
it can free (`DC` 1132).

The properties of the command path, by what they protect:

- **Fetching.** `FetchFits`: what was asked for and what is held never exceed the
  tables, although the space is read long before it is used and the result of
  `getFreeTag` is ignored. `FetchThreadSleeps`: the reason, namely that the
  thread sleeps until its last entry was processed.
- **Tags.** `TagAccounting` (four tables agree), `LiveSubCmdsOwned` (no tag is
  recycled under a live sub-command).
- **Finishing.** `RunningCountExact` (the count is what is still to come),
  `CompletedOnce` (a finished tag is in one done queue, once),
  `DoneTagsMatchTLPs` (tag and completion TLP leave together),
  `TagQueueNeverReadEmpty`, `CompletionQueueHasRoom`.
- **What the host sees.** `PostedIsVisible` (no completion is overwritten unread
  and the phase tag tells new from old), `WriteDataComplete` (each code word
  from its own place), `ServiceSpec` (the whole path implements the service),
  `EveryCommandCompletes`.

`ServiceSpec` uses the refinement mapping `accepted` = commands whose entry was
processed (from the ring positions and the fetch under way), `active` = the
commands in the parameter table under busy tags, `delivered` = completions seen
by the host.

Of the DIMM controller:

- **Code words.** `ListsWellFormed` (two processes cut and extend lists through
  next addresses left over from earlier commands), `OneHome` (none lost, none
  sent twice), `CountdownExact` (the countdown, in which zero means "not
  started" and "finished", agrees with what is still under way).
- **Slots.** `CompletedSlotsAreIdle`, `ServiceSpec`, `NeverOutOfSlots` (the bench
  would give up dispatching for ever), `SubmissionHasWork` (it would loop for
  ever), `AllCommandsComplete`, `TagsKept`
  (several cores: a slot is found under its own tag even when two commands share
  one, and no tag is lost or freed under a command's first sub-command).
- **Latches and data.** `LatchesOwned` (with writes, a latch is busy for exactly
  one code word), `BufferHeld` (a write's data waits unchanged),
  `ReadsReturnOwnData` (with reads, the event that says "data has come" is the
  right one), `CreditsConserved`, `OneBusMaster`.

Of the data path: `InOnePlace`, `ReadCreditsConserved`, `ReadBuffersOwned`
(busy exactly while one read of one channel has it, although four threads mark,
queue and free it), `DataIsOwn`, `FindsItsEntry` (every `front()` after a wait finds an
entry, and `parseData` finds a channel), `EverySubCommandDone`.

### Fairness

`dimm_queue` and `pcie_data_path` use weak fairness of `Running` only, that is of
the simulation as a whole: as long as a process is runnable, a notification
pending or a timer set, the kernel goes on. No process or timer is favoured.
`liveness` uses more. Weak fairness of the threads, of the delta phase and of
the host's answers: the SystemC kernel runs every runnable process before it
goes on, and the test bench polls CQ1 and rings its doorbells. Strong fairness of
timed notifications (`Expires`, `Programmed`): each is due after a finite delay,
but earlier ones may keep pre-empting it in the untimed model. The host is not
required to submit.

### Findings

- **Offset restarted after a wait** (`TC` 447). `pcmdQInsertThread` sets
  `cmdOffset = 0` after waiting for PCMDQ space, in the middle of a command, so
  the rest of the command is transferred from and to the host addresses of its
  first code words (`lba` goes on correctly). Run `long_write`; with room in the
  PCMDQ `WriteDataComplete` holds (`writes`).
- **Full CQ1 not tested again** (`TC` 337, 1746). The two done threads share CQ1,
  and each tests it once before waiting for the head doorbell. Woken in the same
  delta cycle, or after the other thread has used the freed entry, one posts over
  an unread completion. Run `cq_full`. It takes a CQ1 smaller than SQ1; with
  `CQSize >= SQSize` the host's own limit leaves room (`writes`, `reads`).
- **DL1 is not handed on** (`DC` 297). A comment (`DC` 295) says that the data
  moves to DL2 when DL2 is free. `pendingReadCmdProcess` tests DL2 only once; when the
  previous read of the bank still holds it, nobody moves DL1 later, DL1 stays
  busy and no later read of the bank is dispatched. Run `dimm_read_stall`; it takes
  credit for two reads (`dimm_queue`, with credit 1, completes).
- **DL2 is not free** (`CH` 938). A comment in the device (`CH` 936) says that a
  guard is not needed because the controller tracks DL2. The controller frees
  DL2 when the write was sent (`DC` 1140), the device keeps it for the
  program time; the next write's data is dropped. Run `dimm_latch`.
- **A busy bank gets a command** (`TC` 1036, 1051). The header (`TC.h` 383) says
  that the dispatcher sends to a bank "if that particular bank is free". The code
  looks at the latch only; a write holding DL2 and a read holding DL1 of one
  bank then wait for each other (`TC` 844, 1336) and the channel manager serves
  nothing more. Run `pcie_dispatcher`.

Seen while modelling, without a document that says otherwise: the dispatcher of
the DIMM controller looks at the next bank after a wait and may sleep with work
left; `residualCmd` is uninitialised (`TB` 408); `slotNotFree` is never reset; a
command of several slots may be reported early while the submission queue is
first filled and slots run out; with several sub-commands to a command, two cores
may share a tag (`TB` 2657). `dimm_cores` reaches such states: a slot is still
found under its own tag (`TagsKept`), but `addFirstSlotNum` and `mLatency` of the
tag then belong to the other command, so the latency reported for it is wrong.
The pass runs keep to configurations without the others.

## 7. Proofs

### The command path (`PCIeCommandPathProofs`)

For every number and mix of commands and every size of tables and rings allowed
by `SizesAssumption` (positive sizes, rings of more than one entry) and
`CommandsAssumption` (counts that fit 16 bits, not zero), TLAPS proves

- `TypeCorrect`: `Spec => []TypeOK`
- `FetchNeverOvercommits`: `Spec => []FetchFits`
- `OneFetchAtATime`: `Spec => []FetchThreadSleeps`

from `Invariance`: `IInv == TypeOK /\ FetchFits /\ FetchThreadSleeps` is inductive.
`FetchFits` is not inductive alone: a state in which the fetching thread is awake
while a fetch is under way satisfies it and could start a second fetch.
`FetchThreadSleeps` excludes that state, and needs in turn that the wake-up
event is pending only when nothing is left to fetch.

The proof first shows that `TypeOK` is preserved, variable group by variable
group (`HostTypeStep` ... `EventsStep`), then splits `Next` into the fetching
thread, `processCompletionTLPCmd`, the arbiter's turn that starts an answer, the
kernel's two phases, and all the rest, which `OthersLeaveFetch` shows to leave the
fetch alone and never to shrink the room in the tables.

### The submission ring (`PCIeCommandPathProofs`)

`RingInvariance`: `Spec => []RingInv`, for every size. Commands are numbered in
the order of submission; command `p + 1` lies at place `p % SQSize`. Three
positions follow one another, less than a round apart: `Accepted`, `Fetched` (of
which `sqHead` is the place) and `submitted`.

- `SubmissionRing`: the entries between `Accepted` and `submitted` are the
  commands of these numbers; the read request and its answer point at `Accepted`.
- `Doorbells`: each queued tail is further ahead of `sqHead` than the one before,
  none beyond what was rung. It is needed because `memReadReqCmdThread` computes
  how much to fetch from the head and a doorbell that may be old.
- `OnlyAccepted`: tables, completions and `completed` name accepted commands
  only, so that a newly accepted one is new to all of them.

The arithmetic of rings is in lemmas of its own (`StepsOn`, `LastAtPlace`,
`DifferentPlaces`), which split a position into a multiple of the size and a
place: the provers do not handle `%` with a size that is not a number.

### The life of a tag (`PCIeCommandTagProofs`)

For every size, TLAPS proves `TagQueueSafe` (`TagQueueNeverReadEmpty`),
`TablesAgree` (`TagAccounting`), `CountsExact` (`RunningCountExact`),
`SubCmdsOwned` (`LiveSubCmdsOwned`), `TagsMatchCompletions`
(`DoneTagsMatchTLPs`), `QueuedOnce` (`CompletedOnce`) and `CompletionsFit`
(`CompletionQueueHasRoom`), from three inductive invariants:

- `RequestsOwned`: a request for write data names an entry that waits for it.
- `WriteDoneAwake`: when `writeCmdDoneThread` may run there is a tag for it, no
  notification is left over, and no entry is due. Without the last two a tag could
  be taken by the thread before the notification for it is delivered.
- `TagInv`: five of the properties need one another (the count says when a tag
  is queued for completion, the table who owns a live entry) and two more facts.
  `InsertOwned`: until a command is stripped, nobody else has its tag.
  `DoneApart`: the three queues of finished tags repeat nothing and hold exactly
  the busy tags with count zero.

Each kind of step that touches a tag has a lemma (`TagsAccept`, `TagsTake`,
`TagsStrip`, `TagsFinish`, `TagsPost`, `TagsRelease`); `TagsElse` covers all
others, among them the kernel's phases.

### The completion ring and the service (`PCIeCommandServiceProofs`)

These theorems have the hypothesis `LargeCQ`, `CQSize >= SQSize`: then SQ1
bounds what the host has out, and CQ1 has room for it. With a smaller CQ1 an
unread completion can be overwritten (run `cq_full`: SQ1 of 4, CQ1 of 2).

- `ServiceInvariance`: `ServiceInv` holds. `CompletionRing` puts everything behind
  the host's head within one round: first the unread completions, one entry for
  each posted command, whose phase is the one the host will look for when it gets
  there (`Lap`); behind them the entries of the queued completions; behind these
  `cqTail`, with the phase `phaseTag` will have. `ReportedOnce` bounds what is
  outstanding, and makes it a bound on all three (`ServedBound`, `DoneBound`,
  `RoomInCQ`): that is why the arbiter never overwrites an unread entry.
- `CompletionsVisible`: `PostedIsVisible`.
- `ImplementsService`: `Spec => ServiceSpec`, the refinement of
  `NvmeCommandService`. Submitting, accepting, releasing and reaping are the
  steps of the service; all others are stutters (`ServiceStep`).

### The data of a write (`PCIeCommandDataProofs`)

`WritesComplete`: `Spec => []WriteDataComplete`, under `RoomyPCMDQ`: any commands
that fit in the host command queue have no more code words together than the
PCMDQ has entries. The size of the PCMDQ is `mCodeWordNum * chanNum * queueFactor`
(`TC.h` 81), independent of the host command queue, so both
cases are configurations of the code. Without the hypothesis the property is false
(run `long_write`); the run `writes` satisfies it without room to spare.

`NeverFull` uses it: the live entries are different code words of commands
that hold a tag, the sub-command to be inserted is one more, so an entry is free.
The inductive invariant `DataInv` has three parts. `OffsetsRight`: the thread never
waited for space, so offset and index agree in entries and data TLPs. `DataAsked`:
each code word of an accepted write was moved or is still to be asked for, in
`insertQ`, ahead of `job`, or in an entry that has not got its data
(`EntryStep` lists what a step can do to an entry). `Released`: a reported command
has no tag. A command without a tag is in none of these places (`TagInv`), so all
its code words were moved.

### The DIMM controller (`DimmControllerProofs`)

For every number of channels, banks, slots, code words to a slot and credits
(`ControllerAssumption`, `DeviceAssumption`), and for either completion mode. The
module has no specification of its own to prove anything of: it shows that every
step of controller, device and kernel preserves `DimmInv`, whoever the host is,
and what a host must respect for its own steps to preserve it. The two benches
below cite these lemmas.

Lists, queues, threads and timers hold addresses, and an address may be stale: next
addresses of earlier commands remain in the command queue. `DimmInv(place, r, m)`
therefore speaks of a map `place` that says where each code word is (in no place, in
a bank's list, with the dispatcher or the manager, in `mAscq` or `mAlcq`, or timed)
and of a rank `r` below `m`, which numbers the words of the lists in the order they
were linked. The three are existentially quantified; each step names the new ones.

- `Located`: what is in a queue, a thread or a timer of a channel is an enumeration,
  without repetition, of the words `place` puts there. `OneHome` follows, because
  `place` is a function.
- `Lists`: from the head of a bank's list, following next addresses gives the listed
  words in the order of their rank and ends at the tail. The rank makes it provable
  that a list ends: the definition of `ListOf` recurses over next addresses, and two
  processes cut and extend lists through the same cells (`DC` 876).
  `ListsWellFormed` follows.
- `Kinds`: a word in `mAscq` or among pending reads is a read, one among pending
  writes a write, and what the manager does fits its word.
- `Finished`: the countdown of a slot is the number of its words that are left, or zero
  before the first and after the last; a slot is reported at most once, and only
  with no words left. `CountdownExact` and `CompletedSlotsAreIdle` follow. The
  countdown alone is not inductive: zero is read as "start at the slot's count"
  (`IntermediateCmdQueueManager.cpp` 14), which is right only if none of the
  slot's words has finished, and that needs `Located` and the idle slots.
- `DataHeld`: the buffer holds the data of a write until the device has it
  (`BufferHeld`).
- `CreditsKept`: free credits and the reads that hold one add up (`CreditsConserved`);
  needs `Kinds`, since a queue is shared by both kinds and only reads take credit.

`ControllerKeepsInv` has a lemma for each action. `Follows(place)` is its conclusion:
the invariant holds afterwards, and the step is either none of `DimmService` or a
`Finish` of one slot. For a host: `CommandKeepsInv` (a command goes into an idle slot,
a write's data is in the buffer), `DataWrittenKeepsInv` (data of an idle slot),
`QueueReadKeepsInv` and `StatusReadKeepsInv` (completions read), `HostAloneKeepsInv`.
`FollowsServes`, `AcceptServes`, `CollectServes` and `StutterServes` turn these into
steps of `DimmService` under the refinement mapping `SlotsSeen`.

### The single-core bench (`QueueHostProofs`)

For all the constants of the controller and every load allowed by `BenchAssumption`
and `QueueHostAssumption`, reads and writes mixed too, TLAPS proves `QueueOneHome`
(`OneHome`), `QueueLists` (`ListsWellFormed`), `QueueCountdown` (`CountdownExact`),
`QueueCompletions` (`CompletedSlotsAreIdle`), `QueueBuffers` (`BufferHeld`),
`QueueServes` (`ServiceSpec`, the refinement of `DimmService`), `QueueHasWork`
(`SubmissionHasWork`), for loads of writes alone `QueueLatches` (`LatchesOwned`) and,
under `SlotsSuffice`, `QueueSlots` (`NeverOutOfSlots`).

`QueueInv` is `DimmInv` with what the bench knows of its slots. `SlotsHeld`: the slots
not in `slotBusy`, and those the bench was told of and has not freed, are idle, the
latter different from one another; between the data of a write and its
command the slot is still idle and the buffer holds the data. `EntriesFit`: the
thread sends entries that exist. `IdsGrow`: the controller has seen only numbers up
to `cmdIndex`, and a smaller one while a command is to follow its data.

`QueueHasWork` needs an invariant of the two threads, `WorkInv`: the turns that are
owed to `submissionQueueThread` (it is awake, or its event is pending: `Owed`) are at
most the completed slots queued for it. A turn is owed when a command has just
been completed, which queues its slot, or when `mIsCmdCompleted` remembers an earlier
one. The invariant shows that the second never happens: the flag stays set only when
nothing is left to send. And the test case sleeps until the queue was filled for the
first time.

`QueueLatches` rests on `LatchInv` of the controller: in each channel the words that
were dispatched and not handed over (`Dispatched`: dispatcher, manager, `mAlcq`)
have different banks, which are the banks whose DL2 is busy; likewise the words
that are programmed (`Programmed`) for DL1. `MovesLatches` lists what a step may do: take a free
DL2 for the word it dispatches, hand a word from DL2 to a free DL1, or free DL1 when the
program time is over; `ControllerKeepsLatches` shows every step to be one of these or to leave
the channel's latches alone. It needs `DimmInv` for a word to be in one of these places
only, and the idle slots for a bank not to change under a word (`BankAt`) when a
command overwrites entries of the queue. `KindsInv` carries the load's kinds to the
entries that are sent. With reads the invariant fails, as a read uses DL1 only.

`SlotsSuffice`: a command has one sub-command, or `QueueDepth` commands have no more
sub-commands than there are slots. With neither, `NeverOutOfSlots` is false: the thread
may run out of slots in the middle of a command. For commands of one slot `OneSlotInv`
is enough: a command is chosen only after a completion gave a slot back. Otherwise
`RoomInv` numbers the slots in use: slot `s` is sub-command `n[s]` of the entry `e[s]`,
which is dispatched and not done, under the tag `g[s]`. No two slots have the same numbers,
and the sub-command that is sent next has numbers of its own, so a slot is left
for it (`RoomForNext` counts pairs). `e` has to be kept apart from the tags: a slot
that is freed before the others of its command may become the first slot of a
second command, and then `findQueueEntry` can take the entry of one for the other's
(`SlotReleased` lets the two change places). `TagIsFree` shows that `getFreeTags` finds
a tag.

### The multi-core bench (`CoreHostProofs`)

`BusIsExclusive`: `Spec => []OneBusMaster` for every number of cores, slots and
commands, from `ControllerAssumption` and `CoreHostAssumption`. The invariant is
`OneBusMaster` with `CoreRecords` (the locals are a record for each core).
`OneCoreMoves` states the three ways a step may treat the lock (leave it, take it when
free, give it back); `CoreStepKeeps` shows each step of `mcore_thread` to be
one of them; every other process leaves both alone.

`TagsAreKept`: `Spec => []TagsKept`, for every number of cores, slots and
sub-commands to a command. A core takes its tag and enters the list before it asks
for the bus, so cores that wait hold tags too. The list of a tag is exactly the
slots of the cores working under it; a taken tag has a slot in its list; a command
in its first sub-command has its tag reserved, and no other such command has the
same. That no two cores share a tag at all is false: `resetTags` frees it
between two sub-commands and the command goes on using it. `TagInv` adds the ranges
of the variables. `TagIsFree` counts: there are at least as many tags as
cores and each taken tag has a core of its own, so `getFreeTags`, whose result
is ignored, finds one for a core that holds none. `TagTaken` and `TagGivenBack` are the
two steps that touch the lists; the second shows that `removeSlotFromList`, which
searches all lists, finds the core's own tag.

`CoresOneHome` (`OneHome`), `CoresCountdown` (`CountdownExact`), `CoresCredits`
(`CreditsConserved`) and `CoresServe` (`ServiceSpec`) hold for every number of
sub-commands to a command, from `CoreInv`: `DimmInv`, the bus, `IdsGrow`, and for
each core `CoreFits`. A core's slot is idle unless its command was sent and its status not
read; the core polls only a status that is there; between data and command
the buffer holds the data and the number is new. The last needs `OneBusMaster`: no
other core sends in between (`OtherCoreFits`).

### The split of a fetch (`RootComplexProofs`)

`FetchWraps`: for every size of the submission queue, the two reads a fetch is
split into give the entries asked for in ring order; `SplitFits` bounds both
parts. The run `pcie_data_path` shows the same end to end for one queue.

### Only model-checked

- `ReadsReturnOwnData`: the data of the channel, for reads alone.
- The invariants of the data path: `InOnePlace`, `ReadCreditsConserved`,
  `ReadBuffersOwned`, `DataIsOwn`, `FindsItsEntry`. They hold for the loads of
  section 5 only.
- Liveness (`EveryCommandCompletes`, `AllCommandsComplete`, `EverySubCommandDone`):
  the prover does not handle fairness and `ENABLED`.

## 8. Not modelled

- Of the PCIe controller: bring-up and admin registers (straight-line register
  code), several dies, latencies and reports. The order of a command's completion
  against its read data: the two are in different models (section 5).
- Of the DIMM bench: the variants that replay a workload file
  (`testCaseFromWorkLoad`, `sendWrkldCmdsQD`, `sQThreadWorkload`,
  `mcore_threadFromWorkLoad`), which repeat the modelled threads with commands of
  different sizes, and `testCacheModelThread`.
- Of the device: storage in files, LBA to page mapping, several dies. The
  addresses `writeMemory` is called with (`CH` 604) are out of the model for this
  reason.
- `RRAMMemory/TestBench`: written for an earlier device, without ONFI operation
  codes and bank selects.
- Generators, workload readers, logging, report files, payload pools: input,
  output and storage.
- `_old`, `_backup`, `_updated`, `_vector` and the other versions of one class.
  They are the greater part of the repository's lines: the DIMM bench alone has
  six more, and there is one more of each controller and of the root complex. A
  model of them would repeat the ones here.

A submission entry with a block count of zero is excluded by an assumption (no
workload sends one) and listed as a hazard; TLP fields are taken to be wide
enough, and a doorbell is written only for new entries.
