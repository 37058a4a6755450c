# A verification of deravel-os

deravel-os is a capability-based microkernel for RISC-V written in Rust, with a
few programs and drivers around it. This directory holds TLA+ models of its
parts, the TLC configurations that check them on small instances, and proofs
checked by TLAPS.

## The system and its parts

There is one hart. Programs run in user mode and are never preempted: the timer
interrupt only disarms the timer. The kernel runs with interrupts off, from a
trap to the return to user mode, so a system call is atomic for every other
program; only devices act beside it. A panic in the kernel stops the system, and
a panic in a program makes it exit.

| Part | State | Operations | Interacts through |
|---|---|---|---|
| process table, scheduler (`kernel/src/process.rs`) | `PROCESSES` (state, queue of requests, `currently_serving`), `PROCESSES_RESERVED`, the current pid | spawn, scan for a runnable process, resume, reap, shut down | called at the end of a trap |
| system calls (`kernel/src/syscall.rs`) | that of the process table | `exit`, `yield`, `ipc_call`, `ipc_receive`, `ipc_reply`, `ipc_stream`, `alloc`, `alloc_shared`, `map_shared`, `free`, `log` | traps of programs; queues of other processes |
| capabilities (`types/src/capability`, `kernel/src/capability.rs`, `kernel-api/src/capability.rs`) | one page of certificates per actor, `HANDLERS`, allocation counters | grant, forward, re-address, validate | every page is readable by every process, and writable by its owner |
| spawner (`kernel/src/process/spawner.rs`) | none | start a program | a kernel handler, called through a capability |
| ring buffer (`types/src/ring_buffer.rs`) | two counters, the cells | push, poll | memory shared by its writer and its reader |
| virtio input, interrupts (`kernel/src/virtio/input.rs`, `plic.rs`, `interrupt.rs`) | event queue, buffers, ISR register | interrupt handler | the device; the ring to the window server |
| dispatch (`kernel-api/src/dispatch.rs`) | a program's handlers and observers | serve requests, observe rings | IPC system calls |
| heap (`kernel/src/heap`) | a buddy tree; a bump allocator for early boot | allocate, free, reserve | everything that allocates; also hands out virtual addresses |
| virtual memory (`kernel/src/page`, `virtual_memory.rs`, `shared_memory.rs`) | page tables, allocations and mappings of a process, pages loaded on demand | map, unmap, page fault | memory system calls, page faults |
| page table (`kernel/src/page/{table,entry}.rs`) | three levels of entries: invalid, a table, a leaf | map, unmap, look up | every change of an address space; the hart walks it |
| drive and display (`kernel/src/virtio/{queue,blk,gpu}.rs`) | descriptors, available and used indices, regions mapped, `cursor_updated` | read, write, map a region, load a page; draw, cursor image, cursor position, changed resolution | the device; buffers on the kernel's stack; spins inside a system call |
| network card (`kernel/src/virtio/net.rs`) | two packet queues with their buffers | `dns`, and receive and transmit of the network stack | the card; spins inside a system call |
| FAT (`filesystems/fat`) | parameter block, copies of the table and of the root directory, granted directories | read, read into shared memory, subcapability (write is not implemented) | drive capability, IPC |
| window server (`apps/src/bin/windowing.rs`) | windows, active window, cursor, shortcut state | create window, framebuffer, events, draw; keyboard, mouse | IPC, rings, spawner, display |
| terminal and shell (`apps/src/bin/{terminal,shell}.rs`) | cursor; line and file buffers | getchar, putchar; commands | the window's event ring, IPC |

What is hard here: requests are matched with waiting processes in two places
that must agree (the queue of the server, the state of the sender) while either
may die and be reaped at any point; capabilities are statements in memory that
nobody erases, so they outlive the processes they speak of; devices act between
any two accesses of an interrupt handler, and interrupt handlers between any two
accesses of a program; drivers lead devices to buffers that live only as long as
a call; capabilities are given away before their handlers are installed; the file
system follows what it finds on a volume; the counters and tables have limits. `PROJECT.json` lists
these hazards at the lines where they bite.

What makes the parts correct:

* IPC: a call is delivered once, answered by the process that took it, and its
  caller never hangs on a dead server; the lookups the kernel unwraps succeed.
* Scheduler: everything that can run gets to run.
* Capabilities: validation ends; authority is neither lost nor gained except by
  being given; a dead process leaves nothing for a later one to inherit.
* Streams: events arrive once each, in order, and none is forgotten.
* Memory: nothing is handed out twice, everything freed is usable again, and a
  page leads where it was mapped to, whatever else is mapped and unmapped.
* Drivers: a device never reaches a buffer that is gone, answers are those of the
  request they are returned for, packets come in order, and calls return.
* Programs: calls find their handler and their window, closed windows get no
  events and do not come back, keys are read once and in order, files are read as
  they were stored and only below the directory a capability is for.

## Modules

| Module | What it is |
|---|---|
| `Capability` | certificates and `validate` |
| `Kernel` | process table, scheduler, system calls, capabilities of the kernel and of programs, spawner, page faults |
| `Rpc` | what `Kernel` promises callers and servers |
| `KernelProofs` | theorems about `Kernel`, and that it implements `Rpc` |
| `RingBuffer` | the ring, with `poll` access by access |
| `VirtioInput` | device, interrupt handler and reader, on top of `RingBuffer` |
| `Fifo` | what `VirtioInput` promises a reader |
| `Buddy` | the buddy allocator of the kernel's memory and of each process's addresses |
| `AddressSpace` | allocations, shared memory, file mappings, page faults, cached translations |
| `PageTable` | the levels of the page table, with superpages |
| `PageMap` | what `PageTable` promises: a partial function from pages to frames |
| `Drivers` | virtio queues of drive and display, their drivers and devices |
| `Network` | packet queues, the poll loop of `dns`, card and network |
| `Desktop` | window server on the dispatch library, user, shells and clients |
| `Console` | terminal and shell |
| `Fat` | the FAT file system |
| `CommonTheorems` | lemmas about division, indices modulo a length, sequences read off a ring, least elements, induction and recursion over numbers and over what numbers rank |
| `MemoryProofs` | theorems about `Buddy` and `PageTable`, and that the latter implements `PageMap` |
| `AddressSpaceProofs`, `DriversProofs`, `DesktopProofs` | theorems about the modules they are named after |
| `VirtioProofs` | theorems about `VirtioInput` and `Network` |
| `ProgramProofs` | theorems about `Console` and `Fat` |
| `MCKernel`, `MCVirtioInput`, `MCBuddy`, `MCAddressSpace`, `MCPageTable`, `MCDrivers`, `MCNetwork`, `MCDesktop`, `MCConsole`, `MCFat` | the constants of the runs; `MCFat` also formats the volumes |

The modules meet where the parts do: `AddressSpace` takes the heap for what
`Buddy` and the page table for what `PageTable` is checked for; `VirtioInput` is
on top of `RingBuffer`; `Desktop` and `Console` take calls for what `Kernel`
promises (`Rpc`: in order, answered once) and rings for what `Fifo` promises;
`Fat` takes a read of the drive for what `Drivers` promises.

Definitions have the names of the functions they model, and `PROJECT.json`
("map") names the lines. Next to some definitions stands a second one marked as
a mutant: the definition with a plausible mistake. Replacing one by the other has
to violate the property `PROJECT.json` pairs it with, which shows that the
property says something about that line.

### Kernel

`state`, `from`, `messages`, `serving` are the fields of the processes in
`PROCESSES`, with `"None"` for an empty slot, and `reserved` is
`PROCESSES_RESERVED`. `current` is the pid in `UserStoredCtx`. `mode` is where
the hart is: `"user"`, `"scan"` (in `find_runnable_process`, iteration
`scan_offset`), `"shutdown"`, or the panic it stopped at. `certs` is
`CAPABILITY_PAGES`, `allocated` joins the kernel's `ALLOCATED_COUNT` and each
program's `CAPABILITIES_ALLOCATED`, and `handlers` is `HANDLERS` reduced to the
kind of handler.

Every system call is one action with all its early returns. Calls to kernel
handlers run inside the action. A kill sets the state and enters the scheduler,
as the `kill!` macro does. Reaping empties the slot and drops the queue. Each
panic has a mode of its own, so that a property can say whether it is reachable.
The scan is one action per slot, because reaping a slot changes what a later
iteration sees.

Data is abstracted: buffers, results and method arguments are gone; whether a
result fits the buffer, an allocation succeeds or bytes parse is a free choice.
A program may call any capability that has been issued, whether or not it is
meant for it; `validate` decides. The number of the method is the program's too, as
in the code: a plain call may carry the number of a stream (`Method` keeps of a number
whether it is a stream's), and a kernel handler panics on a number or on arguments
it does not know. A capability that does not validate stops the kernel: the error is
written to the log, its `Display` walks the certificates in the user's pages, and by
then the kernel may no longer read those (`reject`). A program grants to the
sender of the request it serves, or to the kernel for an argument of a spawn, and
forwards what it likes to whomever it likes (`forward` of `kernel-api` takes any
recipient); `Forwards` says which of these a run tries.

`Init` is what `main` leaves: the file system as process 1, the window server as
process 2 with the file system's export, and the kernel's capabilities.

### VirtioInput

Three actors: the device (external; fills a buffer, counts it as used, raises the
interrupt), the handler (clear, load, one push per iteration, publish) and the
reader, which only runs while the handler does not. The index is kept modulo
`INDEX_SIZE` for 2^16, and the checked additions panic.

### Buddy

`max_available`, `allocated` and `children` are the fields of the tree's nodes,
numbered in heap order; `node_size` and `offset` are what a node is given on the way
down. `alloc` and `dealloc` go down to a node (`alloc_search`, `dealloc_search`),
store, and update everything above it (`refreshed`); `reserve_range` does so for the
nodes that make up the range. Every assertion leads to `panicked`. `live` is what callers
hold, and `dealloc` is called with one of these, as `Process::dealloc` and Rust's
allocator interface do. Reservations come first (`booting`), and their ranges are
taken to be disjoint.

### AddressSpace

`heap`, `page_table`, `allocated` and `mappings` are fields of `Process`,
`backed_pages` of `VirtualMemoryMapping`; `shared` are the frames that leaked
`SharedMemory` handlers keep. A frame is free when none of them refers to it: that
is what `Arc` and `Box` do. `heap` is the promise `Buddy` is checked for: any pages
not handed out. `tlb` holds translations the hart has used since the last
`sfence_vma_all`; it is filled at any time (external). A process is created with
its stack, without a fence, and its slot is emptied some time after it finished.

### PageTable

`entries` gives each slot (a level and a position) its entry; slots of tables that
do not exist are invalid. `impl` is the walk `map_impl` and `unmap_impl` share:
cut the range (`align_by`), use leaves where both addresses are aligned
(`LeavesFit`), go a level down elsewhere (`Below`); `LeavesOf` are the leaves it
comes to. `map` asserts and stores; `unmap` asserts, clears, and goes over the
tables on the way up (`Swept`). `translate` is `is_mapped_impl` and the hart's walk
(`lookup`), which refuses a superpage on frames that are not aligned. The callers (`MapFree`,
`UnmapLive`) map what is free and unmap what they mapped, as `Process` does.

### Drivers

`call` is the request the kernel is in, as the list of commands it consists of;
`Submit` is `send_and_recv` up to the notification, `Finish` its end and what
`command` or `result_from_status` does with the answer. `memory` are the buffers on
the stack, which exist from `Submit` to `Finish` only. `Take` and `Serve` are the
device (external): it reads a chain, and later reads and writes the buffers the
chain leads to. What a drive and a display do with a command is taken from how the
drivers use them. A write of data that is no sector panics (`write`). Panics are
values of `panicked`.

### Network

`rx_*` and `tx_*` are the two queues; a packet carries the number under which it
was put into its queue, which the properties compare. The network stack is
external: it asks for the router's address, then for the name, answers pings, and
never repeats itself, because `dns` gives it the time 0 at every poll. Packets can
be lost on the wire or dropped by a card without free buffers.

### Desktop

`pc` is the part of `Dispatch::run` the window server is in; a call and an event
are one action each, since the server does not wait in between. `handlers`,
`allocated` and `new_handlers` are those of the dispatch library; installing
happens where `run_call` and `run_observables` do it. Seven certificates are taken
for a terminal and its shell. Of a window's ring the number of events is kept.
Pixels are left out, but not the bounds of the slices that are copied and filled.
`stopped` says why the server ended: shutdown, a call without a handler, no
certificate left, no memory for a framebuffer, a slice out of bounds, a full ring.
A client may go on drawing when its window is closed, as in the code
(`windowing.rs:104` does not ask): `ClosedWindowsQuiet` is about events and about which
window is active only.

### Console

`out` is what the shell has still to print, a character at a time; `buf` what it
has read. Events come one at a time (`PushKey`, `PushSyn`), as both producers publish
them, and terminal and shell run between any two. The window server gives each event
to the window that is active then, so this window may get only the key of a sequence
(`SynElsewhere`) or only its end (`StraySyn`), and each push may be the one that finds
the ring full. `getchar` takes an event and what follows it up to the next end mark, be
it of the same sequence or not: if it is called between a key and its end, it starts at
that end the next time, and throws away the key behind it, which is what the remark at
`terminal.rs:80` leaves open. `torn` are the sequences of which the window got one half,
or whose key was taken before their end came. The two buffers are checked at different
places, as in the code. `typed` and `read` are histories for the property.

### Fat

`pc` is the place in the request: `open` (a directory), `scan` (its entries), `read`
(sectors along a chain), `done`. Each step is one turn of a loop of the code. Data
is counted in records of the size of an entry, names are sequences of codes, the
table is bytes and is decoded as the code does. `reason` says why the program, or with
`"drive"` the kernel, ended. `certificates` counts the places of the program's page that
are used up, and `kept` the memory of copies shared with clients, which nobody frees:
`subcapability` and `read_large` are the operations that use them (`read` answers with a
copy in the reply, and panics when that is too small). Parts of the volume are mapped in
whole pages only (`WholePages`): a sound volume may fail to be mounted for that.

A volume is the drive together with what was stored on it: for each file the paths it is
found by, its chain of clusters and its data. The properties compare with that; the file
system does not look at it. `Sound` says, in the terms of the format, when the two
agree, and the properties about files are of sound volumes: the parameter block is
valid; the table, read as an array of hexadecimal digits (`Link`), leads from each
cluster of a file to the next and from the last to an end mark; the data of a file is
the beginning of the records in its clusters; an entry that has one of the names asked
for says where the file of that name is, and every file has one in its parent that can
be reached (`Passable`): no entry before it ends the directory or is half a long name.
Names are read off a directory by the operators of the program itself (`NamedAt`), so
that a wrong decoding of long names would not make a volume unsound; `MCFat` therefore
holds a formatter that writes names, tables and clusters independently, and TLC
evaluates `FatAssumption`, that the volumes it calls sound are so by `Sound`, and the
damaged ones are not.

## Runs

The runs of `Kernel` use small instances of the real structure: `PROCESS_COUNT` = 4
(the kernel's slot, the two boot processes and one spawned program; a second
spawn meets the limit) and two certificates per page, so that pages, `HANDLERS`
and the process table all run full.

| Run | Configuration | Checks |
|---|---|---|
| `ipc` | `KernelIpc.cfg` | types; requests and waiting senders match one to one; replies find their callers; `RequestsDispatchable`: a queued request names a capability of its server's own, and who waits for a stream has asked for one; pids used once; `Kernel` implements `Rpc` |
| `capabilities` | `KernelCapabilities.cfg` | validation ends; authority persists; none is self-made; ready processes run; calls end, those of dead servers too |
| `input` | `VirtioInput.cfg` | no lost interrupt (`UnseenEventsSignalled`); the stream implements `Fifo`; events arrive |
| `buddy` | `Buddy.cfg` | blocks separate and aligned; assertions hold; `AccountsExact`: requests fail only when nothing fits, and statistics are exact |
| `memory` | `AddressSpace.cfg` | isolation; `PagesInPlace`: allocations where they were put, file pages in order; `TranslationsAgree`: what a cached translation may still lead to |
| `page_table` | `PageTable.cfg` | `TablesExact`: no assertion fails, exactly the tables that are needed; `PageTable` implements `PageMap` |
| `drivers` | `Drivers.cfg` | no device has a buffer that is gone; drive and display do what was asked and no command is refused; calls return |
| `network` | `Network.cfg` | packets received in order; packets sent intact; `dns` returns |
| `desktop` | `Desktop.cfg` | `CallsHandled`: calls find handlers and their own windows; drawing in bounds; closed windows get no events and do not become active; calls answered |
| `console` | `Console.cfg` | keys once and in order, and lost only behind torn sequences; `InBounds`: buffers and cursor within their limits; keys read |
| `fat` | `Fat.cfg` | reads exact; `FilesFound`: all that ends the program on a sound volume; requests confined; requests end |

Each module has a type invariant `TypeOK` (with the module's name before it where
modules are proved about together). In `Kernel` it is checked and proved; elsewhere it
is a conjunct of one of the invariants above, the one that depends most on the ranges it
states.

Three processes give every pattern of two parties and a third that interferes:
two callers of one server, a chain of calls, a cycle of calls, a caller of a dead
server, a process that dies while it serves. The ipc run leaves room for one
piece of shared memory, so that streams are answered (583,097 states). The capabilities
run lets programs forward each other's objects: to the kernel, as arguments of a spawn,
to a third program, and back to where they came from (136,064 states). The input run has a ring of
three cells for two buffers and an index with ten values, so that the ring
wraps and fills and the index reaches its end. The buddy run has a heap of 11 units
in a tree for 16, requests of four sizes of which two are not powers of two, and
ranges to reserve that begin or end inside nodes or beside each other. The memory run has two
processes, four frames, three heap pages and a file of two pages, so that memory
runs out, addresses and frames are used again, and both processes load the same
page; processes and frames are interchangeable (symmetry; 805,537 states). Three pages
are one too few for "leaf already mapped", a hazard of the code that needs two mappings of
a file, a page loaded through each, and a third mapping: with `HEAP_PAGES = 4` TLC reaches
it (the larger instance takes too long to be kept as a run). The run may stop, when
everybody has exited or the kernel has panicked.

`TranslationsAgree` says exactly how far the missing fence of `free` reaches. Of the
process that runs, a cached translation is that of the page table, or that of a page it
has freed since the last fence. The frame of such a page may by then be in other hands,
and the process can still read and write it. What holds is that it is not the private
memory of any other process that has run: whoever gets it through a system call of its
own does so after a switch, which fences. What does not hold, and the property does not
claim, is the same for a process that is only being created: `create_process` takes
frames without a fence, and the running process may keep a writable translation to
them until it calls the kernel for something that fences.

The page table has three levels of two entries over eight pages and eight frames,
so that every alignment occurs at every level, and two mappings at a time: enough
for one to share tables with another, be next to it, or want a superpage where a
table was. The drivers' ring indices have ten values and the drive four sectors,
two to a page, so that indices are used up and pages lie at the drive's end; a
machine has a drive or a display, since the two share nothing but the kernel that
serves one call at a time. The network queues have three buffers and sixteen
values of the index, enough to go round five times and reach the overflow.
The desktop has two clients, windows higher than the display and partly beside it,
twenty certificates (room for two terminals with their windows, and not for a
third), rings of two events and five inputs, so that slots and rings run out and
windows are closed while others are used; that input ends is the bound that keeps
`observe()` from starving calls, which nothing in the code rules out. The console has two
lines of three characters, buffers of two and three, four sequences and a ring of six
events, so that lines wrap, scroll and overflow their buffers, the ring runs full between
a key and its end, and halves of sequences follow each other in any order (652,026
states). The volumes of the fat run have up to three
layouts for each of the three types (one or two drive sectors to a sector, one or two
sectors to a cluster, clusters in order and out of order), a nested directory, long
and short names, an empty file and a deleted one; a further sound volume has one table more
than fills whole pages; nine damaged volumes have a bad
cluster, a chain that is too short, a cycle, a first cluster out of range, a
deleted long name, a long name that is no UTF-16, a wrong parameter block, and fewer
sectors than their tables or their root directory take. The thresholds between the types
are scaled to volumes of some twenty clusters, a page to two sectors of the drive, a reply
to four records, long names to five characters, the certificates to two and the memory to
twenty records, so that each of them is used up by some requests and suffices for others
(129,962 states). These runs may stop: the kernel or
the program may have panicked, or the user stopped typing.

One more run shows a property violated: `stale_capability`
(`KernelStaleCapability.cfg`). A comment at `syscall.rs:52` says that validation
catches requests to processes that do not exist; but a certificate outlives its
process, and the "impossible" branch is taken (`ipc_stream` unwraps the same
lookup at `syscall.rs:173`, and the kernel panics).

Some panics are plainly written in the code; they are outcomes of the models'
actions, reached in the runs, and no property excludes them:

| Where | What leads there | In the model |
|---|---|---|
| `syscall.rs:51`, `sync.rs:81` | a process calls its own object through a capability handed back to it | `Kernel`, mode "own slot locked" |
| `process.rs:188`, `process_id.rs:11` | the pid after the last slot is admitted | `Kernel`, "process table full" |
| `syscall.rs:46`, `:166`, `:238` | a capability that does not validate: writing the error out reads user pages without the permission to | `Kernel`, "unexpected kernel trap" |
| `kernel/build.rs:89`, `:108`, `spawner.rs:22` | a call to a kernel object with a method or arguments it does not know | `Kernel`, "unexpected request" |
| `raw.rs:127`, `syscall.rs:145` | the answer to a request for a stream holds an address that is no capability's, or a size that overflows | `Kernel`, "unexpected stream reply" |
| `kernel/src/process.rs:351` | a stream is mapped in a heap that is full | `Kernel`, "stream does not fit the heap" |
| `main.rs:169` | a forbidden access: `kill!` locks a process that is locked | `Kernel`, "page fault on locked process" |
| `virtual_memory.rs:69`, `page/table.rs:146` | a file page loaded through two mappings is mapped twice by the third | `AddressSpace`, "leaf already mapped" (with four heap pages) |
| `blk.rs:117`, `blk.rs:134` | a sector that does not exist; a region that is not whole pages | `Drivers`, "drive", "size"; `Fat`, "drive", "assert" |
| `blk.rs:142` | data to write that is no sector | `Drivers`, "size" |
| `gpu.rs:133` | the display is switched off while the system runs | `Drivers`, "disabled" |
| `queue.rs:133`, `net.rs:159` | the end of the ring indices | `Drivers`, `Network`, "index" |
| `net.rs:140` | a name that does not exist | `Network`, "dns" |
| `ring_buffer.rs:63` | input for a window whose program does not read | `Desktop`, stopped "ring" |
| `kernel-api/capability.rs:39` | windows and terminals use up the certificates | `Desktop`, "slots" |
| `framebuffer.rs:12` | no memory for a window | `Desktop`, "memory" |
| `kernel-api/build.rs:188` | `read` of a file that does not fit in the buffer for a reply | `Fat`, "reply" |
| `kernel-api/capability.rs:39` | subcapabilities and large reads use up the certificates of the file system | `Fat`, "certificates" |
| `directory.rs:162`, `:163` | a long name that is no UTF-16, or too long | `Fat`, "assert" |
| `bpb.rs:88`, `:89`, `fat/main.rs:211` | fewer sectors than the parameter block's tables take | `Fat`, "assert", "overflow" |
| `fat/main.rs:76`, `:132`, `:166`, `:250`, `directory.rs:75`, `:97` | a missing file, an unknown table entry, an empty file, a write, a full directory, a deleted long name | `Fat`, reasons |

### Fairness

The kernel never stops by itself and a program that has the hart goes on
executing: weak fairness of the scheduler and of system calls. This alone gives
nothing about servers, so `CallsEnd` adds that a program, when it gets to run
again and again, receives what is queued and answers what it took (`Serves`,
strong fairness): that is what `Dispatch::run_calls` does, which the programs of
the repository that serve use as their main loop. For the input device, weak
fairness of the device finishing what it began, of the handler, and of the
reader, which polls in `Dispatch::run`; nothing is assumed about new events.
For the drivers, weak fairness of the kernel inside a call, which has the hart to
itself, and of the device taking and serving what is in its queue. For the network,
of the poll loop, of the card, and of the router and name server answering what
they get; nothing is assumed about losses, and `DnsReturns` excepts them. For the
window server, the console and the file system, weak fairness of the program
itself, which the scheduler gives it (`ReadyProcessesRun`); clients and users owe
nothing.

## Proofs

The theorems hold for every value of the constants the assumptions of the modules
admit: any number of processes, frames, pages, buffers and sectors, any index width,
font and window. Each rests on an inductive invariant, because the property itself
says too little about the steps in between; TLC checked each of these invariants on
the instance of the run before it was proved. Where the proofs had to know more, the
invariants say so: they are at the head of each module, in named parts.

| Theorem | Module | States |
|---|---|---|
| `TypeCorrect` | `KernelProofs` | `Spec => []TypeOK` |
| `RequestsExact` | `KernelProofs` | `Spec => []ExactlyOneRequest` |
| `RepliesFindCallers` | `KernelProofs` | `Spec => []ReplyFindsCaller` |
| `PidsFresh` | `KernelProofs` | `Spec => PidsNeverReused` |
| `KernelImplementsRpc` | `KernelProofs` | `Spec => ImplementsRpc` |
| `ValidationsEnd` | `KernelProofs` | `Spec => []ValidationEnds` |
| `AuthorityKept`, `NoAuthorityGained` | `KernelProofs` | `Spec => AuthorityPersists`, `Spec => NoSelfAuthority` |
| `RequestsDispatched` | `KernelProofs` | `Spec => []RequestsDispatchable` |
| `NoInterruptLost` | `VirtioProofs` | `Spec => []UnseenEventsSignalled` |
| `EventsAreFifo` | `VirtioProofs` | `Spec => ImplementsFifo` |
| `PacketsReceivedInOrder`, `PacketsSentIntact` | `VirtioProofs` | `NetSpec => []ReceivedInOrder`, `NetSpec => []SentIntact` |
| `BlocksStaySeparate`, `NoAssertionFails` | `MemoryProofs` | `Spec => []BlocksSeparate`, `Spec => []AssertionsHold` |
| `AccountsStayExact` | `MemoryProofs` | `Spec => []AccountsExact`; `RequestsFailOnlyWhenFull` is its half about what can still be had |
| `TablesStayExact`, `TablesRefineMap` | `MemoryProofs` | `TableSpec => []TablesExact`, `TableSpec => ImplementsPageMap` |
| `MemoryIsIsolated`, `PagesStayInPlace`, `CachedTranslationsAgree` | `AddressSpaceProofs` | `Spec => []MemoryIsolated`, `[]PagesInPlace`, `[]TranslationsAgree` |
| `BuffersStayLive`, `DriveIsExact`, `DisplayIsExact` | `DriversProofs` | `Spec => []BuffersLive`, `[]DriveExact`, `[]DisplayExact` |
| `BuffersAndWindowHold`, `CharactersInOrder` | `ProgramProofs` | `Spec => []InBounds`, `[]KeysInOrder` |
| `ReadsAreExact`, `FilesAreFound`, `RequestsStayConfined` | `ProgramProofs` | `FatSpec => []ReadsExact`, `[]FilesFound`, `[]Confined` |
| `CallsAreHandled`, `DrawingInBounds`, `ClosedStayQuiet` | `DesktopProofs` | `Spec => []CallsHandled`, `[]DrawsInBounds`, `Spec => ClosedWindowsQuiet` |

**Kernel** (`PageAssumption`, `BootAssumption`). The inductive invariant `IpcInv` is
the conjunction of `TypeOK`, `Slots` (the shape of the table: slot 0 empty, processes
only below `reserved`, empty slots with empty queues, the running process Runnable)
and `Servers` (the matching of requests and senders). `ReplyFindsCaller` is not
inductive alone: that a served caller waits for its server has to hold while the
request is still queued, that in turn needs that no sender is queued twice or queued
while served, and both need that slots above `reserved` are empty, so that a new
process starts with no request addressed to or from it. The other direction, that a
waiting process has a request at its live server, is what keeps the scheduler from
finishing a caller whose request is still to be answered. There is one lemma per
effect a step can have on the table (kill, send, take, answer, resume, reap, spawn,
certificate store, halt), and the step lemma matches every disjunct of every action
with one of them. The refinement follows the same cases: a kill is `Stop`, a send
`Send`, taking a request `Accept`, an answer `Answer`, the resumption of an answered
caller `Return`, and everything else a stutter; `IpcInv` supplies the guards.

**Capabilities** (same assumptions). `validate` is a recursive function of the steps
left, and what it returns is proved by induction on that number. The induction
theorems of the library take an operator, which the provers at hand cannot
instantiate; `CommonTheorems` therefore proves from the least element of a set of
numbers that a set which has 0 and with each number the next is all of them
(`SetInduction`), and from this that a recursion has a solution (`Recursion`), so
that the defining equation of the loop holds (`LoopEquation`). Then, for any
certificates: a validation that succeeds ends in a grant to a process
(`ValidGrant`), it depends only on the certificates it can reach (`ValidSame`),
re-addressing some of them to a process that wrote none of them can only end it
(`ValidReaddressed`), and it comes to an end when the certificates can be ranked
(`ValidEnds`). On the side of the steps, `StepEffect` says that a step leaves the
certificates alone or issues one, re-addressing others at most to the pid it hands
out. The invariants this keeps: `CertsInv` (forwards are of certificates that were
there before, the kernel only grants, and only what has a handler, and pids not yet
reserved have written nothing), `RankInv` (there are ranks that fall along every
forward and stay below the number of certificates issued, which is not above the
number of steps `validate` is given: `CertificatesCounted`), and `MessagesInv` (what
`RequestsDispatchable` says of queues). That a process which waits for a stream has a
stream's number in its request, whatever numbers plain calls carry, needs `IpcInv`: a
sender that waits before and after a step, at the same server, waits for the same thing,
and it has no second request in the queue.

**VirtioInput.** `RingInv`: the reader is behind the writer by at most the length of
the ring, and what a poll has read so far is still there. `DeviceInv`: used,
unseen and available indices in their order, with what the handler holds of them
between its loads. `SignalInv`: what was used after the handler looked is announced.
For the refinement, the abstract queue is what the ring holds followed by the
buffers not seen yet; the lemmas show how each step changes that sequence.

**Network** (`NetworkAssumption`). The receive queue from the place the stack is at up to the used index
holds packets with the numbers of their places, and the transmit queue from the used
to the available index likewise; neither spans more than the queue, so a write to
slot `k % PACKETS` meets no live packet.

**Buddy** (`BuddyAssumption`). The nodes of the tree are the numbers below twice its
size, and every function on the tree is a recursion along them: sizes, offsets and
ancestors towards the root, the searches and the values away from it. Each
has its equation by one lemma: a definition whose value at a node depends only on nodes
of lower rank has a solution (`FixedPoint`). What follows is geometry: of two nodes
one is above the other or they lie beside each other (`NestedOrBeside`), a node is
aligned to its size, and a block that begins at a node and is larger than its half rounds
up to it. `BuddyInv` says what gives nothing (`Blocked`): the nodes handed out
(`Taken`), those that make up the reserved ranges (`Withheld`), and those beyond the
end (`Outside`). `ValuesInv` is the heart of it: the value of every other node follows
from its halves, whether it has children or not. From it, a value is the size of a node
exactly when nothing below it is blocked (`FullDown`, `FullUp`), which is what the
assertion of `alloc` needs of the node the search ends at (`AllocFinds`) and
`FailsOnlyWhenFull` needs of the root; and updating the nodes above a changed one is
enough to restore it everywhere (`RefreshedExact`). `TakenInv`: a node handed out has
children all the way down to it and is neither above nor below another blocked node, so
`dealloc` comes back to it (`DeallocFinds`) and blocks lie beside each other.
`ReservedInv` keeps the ranges disjoint, and the nodes of a range are exactly what lies
in it (`WholeCovers`).

The statistics need one more invariant, `ChildrenInv`: nodes that a reserved range or
the end cuts through have children, and those withheld or outside have none, since
`stats` counts a node without children as allocated or free as a whole
(`ChildrenInductive`). `StatsExact` then follows by induction from the leaves
(`CountInv`): in every node with nothing blocked above it, what `stats` counts as free,
what reserved ranges have in common with it and what blocks with their roundings have in
common with it add up to its size (`Accounted`). The reference is a sum over a set: its
value does not depend on the order in which the set is gone through (`AnyOrder`), and it
is additive (`TotalSum`).

**PageTable** (`TableAssumption`). The blocks of a level are the ranges one entry covers
(`Same`, `Base`), and the heart of the proof is that the leaves of a mapping, whatever the
cuts were, are its largest blocks: those that lie in it and are led to aligned frames
(`FitsIn`) while no larger one around them does (`Ends`). This is `LeavesOfAre`, by
induction over the level: `Good` says of a walk that it covers what the mapping has in
one block of the level above and that nothing there fits into a leaf of a level above;
the walks below a good one are good (`GoodPrefix`, `GoodMiddle`, `GoodSuffix`), its own
leaves are the blocks of its level that fit (`OwnLeavesAre`), and every other page is in
a walk below (`Covered`). So `unmap` finds the leaves of `map` again, and an entry is on
the way to a leaf of a mapping when the block has a page of it and no block from there
up fits (`Through`). `TableInv` says what each entry is in these terms (`ExactFor`) and
that mappings share no page; then a leaf of one is no entry that another needs
(`Conflict`), which is what the assertions check. For unmapping, induction over the level
gives the entries once the tables up to a level have been gone over (`ReclaimedAre`): an
indirect one goes exactly when no other mapping is left below it (`EmptyTable`). The
refinement follows from what a lookup finds (`Translates`), by induction along the walk.

**AddressSpace** (`SpaceAssumption`). `SpaceInv` adds to the three properties that a
process's mappings lie on pages its heap knows and not on each other
(`MappingsApart`), that every mapped page leads to a frame allocated for this very
page, to shared memory or to a file (`FramesOwned`), that no frame is allocated by
two processes (`BackingsApart`), and that processes to be created have nothing mapped
(`Lives`). Isolation alone would not survive a free or a page fault: one needs to know
whose frame it was, the other that the page it maps is not in another's mapping.

**Drivers** (`DriversAssumption`, `NoneAssumption`). `QueuesInv`: a queue is empty, or
one request ahead and that is the one the kernel waits for. `CallInv` lists the
calls with the commands they consist of; `MemoryInv` says that until a command is
carried out its buffers and its chain are in place, so the device finds the layout the
driver filled in (`ChainFound`); `DriveInv`, `SetUpInv`, `ScreenInv` and `CursorInv`
say what has been achieved after so many commands of a call. That the cursor has the
image sent last needs to follow it through the three calls it takes part in: sent,
marked in `cursor_updated`, and shown by the next update.

**Console** (`ConsoleAssumption`). The bounds of the buffers hold where the shell checks
them, and the cursor's by arithmetic (`CursorStays`). `KeysInOrder` follows from
`HistoryInv`. `QueueInv` says how events that are neighbours in the ring fit together: the
numbers rise, a key is behind the next lower number, and two halves side by side, or an end
in front, are of torn sequences. `LastInv` says the same of the last event and the one to
come. `GivenInv` puts what was read before what waits, and `TypedInv` says where each key
typed is: read, waiting, or right behind a torn sequence. A push keeps this because of
`LastInv` (`PushHistory`, `WindowServerHistory`). For `getchar` (`GetcharHistory`): what it
takes with the first event has no end mark before its last, so if it holds a second event
that is a key, the one before it is a key or an end that were torn.

**Fat** (`FatAssumption`). The theorems are about all volumes that a drive can hold
(`Readable`: bytes in the table, sectors of one size, an entry's cluster and size are
numbers), of any size and layout, and any paths. `Shape` holds on every one of them,
damaged or not: what is in the copies is what is on the drive, what has been read fits in
memory beside what is kept (`SpentOK`), and a walk goes on in the volume (`WalkOK`): its
next cluster is one of the volume's, and the one being read may be none of them only while
it is the first, which the code takes from an entry as it is (`main.rs:100`, `:119`).
`SoundInv` says what the program has achieved
on a sound one when it is at a label, as an invariant of each loop: with the rest of the
path still to follow, it is at the directory the beginning of the path leads to
(`Headed`, through `Stands`), and if the program has ended, for one of the reasons
`FilesFound` lists (`Ended`, `Exhausted`); scanning, what is left of the entries begins at an entry
and not within a long name, and the entry looked for is still ahead, if there is one
(`Scanned`); reading, the cluster is some place of the file's chain and the data so far
is the beginning of its records (`Walked`); and when the reading is done it has all that
is wanted (`ReadAll`). What the table is decoded to equals the number its digits make,
also for the entries of twelve bits that lie across bytes (`LinkIs`), so a walk meets
the chain's clusters in their order (`ChainFollowed`); the place of a record in a file
gives its cluster, sector and place there by division (`Positions`), so a sector adds
the records that come next (`ContentsExtended`); passing an entry or a set of long
entries leaves what was ahead still ahead (`ShortPassed`, `LongPassed`). Sets of long
entries do not overlap: but for the first, none of the entries of a set begins one
(`SetOfLongs`). A path that names nothing leads to an entry without clusters or to none,
and ends the program.

**Desktop** (`DesktopAssumption`, `NoneAssumption`). That a call finds its handler
needs to follow a certificate from the moment it is granted: `Leads` says that it has
its handler or that one waits to be installed, and then it is the window server's own;
`ClientsInv`, `ShellsInv` and `RequestsInv` say that whatever a client, a shell or a
waiting call holds leads to the object it is meant for, and `HandlersInv` that nothing
waits while calls are answered. `WindowsInv` keeps what placing a window around the
cursor gives: its left edge is not beyond the display's right one and its right edge not
beyond the left one. This is what the slices of a row need; rows that are outside are
not copied at all. `ActiveInv`, that the active window is open, keeps events from closed
ones. The assumption on `MouseEvents`, that an absolute axis stays in the range the
device announced, is what `from_abs` relies on.

Only model-checked:

* all liveness properties (`CallsEnd`, `ReadyProcessesRun`, `EventsArrive`,
  `CallsReturn`, `DnsReturns`, `CallsAnswered`, `KeysRead`, `RequestsEnd`): fairness is
  out of the provers' reach;
* that the program's reading of names is that of the format: `Fat` is proved for the names
  as `to_short_name`, `copy_long` and `postprocess_long_name` read them, and the run
  checks these against the formatter of `MCFat`.

Every safety invariant and action property that a run checks, and every refinement, is
a theorem.

## Not modelled

Boot and device discovery, register access, ELF loading, logging, the interface
compiler, user pointers, pixels, glyphs and the parser of images: no state that
interleaves with anything, or pure data layout. The access rights in the page
table. The inside of the network stack (a library): its polls are modelled by what
`dns` and the packet queues see of them. Programs that write their certificate
page directly, without `kernel-api`, are out of scope, and so are clients of the window
server and the file system that do not make their requests by the generated code: a method
or arguments that a server does not know end it (`kernel-api/build.rs:177`, `:209`).

Of `Fat`, sums and products of fields of the parameter block that exceed 32 bits (they
panic in the code), names asked for with other than ASCII characters, and the memory of
small allocations and of the rounding of those to blocks of the allocator. Of `Drivers`,
regions that a program cannot pay for: the models of memory are elsewhere. Of `Desktop`,
coordinates beyond 32 bits and how much memory there is: any allocation may fail.

## Plan

1. Done: all modules above; the proofs of `Kernel`, of its refinement of `Rpc`, and of
   `VirtioInput`, `Network`, `Buddy`, `PageTable` (and of its refinement of `PageMap`),
   `AddressSpace`, `Drivers`, `Console`, `Desktop` and `Fat`.
2. Open: a reference for the names of a directory that is independent of the code.
