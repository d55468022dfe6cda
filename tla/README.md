# Nyrix in TLA+

Nyrix is a small 32-bit x86 kernel in C++ and assembly. This directory models the parts of it whose
behaviour depends on order, state and boundaries - boot from the loader's tags to a heap in use, the page
allocator, paging, the heap, the interrupt path with its tasks and ring 3, the system call gate, the keyboard's line
editor, the serial loop that shares the line with it, and both terminals the line is drawn on. TLC
checks them on small instances. TLAPS proves, for every instance, the invariants of the allocator, the heap, paging, boot,
the interrupt path, the keyboard and its line shared with the serial loop, and the system call gate, and that
the heap and the line editor implement their abstract specifications.

Paths below are under `src/`, as in `src/kernel/pmm.cpp` of the repository.

## 1. The system

| component | state | operations | talks to |
|---|---|---|---|
| boot (`boot.asm`, `kernel_main`) | `mmap_addr`, `g_fb_*` | read the boot tags, initialise everything in order, then poll | all |
| page allocator (`pmm.cpp`) | `bitmap`, `total_pages`, `free_pages`, `early_alloc` | `pmm_init`, `pmm_alloc_page`, `pmm_free_page`, `pmm_set_early_alloc` | memory map; heap; `memstat` |
| heap (`kmalloc.cpp`) | `caches[]` with their free lists, headers in memory | `kmalloc_init`, `cache_grow`, `kmalloc`, `kfree` | page allocator |
| paging (`paging.cpp`) | `page_directory`, `next_pt`, tables in memory | `paging_init_full`, `paging_map_framebuffer` | memory map |
| interrupts (`idt.cpp`, `interrupts.asm`, `pit.cpp`) | the 8259s, the IDT, stacks | stubs, `irq_handler`, `fault_handler`, `IDT::init` | keyboard, tasks |
| tasks (`task.cpp`, `task_switch.asm`) | `current_task`, two contexts, `active` | `tasking_init`, `task_switch`, `switch_to_task` | timer interrupt |
| keyboard (`keyboard.cpp`) | `input_buffer`, `input_pos`, history, modifiers | `Keyboard::handle_interrupt` | interrupt path, shell, terminal |
| serial loop (`kernel.cpp:289-332`) | the same `input_buffer` and `input_pos` | one character per turn | shell, terminal |
| shell (`commands.cpp`) | none | `process_command` | page counter, user mode, reboot |
| user mode and system calls (`user.cpp`, `interrupts.asm:148`) | `kernel_esp`, `return_eip`, `syscall_*` | `switch_to_user_mode`, `user_task`, `isr_syscall` | interrupt path |
| VGA terminal, framebuffer console (`kernel.cpp:30-191`, `gfx.cpp`) | cursor, cells, pixels | put, clear, scroll, redraw | everything that prints |
| segments (`gdt.cpp`, `tss.cpp`) | constant tables | one load each | - |

What is hard about it:

- *Interrupts come early and commands run inside them.* `sti` precedes the initialisation of memory, paging and
  tasks; Enter on the keyboard runs the command in the interrupt handler, with interrupts off; `user` never
  returns from there.
- *Shared state without locks.* The polling loop and the keyboard handler edit the same line.
- *Words that are two things.* The header of a heap block is the link of the free list while the block is free;
  the line buffer keeps old text behind its NUL that later keys can bring back.
- *Memory nobody owns.* The page tables are taken from fixed addresses upwards; the page allocator does not know,
  and paging does not know what the allocator hands out.
- *A screen that is written in two ways.* Characters go through the cursor arithmetic of the terminal, redrawing
  goes around it; the graphics cursor is drawn by inverting a cell, and has to be taken back the same way.
- *Boundaries.* The walk over the memory map, the last pages of the bitmap, blocks per page, the full line, the full
  history, master and slave controller, 4 MB and 4 GB in paging, the end of a row and of the screen.

The list with lines, kinds and the properties aimed at each is `hazards` in `PROJECT.json`.

## 2. Modules

| module | models | composed with |
|---|---|---|
| `PMM` | `pmm.cpp` | - |
| `Heap` | abstract: what a caller may expect of a heap | - |
| `Kmalloc` | `kmalloc.cpp` | extends `PMM`: every page it takes or returns goes through `pmm_alloc_page` and `pmm_free_page`; refines `Heap` |
| `Paging` | `paging.cpp` | extends `PMM`, whose memory map it walks |
| `Boot` | `kernel_main` from the boot tags to the prompt, then callers of the heap | extends `Kmalloc` and `Paging` |
| `Interrupts` | `idt.cpp`, `interrupts.asm`, `task.cpp`, `task_switch.asm`, control flow of `kernel_main`, `user.cpp` and the commands | - |
| `LineEditor` | abstract: a cursor in a line and a command history | - |
| `Keyboard` | `Keyboard::handle_interrupt` | refines `LineEditor` |
| `Console` | the serial loop, interleaved with the keyboard | extends `Keyboard` |
| `VGAText` | the text terminal and redrawing, as functions on a record | - |
| `Gfx` | the framebuffer console, as functions on a record | extends `VGAText` |
| `Terminal` | typing, editing, commands on either of them | extends `Gfx` |
| `Syscall` | `isr_syscall`, `syscall_handler` | - |
| `Numbers` | facts about numbers: induction for sets, division; used by the proofs | - |
| `PMMProofs`, `InterruptsProofs`, `SyscallProofs` | theorems | extend `PMM`, `Interrupts`, `Syscall` |
| `KmallocProofs` | theorems about the heap | extends `Kmalloc` and `PMMProofs` |
| `BootProofs` | theorems about paging and the whole boot | extends `Boot` and `KmallocProofs` |
| `KeyboardProofs` | theorems about the keyboard, then about the line under both editors | extends `Console` |
| `TerminalProofs` | theorems about what is on the screen | extends `Terminal` |
| `MC*` | values for the constants | extend the module they are named after |

`PROJECT.json` maps every definition to the lines it stands for. The correspondences that are not obvious:

**PMM.** The bitmap is the set `used` of pages whose bit is 1, and `BitPages` the bits the code may touch. Addresses
are scaled: `AddrSpace` is 2^32 (the width of `size_t` too) and `Wide` 2^64; all arithmetic wraps where the code's
does, and `Align` keeps the effect of masking a 64-bit address with a 32-bit mask. `mmap` is the map as words in
memory, because the walk (`pmm.cpp:57`) leaves the grid of entries: `EntryAt` reads whatever three words lie at
`pos`. `Garbage` is what memory held before `pmm_init`. `held` is a history variable, the pages handed out; `refused`
is another, set when the last call of the allocator was a `pmm_alloc_page` that returned null: such a call changes nothing else,
so that without it no property of steps could see it. The last pages of the bitmap, which the clearing loop misses (31 of them; one, page 8, in the
instance), keep what memory held; `PagesAccountedFor` and `AllocReturnsFreshPage` speak of `ZeroedPages` and leave them out.
A client frees only what it was given, which is what the heap, the only client, does; `Kmalloc` checks that.

**Kmalloc.** `word` maps addresses to the words kmalloc wrote; a link and a header at one address are the same word,
as in memory. Size, block and cache arithmetic is the code's. `live` is a history variable. A request larger than a
page gets one page and no word about it, as in the code (`kmalloc.cpp:58-64`): `Usable` is what such a caller has of it, and the
promise of `Heap` is shown for that much.

**Paging.** Addresses are those of `PMM`. A directory has `EarlyEnd` entries and so has a table, so that `EarlyEnd` pages
are "4 MB" and `EarlyEnd` times `EarlyEnd` pages all of memory. Tables are named by the page they are in; an entry is a
page number or `Absent`. The walk aligns in 64 bits (`Aligned`, modulo `Wide`) and cuts to 32 bits where the code does
(`map_page`). One page is one step: paging is off while the RAM is mapped, but on for the framebuffer, and then each step
writes through the tables built so far.

**Boot.** A tag is its type and what the code reads of it; later tags overwrite earlier ones. The order of
`pmm_init`, `paging_init_full`, `paging_map_framebuffer` and `kmalloc_init` is the code's. After boot callers use the
heap (`UseHeap`; the repository has no caller of `kmalloc` yet, so these are the environment's) until the allocator hands out a page that is a page table, which it does not know of: what happens to the
translation then is not modelled.

**Interrupts.** A handler in progress is a record of its vector and of how far it is; `frames` is the stack of
them. `irr` and `isr` are the request and in-service registers of both chips, `obf` the keyboard controller's full
output buffer. `irq_handler` has three steps: acknowledge, body, return; what a command does to the control flow
is its choice between returning, resetting and leaving for ring 3 (`EnterUser` drops the stack it ran on and
starts `user_task` from its beginning, also when the task was running).
`switch_to_task` saves `Registers` - the thread, its frames and flag - and loads the context `LoadedFrom` names.
The trap of `int 0x80` is left out. The ring 3 task may write to port 0xE9, since the I/O map base of the
TSS is 0 and the byte of the TSS that stands for that port is 0.

**Keyboard.** One scan code is one step, since the handler runs with interrupts off (`HandlersRunAlone`). Histories and
saved lines, which are always read up to their NUL, are strings; the line buffer is an array of cells, with its old
text. Characters are model values with a shifted form. What a store past the end of the buffer destroys is not
modelled: `overrun` is set and the model stops.

**Console.** The polling loop is cut where it touches the line: `input_pos` is loaded once for test and use, as the
compiled code does, and the two stores of a character come in either order. The handler may run between any two.
`fresh` is a history variable.

**Terminal.** A screen is a record: cells, position, the cell the cursor is seen at, and in graphics the set of
inverted cells. `line` is the text left of the cursor, all that `redraw_input` gets to see; which text a key puts
there is `Keyboard`'s business, so the arrows, Home, End and Delete are one action with any text (`MoveOrReplace`).
Text memory goes on behind the last displayed row, since a redrawn line may run over it. In graphics a store below the
framebuffer or past the end of a row sets `stray` and the model stops: the store raises a page fault, whose handler never
returns. So a command after a new line that strayed does not get to clear the screen. Enter is the same on the keyboard and on the serial
port (`RunLine`). `scrolled` is a history variable.

**Syscall.** EAX is kept in the parts the code writes separately. Letters sent to the debug port pass through AL. The
handler is a C++ function: it may leave anything in EAX, ECX and EDX. `served` and `caller` are history variables.

## 3. Runs

All bounds are in the cfg and the MC module.

| run | instance | states | shows |
|---|---|---|---|
| `pmm` | 10 pages of 4 bytes, words of 4 bits, 5 maps, 3 contents of memory | 4.6 thousand | ownership of marked pages, freshness, null only from a full window, counter against bitmap |
| `kmalloc` | 7 pages of 12 bytes, 4 the kernel's, blocks of 3 and 6 bytes, requests 0, 3, 4, 11, 13 | 8.2 thousand | free lists end, no block lost or shared, sizes, refinement of `Heap` |
| `irq` | lines 0, 1 and 8, spurious 7 and 15 | 11 thousand | handlers alone, no line left in service, no key stranded; with fairness: the loop goes on, keys are read |
| `keyboard` | 4 cells, 2 letters, history of 2 | 1.5 million | every scan ends, history index valid, refinement of `LineEditor` |
| `console` | 3 cells, 1 letter with shift and caps, history of 1 | 1.3 million | the shared line stays in bounds under every interleaving |
| `boot` | 64 pages of 4 bytes, 8 to a table, 4 maps, 6 lists of tags, 2 contents of memory, 3 live blocks | 2.7 thousand | identity map, what is mapped, heap pages mapped and apart from tables, table writes reachable; with fairness: boot ends |
| `terminal` | 3 rows of 4 cells, graphics with 4 rows of 5 and a rest of a row or none, lines of 4 | 37 thousand | the line is on the screen, one graphics cursor, no stray store before the first scroll, the text above stays |
| `redraw` | as `terminal`, rows of 10 | violated | `RedrawDoesNothing` |
| `memstat` | low and high memory, a hole, clean RAM | violated | `FreeCountIsFreeMemory` |
| `current_task` | as `irq` | violated | `CurrentTaskRuns` |
| `hlt` | as `irq` | violated | `HltIsSafe` |
| `console_twice` | as `console` | violated | `EachLineRunsOnce` |

Why the bounds are enough. In `pmm` one page lies beyond `total_pages` and one is missed by the clearing loop, the
window of early allocation ends above the kernel's pages, the map has an available entry followed by
another one, a reserved first entry, an area smaller than a page and one above 2^32: every branch of the walk, on and
off the grid, and memory can be exhausted. In `kmalloc` one cache has three blocks to a page and the other one, and
three pages for two caches and large requests, up to and beyond a page, run out in every order. In `irq` the three lines are one with a task switch, one
with a device and one of the slave. Four cells in `keyboard` hold a line of three characters: insertion in the
middle, a line without room, old text longer and shorter than the new one; two history entries make it shift.
In `boot` the maps have areas that end inside a page, are shorter than one, begin below, at and above "4 MB", share a
table or lie above "4 GB"; the framebuffer shares a table with RAM, straddles two, or lies above 4 GB; the pool of tables
begins two pages below 4 MB and grows across it; two free pages of the heap below the directory run out, so
that the next one is a table. In `terminal` prompt and line together are longer than a row, and output longer
than the rows left; every mixture of keyboard, serial port and redrawing occurs, at every place of the screen.

**Violations.** Each is a disagreement between the code and its own text, quoted in `findings`:

- `memstat`: the 8 bytes added to the entry size after an available entry (`pmm.cpp:57`) make the walk miss the memory
  behind the first available entry; the counter of "Free physical memory" is wrong from boot on. By
  `CountFollowsBitmap` the error is constant afterwards.
- `current_task`: `switch_to_task` loads the context it has just saved (`task_switch.asm:32`). `current_task`
  alternates with every tick while one thread runs. It is also why the test task's zero context is harmless: with the
  intended argument, `MainKeepsPolling` and `ITypeOK` fail (their mutant).
- `hlt`: `user_task` hangs on `hlt` in ring 3, which is not allowed there; the fault handler stops the machine.
- `console_twice`: both editors enter the same line.
- `redraw`: in graphics `redraw_input` blanks the row with spaces to its end, which feeds a line, and near the bottom
  scrolls: every key moves the text up (`kernel.cpp:172`). After the first scroll the cursor goes on downwards and
  at the next row leaves the framebuffer (`gfx.cpp:316`), which is why `InFramebufferUntilScrolled` says no more.

What `boot` shows is narrower than it may look: `HeapPagesUsable` promises that the heap and the page tables are
apart *while pages below the directory last*. The `ELSE` branch is the case the code does not exclude: once they are used
up the allocator hands out the directory.

**Fairness** (`Interrupts!Fairness`). Weak fairness of `HandlerStep`: with interrupts off the processor executes the next
instruction of the handler, nothing else. Strong fairness of `MainStep` and `UserStep`: the code beneath is enabled again
and again and gets instructions between two interrupts, because a handler is shorter than a period of the timer
(`RaiseTimer` is not taken while its handler is in progress) and other devices do not raise their lines
without end. Strong fairness of `Deliver(l)` for each line: the processor takes a request while it stays
deliverable at instruction boundaries, again under the assumption that lines of higher priority leave room.
Devices are not fair: no tick or key ever has to come.

`Boot!BSpec` has weak fairness of `Initialize`: straight-line code in `kernel_main`, interrupted by handlers that
return (`MainKeepsPolling` is about the same code). Callers of the heap are not fair.

`CHECK_DEADLOCK` is off in `boot` and in `terminal` and `redraw`, where the model stops after a page table was handed
out and after a stray store. It is on in every other run: where the system really stops (reset, halt, overrun) the
module has an explicit stuttering action.

## 4. Proofs

Every invariant the runs check is proved, every action property but `TableWritesReachable`, and both refinements; what is
not is listed at the end of this section. Nothing is assumed but the
named ASSUMEs of the modules, which TLC evaluates on the instances. What each says of the system:

| assumption | why it is so |
|---|---|
| `SizesAssumption`, `PagingAssumption` | page, table and address sizes divide each other as the processor's do; the kernel ends below the directory (its linker script puts it at 1 MB, the directory is at 2 MB) |
| `InputsAssumption` | the loader's map has at least an entry, its words are 64 bits wide |
| `HeapAssumption` | the table `BLOCK_SIZES` grows and its largest block fits a page with its header |
| `KeyboardAssumption` | the buffer has at least two cells, the history one |
| `LinesAssumption` | devices use lines of the two 8259s other than the cascade |
| `BootAssumption` | no RAM and no framebuffer lies in the last page of the 64-bit addresses, where no processor has any; the clearing loop of `pmm_init` reaches the directory (on all but tiny memories); there are fewer caches than pages between kernel and directory |
| `VGAAssumption`, `GfxAssumption` | screen, cells and characters have a size |
| `TerminalAssumption` | new line and backspace are handled before a character is stored and displayed, on the keyboard (`keyboard.cpp:355`, `:415`) and on the serial port (`kernel.cpp:319`); 7 characters of prompt and 255 of line are fewer than 24 rows of 80; every command of `commands.cpp` that prints ends with `\n`; a framebuffer is higher than one row of characters |

### Page allocator

`PMMTypeCorrect`, `PMMPagesAccountedFor`, `PMMAllocReturnsFreshPage`, `PMMCountFollowsBitmap`.
The inductive invariant is `TypeOK /\ Untouched /\ PagesAccountedFor`. `PagesAccountedFor` alone speaks of the time after
boot; `Untouched` carries it there: during the walk nothing below the uncleared tail is marked, and nobody holds a
page before there is a bitmap. `AllocTakesFreePage` is the lemma the allocation steps share: what `pmm_alloc_page`
returns was clear and inside the window, and null comes from a window without a clear bit. With `PagesAccountedFor` the latter means
that the kernel and the clients have every cleared page of it (`PMMAllocReturnsFreshPage`). For the counter, `CounterSteps` turns each of the three possible changes of the bitmap
into a cardinality.

### Heap

`KSpecTypeOK`, `KSpecFreeListsEnd`, `KSpecNoBlockLost`, `KSpecBlockHoldsRequest`, `KmallocImplementsHeap`, for every table of block sizes,
page size and set of requests. None of these is inductive: they say what is on a free list by following it, and
`kfree` pushes a pointer whose page says nothing of the list it goes to. The invariant `KInv` supplies what the
code keeps only implicitly: a function `own` from the pages held to the cache each was cut up for (0 for a page given
out whole), and for each free list a ranking of its blocks in which every link goes one rank down. With it (`HeapOK`):

- `WordsOK`, `LiveOK`: the blocks are those `own` cuts, and the word of a block in use is its owner's header;
- `ListsOK`: the free list of a cache is exactly its blocks that are not in use, ranked;
- `CountsOK`: `total_pages` of a cache counts the pages it owns.

Each thing the code does to the heap is a lemma on these parts: a fresh page becomes a list, a block is popped, a page is
given out whole, a block is pushed, a page goes back. `CutApart` (blocks of one page do not overlap) and `PointerIsAddress`
(a block stays in its page) are the arithmetic. That a list so ranked is what `FreeBlocks` collects by following the
links, and that it ends, is `LinkWalks`. For the refinement, the heap's steps are
those of the allocator too (`TakePageIsAlloc`), hence its invariant holds; a new block lies in a page not held before
or among blocks not in use, apart from all that are.

### Paging and boot

`BootUsesHeap`: the whole system, projected on allocator and heap, is a behaviour of `KSpec`; all that is proved of
them is proved of the booted kernel.

`BootIdentityMapped`, framebuffers above 4 GB included. The invariant `TablesOK` adds to `IdentityMapped` that every
table in use lies below `next_pt`, without which a fresh table could be one that is in use, and speaks of the
entries of a table rather than of translations. That a page number cut to 32 bits is the one its two indices
spell is `Indices`, a fact about division that the solver does not find: `DivMod`, `Remainder` and `Distribute` lead
to it. `InputsOK` carries the types of the map and the tags to the page loops. The allocator's and the heap's steps keep
the tables because the model lets callers go on only while no table is in their hands.

`BootPagingTypeOK`. The bound on `next_pt` is the point: the code takes tables from the pool without one. `PoolOK` counts:
`next_pt` has moved by one for each entry of the directory filled from the pool, and an entry is filled
once. `LowIdentity` (the first 4 MB stay mapped to themselves) is needed because the first entry is not from the pool.

`BootRamAndFramebufferMapped`: once paging is on, what is mapped is the RAM and the first 4 MB, and later the framebuffer, no page
more or less. `MappingInv` says it of every step in between: what is mapped is what the entries in front of the cursor
contribute (`Walked`), the part of the area at the cursor already done, and the part of the framebuffer. The work is in the rounding of
`paging.cpp`: `PagesWithin` and `RamRangePages` show that aligning an area's start up and its length down, in 64 bits and
with the cut at 4 MB, yields the interval of whole pages in it, and `ShownPages` that the framebuffer's
rounding yields every page it touches.

`BootHeapPagesUsable`: `FirstFit` says that the heap lies between the kernel and the directory, or that all pages there are in
use; it holds because the allocator always returns the lowest clear page, and because callers are only modelled until they are handed a
table. `HeapLast` keeps the
heap after paging, so that its pages are translated by finished tables.

### Interrupts

`IrqHandlersRunAlone`, `IrqNoLineLeftInService`, `IrqKeyNotStranded` and `IrqTypeOK`, for every set of lines. The
invariant `OneHandler` says: either no handler is in progress and nothing is in service, or exactly one is, with
interrupts off, and only before its acknowledgement is anything in service - its own line, and for the slave the
cascade. That is stronger than both properties, and needed: the end of interrupt names no line, it clears the
highest one in service, so it clears the right one only if no other can be there (`AcknowledgeClears`). `Basics` keeps the
contexts a function on the tasks, so that what the switch loads is what it saved.
`IrqKeyNotStranded` adds `KeyInv`: the output buffer is empty until the 8259s are initialised (which forgets requests), and
a full one has a request or the keyboard's own frame, not yet at its read. That handlers run alone is what makes the steps that drop
or replace the stack - the return, the switch, the jump to ring 3 - unable to drop that frame. `IrqTypeOK` says among
other things that no thread ever runs in the test task's empty context.

### Keyboard and serial loop

`KbSpecTypeOK`, `KbSpecLineIsTerminated`, `KbSpecHistoryIndexNamesEntry`, for every size of buffer and history and every alphabet. They need each other:
recalling an entry is safe because the index names one, entries are texts because there is no NUL left of the
cursor when Enter stores the line, and that holds because every recalled entry is a text. `ScanSafe` is the part that
survives another writer of the line.

`KbImplementsLineEditor`: the handler, which moves characters in place and leaves old text behind the NUL, implements a
cursor between two strings. `Shows(b, p, l, r)` relates the two; each edit of the buffer has a lemma that says what it
does to `l` and `r` (`ShowsType`, `ShowsBackspace`, ...).

`SpecTypeOK` and `SpecLastCellHoldsNul`, under every interleaving with the serial loop: `LoopInv` bounds the position the loop
holds in a register at each place it can be interrupted, whatever the handler did to the line meanwhile.

### System calls

(No assumptions.) For every content of the registers and every behaviour of the handler, the number that
`syscall_handler` reads is not the caller's (`SyscallNumberLost`: "Сохраняем параметры", says `interrupts.asm:160`, but by
then AL and AX have been overwritten), no call is ever served (`SyscallNoCallServed`), and every register but DS and AX
comes back (`SyscallRegistersBack`). The invariant says where the caller's values are at each step: in the
registers outside the handler, in the stack slots around it. There is no run of this module: all it says is proved.

### Terminal

`TSpecScreenTypeOK`, `TSpecOneCursorShown`, `TSpecInFramebufferUntilScrolled`, `TSpecLineShown`, `TSpecEditingKeepsTranscript`,
for every size of screen, prompt and line and every output of commands. Both terminals write a text character by character:
`WriteSteps` unrolls the fold into the screens on the way, and induction along the text carries what one character
preserves to the whole.

In graphics the cursor exists only as an inverted cell. `Marked` (one cell inverted, the cursor's) and `Hidden` (none) alternate: every
function takes the cursor off (`Hides`), works on a hidden screen (`LineFeedHidden`, `StepBackHidden`, `FilledHidden`,
`StepOnHidden`) and shows it again (`Shows`). `Keeps` says along with it that the cursor stays inside until the first
scroll. Redrawing is the case where that is not enough: it puts the cursor behind the text whatever its length, which is why a line that fills its
row is the exception in `InFramebufferUntilScrolled`. On the text terminal the exception is the column (`TextOK`).

`LineShown` is about positions, not characters: `Spelled(cells, p, m, t)` says that the m cells in front of place p spell t.
A character written extends it by one cell (`SpelledOn`), erasing shortens it (`SpelledBack`), a scroll moves it up (`SpelledUp`),
for which prompt and line must fit above the last row, and redrawing establishes it anew. For the step over the end of a row the place
counts cells through the rows, so that the next row's first cell follows the last of this one (`Places`, `RowsApart`).
In graphics nothing holds after a scroll, since `gfx_scroll` leaves the cursor behind.

`EditingKeepsTranscript` needs more than what is displayed: a redraw blanks the cursor's row from its first cell, so the
line must begin with a row, not below that one. `AtRow` says so, and is inductive: typing and erasing move the cursor and leave the beginning,
redrawing makes the row of the cursor the beginning, and Enter starts a row because commands end their output with a new line.

### Numbers

The induction theorems of the library take a predicate as a parameter, which the provers cannot instantiate.
`Numbers` states induction for *sets* of numbers (`Least`, from the well-foundedness of finite sets under inclusion, and
`UpTo`); that is enough for the lists of the heap, the scans of the keyboard and texts on the screen. The rest is division
(`DivMod`, `Remainder`, `Quotient`, `CellOfGrid`), which the solver does not find by itself.

### What the proofs changed in the models

- `Remembered` was a CASE whose arms overlap: for a command that is the last entry already, TLA+ leaves open which
  is taken. The code's order is now in the definition (IF ... ELSE IF).
- `NoBlockLost` had a UNION beside a \cup, which the model checker and the proof system group differently; it is
  parenthesized, and states the partition of blocks and pages cache by cache.
- `RamPages` ranged over the pages that have a bit. With areas above twice the address space, which the walk of paging cuts to 32
  bits and maps, it missed pages that are mapped; it now ranges over the 64-bit addresses.
- The proof of the rounding failed for an area that ends within a page of 2^64: the sum wraps, the walk over its
  pages would map all of memory. No machine has one, and `BootAssumption` says so.
- The proof of `BootHeapPagesUsable` needs the directory's bit to be cleared by `pmm_init`, and `BootPagingTypeOK` the
  bound on the framebuffer's tag: both are now in `BootAssumption`.
- That a line is spelled out after a scroll depends on its length, that editing spares what is above on commands ending
  their output with a new line: `TerminalAssumption` states what the proofs of `Terminal` use, which the instances only happened to have.

### Only model-checked

Liveness (`MainKeepsPolling`, `EveryKeyRead`, `BootCompletes`), which is out of the provers' reach. `TableWritesReachable`: it depends on
RAM being where the pool grows past 4 MB, which the maps of the run provide and the code does not ask. The violations
are TLC's, too.

## 5. Not modelled, and the plan

Left out for good: glyphs, colours, wording and number formatting; the segment tables and the TSS (constants, written
once and loaded by one instruction each); `Keyboard::handle_scancode`,
`multiboot.h` and `poll_keyboard`, which nothing uses; the mouse, which shares the controller's output buffer; the keyboard
controller's buffer being full when the 8259s are initialised; memory that is not RAM behind clear bits, beyond what
`HeapPagesUsable` says of it; the flags of page table entries, which are the same on every present one; framebuffers
that are not 32 bits deep; what is on the serial port.

`Terminal` takes each call as one step. The serial loop and the keyboard handler can interrupt each other inside
`terminal_putchar` too; `Console` models that interleaving for the line, not for the screen: so `TypeSerial` stores a character and displays it in one
step, although a key can come between the two (`kernel.cpp:324`, `:325`). Left out are the effects of a store outside a buffer (`overrun`, `stray`) and of a page table overwritten by the heap.

No property excludes, because the code and its documents promise nothing there: the pages the clearing loop misses being
lost (`pmm.cpp:33`), and the bitmap wiping the memory map it is to be filled from (`pmm.cpp:31`), which the instances contain; that the end of a long
line redrawn on the last row is not on the screen (`kernel.cpp:125`); and what is drawn after the first scroll in graphics (`gfx.cpp:316`), where
`RedrawDoesNothing` shows the scroll itself.

Every safety property but `TableWritesReachable` is proved. What a proof could still add: the conditions on a memory map under which
`TableWritesReachable` holds, and, in the model, the screen under the interleaving of the two editors.
