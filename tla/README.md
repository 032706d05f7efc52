# A verification of sysrv

sysrv is a small RISC-V (RV64, Sv39) kernel in C and assembly. This directory
holds TLA+ models of its components, TLC configurations that check them on small
instances, and theorems about them that TLAPS proves for every instance.
`PROJECT.json` lists the components, runs, mutants, findings, hazards and
theorems, and maps every definition to the lines it stands for.

## The system

| component | source | state | operations | hard because |
|---|---|---|---|---|
| Spinlock | `kernel/lock/spinlock.{c,h}` | flag, owner's CPU number | init, acquire, release | interleaving of CPUs, RVWMO store order, no fairness among waiters |
| Eternal heap | `kernel/mm/kalloc.{c,h}` | bump pointer | allocate, allocate aligned | boundary and alignment arithmetic, exhaustion |
| Page allocator | `kernel/mm/phys/kpalloc.{c,h}` | bitmap, entry count, base, free count | init, allocate, free, mark a region | long call sequences, entry boundaries, truncation, memory that is not cleared |
| Device tree driver | `kernel/drivers/fdt/fdt.{c,h}` | node tree on the eternal heap, root | parse, find the memory size | cursor arithmetic, nesting, full lists, heap exhaustion |
| Boot | `kernel/boot/rv64/start.s`, `kernel/arch/rv64/{init.c,linker.ld}`, `kernel/kmain.c` | boot info, satp, where the boot is | choose the hart, map, bring up the above, reserve memory | order of the calls, rounding, early failure |
| Traps and context | `kernel/arch/rv64/{trap.s,exception.c}`, `hal/rv64/{context.s,cpu.c}` | a register context per CPU | save, decode, panic | what is live at the entry, nesting |
| Sv39 | `hal/rv64/{sv39_vm.c,paging.h}` | page tables | mark, walk | leaf and pointer entries at three levels |
| Interrupt mask | `hal/rv64/irq.c` | sstatus | enable, disable | - |
| Panic | `kernel/panic.c` | - | dump and spin | a control block that belongs to another trap |
| Output | `kernel/kstdlib/stdio.c`, `hal/rv64/{sbicall.c,debug.c}` | the scan of a format, the console | kprintf, one SBI call per character | format scanning, number conversion, arguments out of step |
| Strings | `kernel/kstdlib/string.c` | the bytes of its callers | memcpy, memset, strlen, strcmp, strncpy | boundaries, bytes above 127 |

They meet in the boot. The firmware starts `start.s` with a hart number and a
device tree; hart 0 maps itself and calls `srv_arch_Init`, which installs the
trap handler, parses the device tree (nodes on the eternal heap), asks it for the
memory size, sets the page allocator up (its bitmap on the eternal heap too) and
marks the device tree and the kernel as in use. All of them print with `kprintf`,
one SBI call per character. Any fault goes through the trap handler to a panic,
which stops the hart for ever. Interrupts are never enabled,
no second hart is started, no user program runs, and nothing calls the spinlock
or walks a page table yet: the concurrency of the spinlock and of the per-CPU
contexts is what they promise to callers to come, the rest of the kernel is
sequential.

What makes each correct: a lock held by one CPU at a time, whose owner can always
release it; heap blocks that are disjoint and inside the heap; pages that are
never handed out while reserved or out, never lost and never invented; a tree
that is the one the firmware wrote; memory in use that is reserved, and no more;
a saved context that is the interrupted one; a walk that finds what the hardware
finds; a count and an output that are those of the format.

## Modules

| module | models | extends or instantiates |
|---|---|---|
| `AbstractLock` | what a lock promises: one holder | |
| `Spinlock` | `spinlock.c`, one memory access a step | refines `AbstractLock` |
| `SpinlockProofs` | theorems about it | `Spinlock` |
| `EternalHeap` | `kalloc.c`, one call a step | |
| `EternalHeapProofs` | theorems about it | `EternalHeap` |
| `PageAllocator` | `kpalloc.c`, one call a step | instantiates `EternalHeap` |
| `PageAllocatorProofs` | theorems about it | `PageAllocator` |
| `FdtParser` | `fdt.c`, one token a step | instantiates `EternalHeap` |
| `FdtParserProofs` | theorems about it | `FdtParser` |
| `ArchInit` | `start.s`, `init.c`, one call a step | instantiates `PageAllocator`, `EternalHeap` |
| `ArchInitProofs` | theorems about it | `ArchInit` |
| `TrapHandler` | `trap.s`, `context.s`, `cpu.c`, `exception.c`, `irq.c`, one assembly sequence or C function a step | |
| `TrapHandlerProofs` | theorems about it | `TrapHandler` |
| `Sv39` | `sv39_vm.c` and the boot page table of `start.s` | |
| `Sv39Proofs` | theorems about it | `Sv39` |
| `CString` | `string.c`, one call a step | |
| `Kprintf` | `stdio.c`, `debug.c`, `sbicall.c`, one character or directive a step | extends `CString` |
| `KprintfProofs` | theorems about it and `CString` | `Kprintf` |
| `MCKernelLibrary` | `Spinlock`, `EternalHeap` and `Kprintf` side by side | the three |
| `MCMachine` | `TrapHandler`, `Sv39` and `PageAllocator` side by side | the three |
| other `MC...` | the constants of the runs | the module of that name |

Where modules are extended together their names differ: `LockInit`, `LockNext`,
`TrapInit`, `TrapNext`, `TablesInit`, `TablesNext`, `PrintInit`, `PrintNext`;
`NoEntry` is the NULL of the page table walk, and the place of a `kprintf` call is
`at`.

**Spinlock.** `lock` and `cpu` are the fields of `spinlock_t`, `pc` where each
CPU is. A release ends in two stores, of the flag and then of `-1`; RVWMO lets
the other CPUs see them in either order, so a releasing CPU carries them in
`pending` until each becomes visible. A CPU sees its own pending stores (`View`).
Any CPU may call release out of turn, as the owner check expects. `stuck` is an
owner whose own release panicked. The refinement takes as holder the CPU that
has the flag, until its clearing is visible.

**EternalHeap.** `curr` is the bump pointer; `blocks` is history, every block
handed out. A request that does not fit panics, which ends the run of the kernel
(`Hang`). Aligned requests move the pointer before they check, by the remainder
(`address & (alignment - 1)`, which is `%` because alignments are powers of two)
and not by what is missing to the next multiple. The wrap of `curr + size` at 2^64
is left out.

**PageAllocator.** `page_bitmap` is the set of bits that are set, so an index
past the last entry is a write past the array. `held` counts, for each page, how
often it is out; `marked` and `found` hold the bits that regions and the memory
under a fresh bitmap set. Frees are of pages that are out, by pointers that may
be unaligned. Calls come in the order of the kernel: initialisation, regions,
then allocations and frees in any order. Allocation within an entry is `TakeFrom`,
whose two disjuncts are the branches of the code: for an empty entry the page
returned is the entry's first and the bit set is bit 0 of the whole bitmap.

**FdtParser.** The firmware writes any well-formed structure block, token by
token (`WriteRoot` ... `WriteEnd`, external to the sources), with at most one node
or property of a name in a node, and properties before child nodes. Then the
parser reads it with `curr_offset` in bytes, one action per branch of the loop.
The size of the block is read in the wrong byte order, as in the code: with bytes
of eight values it cuts a block of exactly 64 bytes short, as a block of a
multiple of 64 KiB is in reality. `Complete` says that it does not: what is promised
of the tree and of the memory found is promised only then, and
`fdt_parser_truncated` shows what a block cut short leads to. Node slots may hold
garbage, for the heap is
not cleared; a lookup through a garbage pointer may fault or miss. A lookup
through an empty slot faults. `tree`, `innermost` and `starts` are history of what
was written.

**ArchInit.** One action per call of `srv_arch_Init`, over the allocator's own
actions. The device tree is reduced to what its driver answers. Addresses of the
image come from `linker.ld`, in units of a scaled-down page. The read through
NULL before `kmain` is in the code on purpose while traps are being developed;
the model has it, so a boot ends in a panic, a parked hart or an invalid tree.
A mark past the last entry is kept as a set element past the bitmap; what that
write hits in memory is not modelled. `Boot` is every step of a hart that has not
stopped; the others, and a panicked one, spin.

**TrapHandler.** Each hart has a place `pc`, its registers and the supervisor's
CSRs; `stack` holds the contexts it stores, `cpus` the control blocks,
`interrupted` is history: the registers at the last trap. A call writes the place
to return to into `ra` and a return goes where `ra` says, so a lost `ra` is a
wrong place in the model too. `trap.s` calls before anything is saved: the `ra`
in a saved context is always an address in `trap.s` and the interrupted one is
gone, which the properties say as it is. Exceptions may come at every place but
after a panic; interrupts in user mode, or while SIE is set.
`srv_hal_EnableInterrupts` says it sets SSTATUS.SIE but its immediate 1 is bit 0,
so interrupts are never taken in the kernel (`trap_unmask` shows it). The properties
of the passing run do not rest on that: they hold as well with the immediate
corrected, when interrupts nest as exceptions do. `GetExceptionCause` masks the
interrupt bit off and would name an interrupt as the exception with its code, so no
property promises a name for one. User mode is external: the
handler returns to it and the kernel does not enter it yet. A user program is taken
to leave the hart's number in `tp`, from which the handler finds the control block,
and a usable `sp`, on which it saves: the kernel checks neither. The return restores no
register, so only the stack pointer, `tp` and the saved registers are promised.
`OwnPanic` is the kernel that panics without a trap (heap, lock, device tree): the
same function, with its own cause and whatever the control block holds then. A
trap before the handler is installed and a hart without stack are not modelled.

**Sv39.** `mem` is every table in memory, an entry a set of flags and a page. A
page is `<<VPN0, VPN1, VPN2>>`. `start.s` makes two entries; then callers mark
entries and (external) write them, but not the boot's. The walk is
`WalkPageTable`, three rounds of the loop; `Translate` is what the hardware does
by the Sv39 rules, with its faults for reserved entries and superpages that are
not aligned, which the walk does not look at. The walk follows a physical address
as a virtual one: `Readable` says, by the live page table, where that is the same
memory. Callers start from tables that are clear; accessed and dirty bits are left
to the hardware.

**CString.** `mem` is one array of bytes, `call` history: the last call, its result
and the memory before it. Each function's loop is a recursive function of the
loop's index. Callers respect C's rules: strings end, `restrict` blocks are
disjoint, and every byte touched exists; for `strncpy` these are all `n` bytes of
the source, which the code looks at even after its NUL. `char` is unsigned in the
RISC-V ABI.

**Kprintf.** A call takes a sequence of pieces, each a text or a directive with its
argument: the kernel is built with `-Wall -Werror` and `stdio.h` declares the
functions `printf`-like, so the compiler has checked them: `Accepted` is what it
lets through, text or one directive of any conversion, whole and behind at most a
zero and a width, and `Specified` what the C standard has it show. The pointer of a
`%s` is to a string that ends in the memory. `format` is their characters and
`PlainChar` ... `ConvertDefault` are the branches of
`printf_internal`. The compiler knows directives that the code does not: they drop
characters, print none, and leave their argument to the next directive, which may
read a number as a string (`wild`, where the model stops). Numbers are as the code
prints them, digit by digit, because their count, their padding and their order are
what the properties are about. Beside C's text of a piece (`CText`), `Tolerated`
names what the code makes of some: capitals for `%x`, the digits of `%d` and `%lu`
in reverse, and `-0` for every negative one. `PrintsAsFormatted`, which is about
which argument goes where, lets them pass; `kprintf_numbers` reports them. Each
character goes through `WriteDebugChars` as a `uint32_t` to the firmware, which is
external, as `console`.

## Runs

Each property below has a mutant in `PROJECT.json`: a plausible slip in one
definition that makes TLC report it.

| run | instance | what it shows |
|---|---|---|
| `kernel_library`, lock | 3 CPUs | exclusion, an owner record that is neither stale nor of another CPU than the one in its critical section, refinement of `AbstractLock`; some contender gets the lock |
| `kernel_library`, heap | heap of 16 bytes, sizes and alignments that end on, before and after its end | blocks are disjoint and inside the heap |
| `kernel_library`, output | 4 bytes of three values, formats of two pieces, `UINT_MAX` 255, `ULONG_MAX` 4095 | every function does what `string.h` says on every memory the functions make; the count returned is that of the characters; what is printed is each piece with its own argument, up to an unsupported directive |
| `machine`, traps | harts 0 and 2 of 3, three traps between them, two exceptions and a timer interrupt | the context decoded and dumped is the hart's last trap's in all but `ra`, a panic names its exception and one without a trap dumps an empty block, `sret` resumes only a user program, on its own stack, every trap ends in a panic or a return |
| `machine`, tables | tables of 3 entries, three tables in the kernel's gigapage and a frame outside it, 4 marks and writes | the boot's mapping stays, the walk finds what the hardware translates by, what it finds is the only entry the hardware could use |
| `machine`, pages | 2 pages an entry, memories of 6, 7 and 10 pages (the last bitmap does not fit the heap), 3 regions, a clear and a dirty bitmap | reserved pages never out, double hand-outs only of an entry's first page, no page lost, all pages exist, exact count, NULL only when all is used up |
| `fdt_parser` | two node names (one that fills its words, one that does not), two property names, blocks up to 18 words, 3 child and 1 property slots, room for a few nodes | the cursor meets only tokens, the current node is the one that is open; of a block that is not cut short the tree is exact up to the limits, and the memory is found if it fitted and its size fits one cell; the parser stops |
| `arch_init` | 20 pages at most, device trees of 1 to 9 bytes at three alignments and places, good, bad and faulting trees | the heap's blocks, the bitmap included, are reserved, and a device tree that starts on a page; nothing else is; no mark falls past the bitmap if the regions are in memory that has bits; every boot ends, and where |
| `spinlock_owner` | 2 CPUs | violated: an owner's own release may panic |
| `page_allocator_shared` | as in `machine` | violated: a page is handed out twice |
| `eternal_heap_aligned` | a request of a byte, then one aligned to 8 | violated: the aligned block is not aligned |
| `fdt_parser_truncated` | blocks up to 64 bytes, whose size reads as 8 | violated: only the root is parsed, `srv_fdt_Init` says it was successful, and the lookup of the memory node faults where its comment promises NULL |
| `fdt_parser_memory` | a size with a bit in its high cell | violated: the size answered is the low cell |
| `arch_init_regions` | a device tree that starts inside a page | violated: its last page is free, and so are the pages of `.boot`, which hold the page table in use |
| `trap_unmask` | a hart that unmasks interrupts | violated: SIE stays clear |
| `kprintf_numbers` | `%d` of -5, `%lu` and `%x` of 10 | violated: `-0`, `01` and `A` are printed |

The parts of `kernel_library` and of `machine` share no variable and call nothing
of each other. A behaviour of such a run is one of the part it starts with, while
the variables of the others keep a value they start with; so the states are the
sum of the parts' states, and each property is checked on its own part as in a run
of its own. A part at its end rests (`HeapRest`, `PrintRest`), so in `kernel_library`
a state without a step would be reported, of the spinlock above all. The fairness
is that of the part.

Bounds. Three CPUs let one release while one acquires and one calls release out
of turn; no action involves more. The page allocator's code treats entries as
first, later or last and bits as first or other, so three entries of two bits
have every case; `MaxHolders` lets the free count pass below zero. The parser's
arithmetic depends on lengths modulo a word, of which both outcomes and text of
five bytes occur; nesting goes four deep, lists overflow, the heap runs out and
the block of 64 bytes is among those written. The boot has no loop. Three traps
let one hit the handler of another and be hit itself, or two harts be in the
handler while one traps again; the hart numbers differ from their order. Four
edits make a page of three levels, which is three pointers and a flag, or any
superpage, reserved or pointer entry on the way. Four bytes hold two strings, one
the other's prefix, or a copy into the other half; two pieces are enough for one
directive to take the other's argument, and nothing is kept from a third; numbers
to 255 and 4095 have both ends, zero, and every carry to the next digit in
either base, with widths below, at and above the number of digits.

Deadlock is not checked where the code stops: the parser returns, as does the
`kprintf` of `kprintf_numbers`; a panicked hart and a trap or an edit past the bound
have no step left, and an allocator whose next page has been handed out `MaxHolders`
times waits for a free that the bound alone demands.

Fairness. The spinlock's progress assumes that a CPU inside acquire or release
keeps executing, that its stores become visible in the end, and that a holder
releases; it does not assume that a given waiter wins, and the code does not
provide it: `AcquireProgress` promises that some CPU gets the lock, not that each
does, and a waiter may starve. The parser is a loop on one hart with interrupts masked, so weak
fairness of its steps is what the hardware does. The same holds of the steps of
the trap handler, none of which waits; traps themselves are not fair. `TrapsEnd`
rests on `MaxTraps` too: an exception that its own handler raises again (a bad `sp`,
say) makes the code loop for ever, and the model stops it after the third. It holds of
the boot too: a hart that has not stopped executes its next instruction some time.

## Theorems

- `SpinlockProofs`, for any set of CPUs: type correctness, exclusion, the
  owner record, refinement of `AbstractLock`, and that with one CPU an
  owner's release never panics. The invariant ties the flag to the one CPU that
  holds it, through the places of `pc` and the stores that are pending.
- `EternalHeapProofs`, for any heap, sizes and alignments: blocks are disjoint
  and inside the heap. The invariant says that every block ends at or before the
  pointer and that the pointer does not pass the end unless the heap panicked.
- `PageAllocatorProofs`, for any page and entry size, memory sizes, regions and
  contents of a fresh bitmap: type correctness, a reserved page is never out, only
  an entry's first page is out twice, no set bit is without a reason, every page
  out is in the memory, the free count is exact, NULL means that all is used up.
  The invariant adds that the bit of a page out is set unless it is the
  first of a later entry, and that reserved bits stay set. That is why the slip
  in the code cannot reach a reserved page: bit 0 is already set when a later
  entry is used, and a page can be out with its bit clear only if its entry was
  empty. The count compares the word with a sum over the pages, a recursion over
  finite sets; that it has a solution, and that changing one term changes the sum
  by as much, is proved by induction from the library's well-founded orderings,
  stated over a set of numbers or of subsets in place of a predicate.
- `ArchInitProofs`, for any page, entry and word size, layout of the image, device
  tree, memory and content of a fresh bitmap: type correctness, that the boot
  reserves the heap's blocks and a device tree that starts on a page, that it reserves
  nothing else, and that no mark falls past the bitmap.
  The invariant says at each place of the boot which regions are marked and that
  the heap's blocks lie in the kernel's region; the rest is the rounding of
  addresses and lengths to pages, in lemmas on quotients.
- `TrapHandlerProofs`, for any harts, causes and number of traps: type
  correctness, what is saved is the hart's last trap, `sret` resumes only user
  programs, a panic dumps the last trap, which came from the kernel, and names it if
  it was an exception, or there was none. The invariant follows the
  trapped context place by place: in the registers until the save, in the frame
  at the stack pointer until the copy, in the hart's own block from then on. SIE
  is always clear, so an interrupt finds only user mode; a trap in the handler has
  SPP set, so it cannot reach `sret`, and a trap without SPP was the first. A
  program that has not trapped has an empty control block, which a panic of its own
  dumps.
- `Sv39Proofs`, for any table size, memory and kernel place: type correctness; the boot's entries
  stay and map the kernel both ways; for every content of the memory the walk and
  the hardware agree, table by table. It needs the walk as three rounds of one
  operator and not as a recursion.
- `KprintfProofs`, for any format, arguments, memory and widths of numbers. For every
  memory and every legal pointer and length, the functions of `string.c` do what
  `string.h` promises: each loop is a function of the passes done, and an induction
  over a set of lengths (those the claim holds for are all) gives the memory or the
  place of the stop after any of them. For every format that the compiler lets
  through the scan stays in it: `index` is on the NUL at most, also behind a width
  or an `l`, and what goes to the firmware are characters. The pieces of a call,
  put together, are a format whose directives are apart and hold every percent
  sign (`Marked`, by induction on the pieces); the invariant says where the scan
  stands among them: outside, in the width of one, or on its conversion (`OnScan`).
  The count returned is the number of characters printed: the two agree at every
  place of the scan, by a lemma for each conversion, that of a negative number with
  its sign being the delicate one.
  Last, each piece is printed with its own argument, in C's text or in the one
  `Tolerated` has for it (`PrintsWhatIsAsked`; `Expected` is the one the code
  chooses). The invariant
  (`Printing`) places the scan in the request: in front of a piece, inside a text,
  on a digit of a width, whose value so far is that of the digits read, or on the
  letters of a conversion. What was printed is then the pieces before it, and the
  arguments left are those of the pieces from it on, so the next is the one the
  caller gave for it (`ArgumentIs`). Behind a directive that `stdio.c` does not
  implement only that what was printed stays is known, and it is enough. That a
  loop over a number prints its numeral, backwards or not, is a strong induction:
  the rounds of a number are those of its quotient and one more.
- `FdtParserProofs`, for every block a firmware can write, every limit of the lists
  and every heap: type correctness, the cursor meets only tokens or the zeros
  before one, `curr_node` is the node that is open; the padding is the least
  multiple of a word. When the parser has stopped on a block that is not cut short
  (`Complete`) its nodes are the firmware's tree. If the sizes the firmware wrote fit
  one cell, an answer other than 0 is one of them, cut short or not; a size that fits
  one cell is found when its node and property fit the lists, the heap was clear and
  the block is not cut short. The invariant has three parts. The first is of the firmware:
  each token ends where the next starts, tokens do not overlap, the last one is the
  end, and the node open after a token follows from the token, its number being the
  number of begins before it. The second ties the parser to it: some token is the
  next to be read, the cursor is on it or on the zeros before it, as many nodes
  exist as begins were read, and each has the parent it has in the firmware's tree.
  The third is of the tree: each begin and each property in the block stands for a
  node and an entry of the tree (`TreeInv`), whose lists are in the order of their
  tokens and name nothing twice; and of every node the usable slots hold the
  children that exist already and the properties before the cursor, as many as fit
  (`FilledInv`). It needs that an insertion into the first free slot keeps the
  slots in the order of the entries, whichever of them hold garbage (`InsertHolds`,
  by the number of usable slots up to each). The answer follows: a walk that finds
  anything found an entry, and in a clean list only the one with the name.

Assumptions are those of the modules' `ASSUME`s: that memory ends below 2^64, that
its base is on a page, that the heap is not empty, that alignments are powers of two
(as `kalloc.h` asks), that properties are padded to a word, that a
`reg` has the two cells of an address and the two of a size (`RegAssumption`: the
code reads the fourth unasked), that formats are as `-Wformat` accepts them, their
widths fit an `int`, the pointer of a `%s` is into memory and the argument of `%d` is
an `int`, that the greatest `uint32_t` is odd and holds every character, and that
the values standing for no CPU, NULL and the like are not numbers. For the boot:
`.boot` ends with a page table and so on a page, `linker.ld` aligns the end of the
kernel and puts the heap inside it, and the device tree is in memory below 2^64. For
the traps: user programs leave the hart's number in `tp` and a usable `sp`, as said
above.

Only model-checked: liveness, which is out of the prover's reach. Powers are too
(the provers know nothing of `^` with an exponent that varies), so digits are taken
from a number by dividing it again and again, as the loops do.

## Where the code and its documents disagree

The eight violated runs, with the findings of `PROJECT.json`, are disagreements of
the code with its own comments and declarations. No property of a passing run
asserts what the code does there; each states its condition instead: a device tree
that starts on a page (`FdtReservedFromPage`), sizes of one cell (`MemorySizeAnswer`),
a block that is not cut short (`Complete`), an interrupt that has no name
(`PanicIsOfTheLastException`), and texts of numbers that are not C's
(`Tolerated`). Two more have no run, for no state of a model depends on them:

- `sbicall.c` returns its operand and not the "return code" of `sbicall.h:27`;
  nobody looks at it.
- `kpalloc.h:24` has the memory size in KiB, `init.c` passes bytes and `kpalloc.c`
  takes it so.

## Not modelled, and the plan

Left to do:

- `FdtParser` in place of its answers in `ArchInit`. The boot asks it for three
  values and for the nodes it takes from the heap, all of which are inputs of
  `ArchInit` in any combination, so the composition would show only that fewer of
  them occur; the product of both state spaces is beyond the run times here.
  The same holds of the boot over `Sv39` and `TrapHandler`: the boot stops at its
  first fault, and `TrapHandler` takes faults at every place.

Left out:

- What a trap from user mode finds in `ra`, `t0`-`t6` and `a0`-`a7` after the return
  (`exception.c:22`): the handler restores nothing and no user program exists.
- A trap on a hart without stack (`context.s:15`): the memory below is mapped, so
  the store overwrites the kernel, whose bytes are not modelled.
- Which registers the inline assembly of `sbicall.c:15` clobbers: the compiler's
  choice.
- `hal.h`, `rv64_proc.h`: declarations, modelled with the code that defines or uses
  them. The wording of the panic, the build and run scripts, and `panic.s`, which is
  not built.
