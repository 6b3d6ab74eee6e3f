# A verification project for wiltOS

wiltOS is a small 64-bit kernel in C, loaded by Limine: a framebuffer console
with a shell, a PS/2 keyboard, a physical page allocator and paging, a loader
for position-independent ELF programs, a RAM disk made from a tar image, and a
FAT32 file system on an ATA disk that programs can write. This directory holds
TLA+ models of its core, the TLC configurations that check them on small
instances, and proofs of the theorems that matter most for every instance. All
paths below are relative to the repository; the kernel's sources are in
`src/`. `PROJECT.json` names, for every definition, the lines it models.

## 1. The system

| Part (sources) | State | Operations | Interacts with | Modelled by |
|---|---|---|---|---|
| FAT32 file writes (`FS/fat32_path.c`) | the disk: FAT copies, directories, data | `fat32_write_file_path`, `fat32_read_stream_path`, `fat32_list_path` | programs, through `write_file`; the shell's `cat`, `ls`, `run`; the ATA driver below | `FileStore`, `Fat32Write`, `Fat32WriteProofs` |
| Keyboard (`Input/kbd.c`, `PTB/idt.c`, `Interrupts/`) | shift and caps flags, ring of 64 characters | `kbd_irq` in the interrupt, `kbd_getch` by polling, `kbd_ps2_drain` at boot | controller, I/O APIC, timer, `kmain`'s loop, programs | `KeyQueue`, `KbdRing`, `Keyboard`, `KeyboardProofs` |
| Page allocator (`MM/pmm.c`) | bitmap, count, limit | `pmm_init`, `pmm_alloc`, `pmm_free` | boot loader's memory map; `vmm.c`, `exec.c`, `kmem.c` | `PageAllocator`, `PhysMem`, `PhysMemProofs` |
| Program loader and paging (`Exec/exec.c`, `MM/vmm.c`) | page tables, TLB, the program being loaded | `exec_run_elf`, `vmm_map`, `vmm_set_writable`, `vmm_unmap` | allocator, shell, program | `AppMemory`, `AppMemoryProofs` |
| Console and line editor (`Console/fb.c`, `kernel.c`) | framebuffer, cursor; line buffer | `fb_putc`, `fb_write`; `kmain`'s loop over keys | keyboard, shell, programs | `TextScreen`, `Console`, `LineEditor`, `ConsoleProofs` |
| Initial RAM disk (`FS/tarfs.c`) | table of 512 nodes, name area, data arena, current directory | `vfs_init`, `vfs_mount_tar`, lookup, list, read, `vfs_write_at`, `vfs_chdir` (`vfs_set_cwd`, `vfs_getcwd`: no caller) | `kmain`, shell | `FileTree`, `Ramdisk`, `RamdiskProofs` |
| ATA driver (`Block/ata_pio.c`) | the drive's registers, buffer and cache; a call's counters | `ata_read`, `ata_write`, `ata_probe_current` | FAT32, partition search | `BlockDisk`, `AtaDrive`, `AtaPio`, `AtaPioProofs` |
| Disk set-up (`FS/disk.c`, `FS/part.c`) | selected drive, partition, the mounted volume | `disk_setup`, `mbr_find_fat32` | ATA, mount | `DiskSetup`, `ShellProofs` |
| FAT32 mount (`FS/fat32.c`) | geometry of the volume | `fat32_mount`; the functions on the root directory have no caller | disk set-up | `DiskSetup`, `ShellProofs` |
| Paths, shell (`FS/paths.c`, `Console/commands.c`, `Strings/`) | current directory, output buffer | `path_resolve`, `disk_subpath`, the commands, a program's `write_file` | console, both file systems, loader | `Paths`, `Shell`, `ShellProofs` |
| Kernel heap (`Memory/kmem.c`) | free list | `kmalloc`, `kfree` | allocator | no: unused, see section 7 |
| Boot, interrupt controllers, serial port, `Exec/mmu.c`, `limine.h` | registers | set-up | everything | boot order only, in `Keyboard` |

There is one thread of control. `kmain` boots, then polls the keyboard ring
for ever, halting when it is empty; a line is handed to the shell, whose
commands run to completion, and a program is called as a function on the
kernel's stack. The only other activity is the hardware's: the keyboard and
timer interrupts, the disk, the TLB, and the user's fingers.

### What is hard here, and what must hold

* **FAT32 writes.** A save frees the old chain, links a new one, writes the
  data and last the directory entry, in dozens of disk writes with no journal.
  Power can fail and the drive can report an error between any two of them;
  the disk or the directory can be full half-way; and a write that is reported
  as failed may have been done. What must hold: another file is never harmed,
  chains stay disjoint, a file whose save returned 0 reads back, directories
  survive, each call returns.
* **Keyboard.** The interrupt fills the ring between any two memory accesses
  of a poll, without a lock; the interrupt is edge-triggered, so one byte left
  in the controller is the last one for ever; `hlt` may come right after the
  interrupt that brought the key; and the fake shifts that a keyboard puts
  around arrows and Print Screen are taken for a shift key's. What must hold: a bounded FIFO, characters
  in the order and case in which they were typed, no stuck shift, and a key
  typed on a running system arrives.
* **Memory.** Ranges cut pages anywhere; the allocator's 0 is also an
  address. A program's pages must be mapped, filled while still writable,
  protected, and unmapped on every way out, with the TLB never stale. What must
  hold besides: a page in use has one use, and none is lost (finding 3).
* **Console.** `fill_rect` does not clip, screens are rarely a multiple of
  the cell's size, scrolling copies the framebuffer onto itself; the line
  shown must be the line that will be executed.
* **RAM disk.** Three areas that never shrink, a table linked by hand, and a
  mount that makes directories the image has no entries for.
* **ATA driver.** Driver and drive each count the sectors of a command; the
  drive may stop with an error, or answer after the driver gave up, and its
  cache reaches the medium in any order and is lost with the power. What must
  hold: they stay in step, a read returns the sectors asked for, what a write
  returned 0 for survives, each call returns.
* **Disk set-up.** Two drives share one set of registers, so the answer that
  vouches for one may be the other's late one; the geometry is computed
  without sign from numbers on the disk. What must hold: table and boot
  sector come from the drive in use, clusters lie behind the FATs and inside
  the volume, a good volume is found.
* **Paths and shell.** A path is resolved, joined, cut and searched as text, by
  three different pieces of code (`cd`/`ls`/`run`, `cat`, a program's save),
  and looked up under names that two functions encode differently. What must
  hold: a path means what paths mean, the current directory exists, a word
  runs the right file, what was saved is found under the same name.

The full list, each at its line, is under `hazards` in `PROJECT.json`.

## 2. The modules

Each component's module has its state as variables, one action per operation
or per step that something else can come between, and its properties at the
end. An operator `X_Y` preceded by a comment "Mutant:" is `X` with a plausible
mistake; nothing uses it in a run as it stands. It is put in the place of `X`
to see that a property notices. `MC...` modules give the constants for TLC.

* **`Fat32Write`**: `fat32_write_file_path`, one step per disk write.
  `Begin` is the entry up to the lookup's outcome; `FreeCluster`/`FreeDone` the
  loop that frees the old chain; `AllocCluster`/`DiskFull`/`AllocDone` the
  allocation rounds, in which a cluster just taken is still marked free until
  the next round links it; `WriteSector`/`PastEnd`/`NextCluster`/`ShortChain`/
  `DataDone` the data; `WriteEntry`/`DirFull` the directory entry. `SetFat` is
  `fat_set2` up to the write of the first copy and `Mirror` its second half.
  `Interrupt` is a drive error or a power loss: either way no later write of
  the call happens. The driver can report a write as failed that has reached the
  disk (`ata_pio.c:81` and `83`); for all but the last write that is the write's
  own action with `Interrupt` behind it, and for the last, the entry's, it is
  `LateError`: the new content is there and the call returns an error
  (`PutEntry` is what it shares with `WriteEntry`). `BeginBlind` is a lookup that could not read a sector and
  is taken for "no such file". Data is per sector, a directory per slot, a
  directory is one cluster (as `mformat` and `mmd` make them in `build.sh`).
  History variables record what each successful save wrote (`saved`) and
  which files a failed save damaged, its own target only.
* **`FileStore`**: what a caller may expect: a save changes its own file only. One
  that returns 0 has delivered the new content; one that fails leaves the old
  content, none, or the whole of the new one, never a mixture.
* **`KbdRing`**: `kbd_getch` in its four memory accesses, `qpush` in one,
  since the interrupted program does not run meanwhile. **`KeyQueue`** is the
  bounded FIFO it implements.
* **`Keyboard`** extends the ring (`qpush` is `Decode`'s, `Poll` is `kbd_getch`'s) with the user,
  the keyboard's and the controller's buffers, the edge-triggered interrupt,
  the boot order (`Drain`, then routing, timer, `sti`), the decoder
  (`Decode`), the timer and the polling loop (`kbd_getch`, `Hlt`, `TakeKey`). An
  extended key's byte follows the prefix E0 (`Codes`), and `FakeShift` is the E0 2A
  or E0 AA that the keyboard may put before it is pressed, and takes back behind
  its release: `kbd.c:74` reads the prefix and forgets it, so `Decode` takes them
  for a shift key's bytes. `fakes` are the keys held behind one. The two extended
  keys that yield a character, Enter and / of the keypad, are left out; they are
  handled as the keys they share a code with.
* **`PhysMem`**: `pmm_init` over every memory map of a set, `pmm_alloc`,
  `pmm_free`, with ranges in bytes and pages as numbers. **`PageAllocator`**
  is what it implements: a page has one holder, an allocation fails only when
  nothing is free.
* **`AppMemory`** composes the allocator (`Pmm == INSTANCE PhysMem`) with the
  page tables, the TLB and `exec_run_elf`: `AllocPage`, `EnsureTable`,
  `MapPage` are `map_segment` and `vmm_map` for one page; `Copy`, `Relocate`,
  `Protect`, `Enter`, `Return`; `UnmapPage`, `Done` are `vmm_unmap`, which gives
  `pmm_free` an entry with its no-execute bit (`FrameOf`), so that only executable
  pages come back; the history variable `lost` collects the others. `Fill`
  lets the processor cache any present entry at any moment. When
  `ensure_table` gets no page it uses address 0 as a table (`vmm.c:24`): the
  model stops there in `wild`; a store to a page that is not writable stops
  it in `fault`.
* **`Console`**: the framebuffer pixel by pixel, drawing, wrapping, scrolling.
  A lit pixel carries the glyph and the place in it, so no two glyphs look
  alike. **`TextScreen`** is the terminal it implements. **`LineEditor`** adds
  `kmain`'s loop: keys, the buffer, the echo, the output of a command and the
  prompt, one character per step.
* **`Ramdisk`**: the table of nodes with parent, sibling and child, the two
  areas, the mount of an image entry by entry, writes and changes of
  directory, and the two walks (`walk` for `vfs_lookup`, `walk_from` for paths
  relative to a directory). The history variable `call` keeps what the last entry
  or write was asked to store, at which path (`Target`, `Below`: what the components
  name, independent of the table), and whether it returned 0. **`FileTree`** is the
  map from paths to contents it implements, seen through `vfs_read`; each of its
  steps does what `call` says and nothing else: a call that returns 0 stores its
  content at its path and makes the directories on the way, a failed write may
  leave an empty file, and the machine stops only if the tree would have more
  paths than the table has nodes.
* **`AtaDrive`** is the other end of the cable: a command is taken only at rest
  and sets BSY before the next status read; one sector at a time is asked for
  or offered with DRQ; a write cache is destaged in any order; `Fault` ends a
  command with ERR; `DriveOff` is a power loss. **`AtaPio`** is the driver: one
  action per register access that the drive can come between, each with its
  poll's three outcomes (ready, error, time-out). A time-out counts a million
  reads, which a slow drive can outlast at any poll, so it is possible whenever
  the drive is not where the poll wants it. Two history variables tell the
  properties what a call may rely on: `clean` (the drive was at rest when the
  call began and hid no error since), `orphan` (a call gave up on a write that
  still wants data). **`BlockDisk`** is the promise they implement together; a
  call is `loose`, and promised nothing, if the drive still works on an earlier
  one or stopped with an error nobody looks at.
* **`DiskSetup`**: `ProbeSlave`, `ProbeMaster`, `ReadTable`, `Mount`, each with a
  read that succeeds, fails, or is answered by the drive that is late from an
  earlier one. Sector counts wrap at `Word`; `clus_lba`, `FatEntryLba` are the
  addresses the mounted geometry gives.
* **`Paths`**: operators for `path_resolve` (join, cut, the in-place loop round by
  round), `disk_subpath`, `force_disk_abs`, and the two encodings of an 8.3
  name (`up11`, `name83`). `Kept` is what `seg11` leaves of a component, its first
  fifteen characters. `Meaning` is the reference: components on a stack.
* **`Shell`** extends both. `Boot` is `disk_setup`, `Prompt` its end or the end of
  a command; then a line is answered (`Cd`, `Ls`, `Cat`, `Run`, `Program`): the
  node the command reaches is `last.reply`, a null pointer followed is `Fault`
  and halts. A file that is found may be a program; a program saves files
  (`Save`, with the redirection of bare `.ELF` names to `BIN`) and exits. `Walk` is
  the walk of `cd` and of a save, `walk_path` that of `ls`, `cat` and the search for
  programs, which cuts its components with `seg11`.

## 3. The runs

All runs together fire every action and every disjunct of every next-state
relation of the modules they check.

| Run | Question | Result |
|---|---|---|
| `Fat32Saves` | Three saves, one interruption anywhere, disk and directory filling up: `SavedReadable`, `NoCrossLink`, `MirrorBound`, `NoLeak`, `ImplementsFileStore` | hold, about 270,000 states |
| `Fat32Faults` | Interruption, blind lookups, damaged files saved again, directory names as targets, FAT entries past the disk: `DirectoriesSurvive`, `EveryWriteReturns` | hold |
| `Fat32Retry` | Does `SavedReadable` hold when a file whose save failed is saved again? | **no**, finding 1 |
| `Keyboard` | Keys, fake shifts, interrupts anywhere in a poll, `hlt`: `EdgePending`, `TypedInOrder`, `NoStuckShift`, `KeysArrive`, `ImplementsKeyQueue` | hold, about 1,361,000 states |
| `KeyboardWindow` | `KeysArrive` with a byte between the drain and the routing | **no**, finding 2 |
| `PhysMem` | Any sequence of allocations and frees after any memory map: `PagesAreSafe`, `ImplementsPageAllocator` | hold |
| `AppMemory` | Any programs in any order, in six sizes of memory: `PagesAccounted`, `TlbFresh`, `RightsFinal`, `LoadNeverFaults`, `NeverDry` | hold |
| `AppMemoryLeak` | `AllGivenBack`: are only the page tables in use when no program runs? | **no**, finding 3 |
| `LineEditor` | `CursorInside`, `LineShown`, `ImplementsTextScreen` | hold |
| `Ramdisk` | Every image, then writes and changes of directory: `LinksMakeTree`, `ImplementsFileTree` | hold, about 53,000 states |
| `AtaPio` | Three calls on a drive with a cache, one error, one power loss, time-outs anywhere: `InStep`, `OwnSector`, `ImplementsBlockDisk`, `EveryCallReturns` | hold, about 687,000 states |
| `Shell` | Every pair of drives, tables and boot sectors, then commands and saves in any order: `RightDrive`, `VolumeSound`, `VolumeFound`, `CwdIsDirectory`, `PathsMean`, `RunsFirstFound`, `SavedIsFound` | hold, about 92,000 states |

The type invariants of `Ramdisk`, `Keyboard` (with that of `KbdRing`), `AppMemory`
(with that of `PhysMem`), `LineEditor` and `Shell` are checked and proved, those
of `Fat32Write` and `AtaPio` proved; section 4.

### Findings

1. **Saving a file again after a failed save can destroy another file**
   (`fat32_path.c:376`). The old chain is freed first and the entry rewritten
   last. On a full disk the entry keeps naming free clusters; another file
   takes them; saving the first one again frees and overwrites them.
   `Fat32Saves` shows that without such a retry nothing is lost.
2. **A key at the wrong moment of boot kills the keyboard** (`kernel.c:108`):
   the output buffer is drained before the interrupt is routed; the edge of a
   byte in between is lost, the byte is never read and no further one comes.
3. **A program's data pages are never given back** (`vmm.c:122`). `vmm_unmap` frees
   `pte & ~0xfff`; for a page mapped without execution (`exec.c:191`) bit 63 is still
   set in it, so `pmm_free` takes it for a page past its limit and returns
   (`pmm.c:74`), although the call's `free_phys` is 1 (`exec.c:203`). Every run of a
   program with data, failed or not, loses those pages; when memory is gone,
   `ensure_table` uses address 0. `PagesAccounted` and `NeverDry` say what holds
   instead: nothing else is lost, and nothing fails before it is.

### What the properties leave out on purpose

Behaviour of the code that a reader may not expect. The models have it (unless
said otherwise), and the condition of the property named excludes it.

* A save to a directory's name adds a second entry, returns 0, and cannot be
  read: the test at `fat32_path.c:372` sees only files (`Fat32Write!SavedReadable`
  speaks of other names).
* Escape never arrives: `kbd.c:14` has no character for scancode 1, while
  `apps/edit.c:8` says `ESC aborts` (`Keyboard!Decode`).
* With no disk mounted `run` of a path below `/disk` and any unknown word
  follow a null pointer, and so do `cd` and `ls` of a name that only begins
  with the disk's, as `/diskfoo` (`Shell!RunsFirstFound`, `Clash`).
* `seg11` cuts a component to fifteen characters before it makes an 8.3 field of it
  (`fat32_path.c:32`), for `ls`, `cat`, `run` and words; `cd` and saves do not cut
  (161). The two differ only for names of several dots: `cd a.b.c.d.e.f.g.h.i` looks
  for `A       I`, `ls` of the same for `A       H` (`Paths!Uncut`, `Shell!AllUncut`;
  `MCShell` has such names).
* While an arrow key or Print Screen is held behind a fake shift, letters come in the
  other case, and shift may be set with no shift key down (`Keyboard!fakes`, in
  `clean` and `NoStuckShift`).
* A path is cut at 255 characters without notice; a component's trailing dot is
  dropped (`a./b` is `a/b`); doubled slashes after a `.` survive (`Paths!Plain`,
  `Fits`, `Shell!Roomy` for what is put before a name). `run` resolves the whole line,
  so dots in the arguments count, and so does a slash at their end; a path that ends
  in a dot loses it only at the end of the line, and a blank in the working
  directory's name is taken for the end of the path (`Shell!RunsFirstFound`).
* A program saved under a bare name goes to `BIN`, whatever the working directory; a
  file of the name in the working directory hides it (`Shell!SavedIsFound`).
* A base longer than eight characters is cut by `split83_up` but spills into the
  extension in `up11`: such a file, saved in the root, is not found by `cat`
  (`Shell!Short`).
* `fat32_mount` takes a volume whose FATs are larger than itself (the difference
  at `fat32.c:81` wraps), one without a FAT, and one with sectors other than
  512 bytes (`DiskSetup!Formatted`).
* After a timed-out read the drive may ignore the command of the next write,
  which can return 0 all the same; an error after a command's last sector, or
  of the flush, is not looked at (`ata_pio.c:81`) (`BlockDisk!loose`). The cut
  of a sector number to 28 bits (`ata_pio.c:45`) is not in the model.
* The two arguments that share a line at `commands.c:334` may be evaluated in
  either order; the model has the order right to left, which the compiler uses.

### Bounds, and why they are enough

* `Fat32*`: clusters 2 to 8, of which two are free at the start and one is
  given back by a save of the two-cluster file; a directory of three slots
  with one free; contents of 0 to 3 sectors with two sectors per cluster in
  `Fat32Saves`, of up to 5 clusters in `Fat32Faults`, so that saves fit
  exactly, fail for want of one cluster, need one to three rounds, and wrap
  past the last FAT entry. Three saves are the shortest story in which one
  file is damaged, a second takes its clusters and the first is saved again.
  In `Fat32Faults` the last FAT entry lies past the end of the disk.
  `MaxWrites`, `MaxInterrupts`, `MaxLookupFaults` and `MaxSectors` bound the
  counters; the runs end when the calls are used up, so deadlock is not checked.
* `Keyboard`: a ring of three slots, which holds two characters, and three key
  presses, so it fills, overflows and wraps; one letter, one symbol, both shifts,
  Caps Lock and an extended key (`ExtKeys`); `FifoSize` is four bytes that wait in
  the keyboard, as many as an extended key with its fake shift sends. Once the presses are used up the
  timer goes on, so deadlock is checked. `WindowKeys` is FALSE in `Keyboard`,
  because of finding 2, and TRUE in `KeyboardWindow`.
* `PhysMem`: pages of two bytes, eight of them, a kernel that cuts two, and
  usable ranges of 0, 1, 4 and 7 bytes around a reserved one of 0, 1 or 3,
  some past the last page of the bitmap.
* `AppMemory`: four pages under two page tables; five images with data in the
  middle of a page, a bss longer than a page, a gap, a truncated segment, an
  unsupported relocation and a bad entry point; six memory sizes, from one
  where the first allocation fails to one where several programs can lose their data
  pages before one does (`AppMemoryLeak` takes that one alone). No
  bound on the number of runs. `wild` and `fault` stop, so deadlock is not
  checked.
* `LineEditor`: five columns and two rows, with a column and a row of pixels
  left over; a buffer of four bytes, so it is full before the row is; outputs
  that erase, wrap at the last column and scroll. No bound on the keys.
* `Ramdisk`: six nodes, an arena of five bytes in blocks of two, absolute and relative
  paths with dots in them, three images, one of which is too large for the table; three writes (`MaxWrites`)
  of up to two bytes (`MaxSize`). A full table stops the machine, and the
  writes end, so deadlock is not checked. The name area is larger than the
  names, since with it full the tree fails (hazard at `tarfs.c:28`): thirty bytes
  for six nodes, so `EnoughNames` of section 4 holds.
* `AtaPio`: three sectors and commands of at most two (`NumSectors`,
  `MaxBurst`), so that a call needs a full command and a shorter one; three
  calls (`MaxCalls`), so that a call follows one that gave up on one that
  succeeded; one error, one power loss (`MaxFaults`, `MaxPowerLosses`). A
  sector's content names its call and place, so misplaced data shows. The
  calls end, so deadlock is not checked.
* `Shell`: TLC's integers have 32 bits, so `Word` is 64 and a volume needs five
  clusters; nine boot sectors, two of them sound ones with different geometry,
  the others each wrong in one way; three partition tables. Names have two
  characters and one, buffers fifteen bytes (`Cap`), and `seg11`'s four characters (`SegCap`), so that paths of two components
  fit and three with the prefix do not; six directories two levels deep; 56
  paths to type, four to save to, two saves (`MaxSaves`). The number of commands
  has no bound. A fault halts, so deadlock is not checked.

### Fairness

* `AtaPio!FairSpec`: weak fairness of the driver's own steps, for the same
  reason as the next. Nothing is assumed of the drive, which may never answer.
* `Fat32Write!FairSpec`: weak fairness of the call's own steps. The call runs
  in the only thread of control; interrupts return to it, and every wait of
  the driver is bounded (`ata_pio.c:14`, `21`). Nothing is assumed of callers
  or of failures.
* `Keyboard!FairSpec`: weak fairness of the controller's delivery, of the
  boot steps, of each interrupt and of the polling loop: hardware that runs,
  interrupts that are on after `sti`, a periodic timer (`apic.c`), a loop that
  is the only thread. The user need not type. The mutant with a one-shot
  timer breaks `KeysArrive`: it is the timer that ends a `hlt` which comes
  after the interrupt of a key.

## 4. The proofs

| Module | Theorem | For every ... |
|---|---|---|
| `Fat32WriteProofs` | `TypeCorrect`: `Spec => []TypeOK` | volume, bounds and failures |
| | `DirectoriesAreSafe`: `Spec => []DirectoriesSurvive` | the same |
| | `CopiesAgree`: `Spec => []MirrorBound` | the same |
| | `FilesKeepTheirOwn`: `Careful => (Spec => []NoCrossLink)` | the same, saves that are `Careful` |
| | `SavesAreRead`: `Careful => (Spec => []SavedReadable)` | the same |
| | `ImplementsStore`: `Careful => (Spec => ImplementsFileStore)` | the same |
| | `NothingLeaks`: `Careful => (Spec /\ NoLeak => []NoLeak)` | the same, images without a lost cluster |
| `KeyboardProofs` | `PollIsSafe`: `RingSpec => []PollSafe` | ring size and alphabet |
| | `RingImplementsQueue`: `RingSpec => ImplementsKeyQueue` | the same |
| | `KeyboardFillsQueue`: `Spec => ImplementsKeyQueue` | ring, keyboard buffer, keys, boot |
| | `KeyboardTypes`: `Spec => []TypeOK` | the same |
| | `NoByteForgotten`: `~WindowKeys => (Spec => []EdgePending)` | the same, no key in the window of finding 2 |
| | `ShiftDoesNotStick`: `Spec => []NoStuckShift` | the same |
| | `KeysInOrder`: `Spec => []TypedInOrder` | the same |
| `PhysMemProofs` | `UsedCountExact`, `HandedOutPagesAreSafe` | page size, bitmap, memory map, kernel |
| | `BitmapImplementsAllocator`: `Spec => Pages!Spec` | the same |
| `AppMemoryProofs` | `AppMemoryTypes`, `TlbStaysFresh`, `EveryPageHasOneUse`, `LoadingNeverFaults`, `RunsWithItsRights`, `MemoryNeverRunsDry` | memory map, window, loadable programs |
| `ConsoleProofs` | `DrawsInside`: `ConsoleSpec => []CursorInside` | screen and cell size, text |
| | `EditorTypes`: `Spec => []TypeOK` | the same, buffer, prompt, keys, output of commands |
| | `LineIsShown`: `Spec => []LineShown` | the same |
| | `PixelsImplementScreen`: `Spec => ImplementsTextScreen` | the same |
| `RamdiskProofs` | `RamdiskBounds`: `Spec => []TypeOK` | table, name area, arena, images, paths, contents |
| | `RamdiskLinks`: `EnoughNames => (Spec => []LinksMakeTree)` | the same, a name area for as many names as nodes |
| | `RamdiskIsFileTree`: `EnoughNames => (Spec => ImplementsFileTree)` | the same |
| `AtaPioProofs` | `DriverInStep`: `Spec => []InStep` | drive and command size, number of calls, errors, power losses |
| | `TypesAndRanges`: `Spec => []TypeOK` | the same |
| | `SectorsKeepTheirOwn`: `Spec => []OwnSector` | the same |
| | `DriverImplementsDisk`: `Spec => Disk!Spec` | the same |
| `ShellProofs` | `RightDriveMounted`: `Spec => []RightDrive` | partition tables, boot sectors, tree, commands |
| | `VolumesAreSound`: `Spec => []VolumeSound` | the same, any width of a sector number |
| | `VolumesAreFound`: `Spec => []VolumeFound` | the same |
| | `ShellTypes`: `Spec => []TypeOK` | buffer size, tree, text typed, names saved to |
| | `CwdStaysDirectory`: `Spec => []CwdIsDirectory` | the same |
| | `PathsAreMeant`: `Spec => []PathsMean` | the same |
| | `RunsAreFirstFound`: `Spec => []RunsFirstFound` | the same, files of the RAM disk |
| | `SavesAreFound`: `Spec => []SavedIsFound` | the same, number of saves |

The assumptions are the named `ASSUME`s of the modules; TLC evaluates them on
each run. Those of the shell are that the fields of a boot sector are numbers
that fit a word and a partition table has four entries (`SetupConstants`), that
the disk's name is one component that fits a path buffer and does not end in a
dot, and letters are no slashes (`PathConstants`), that
directories lie in directories, the image's files in directories and not under
a directory's name, 8.3 names have no slash, what is typed and what a program
saves to is text without its terminator, `BIN` and `bin` are single components,
`bin` is not the disk's name, and `.ELF` is not empty (`ShellConstants`).

* **Fat32Write, directories.** `DirectoriesSurvive` is not inductive: a chain
  that led into a directory would be freed in the next step. `IInv` adds
  `Control` (what the control flow knows of the call's locals: the slot found
  is a file's, the clusters are valid once allocated) and `Isolated`: no FAT
  entry, no file's entry, and none of the cluster numbers the call holds names
  a directory's cluster. It starts true by `ImageOK` (how `mformat` lays a
  volume out) and is kept because `find_free_cluster` returns only clusters
  marked free, which a directory's never is (`FindFreeOK`), and because only a
  file's slot or a free one is rewritten. One lemma per action; all failures
  share one. It needs nothing about damaged files: the theorem covers retries.
* **Fat32Write, the copies of the FAT.** `MirrorInv` counts the entries that
  differ and are not waiting for their mirror write (`Stale`): every
  interruption adds at most the one that was waiting.
* **Fat32Write, files.** These theorems say `Careful`: no damaged file is saved
  again, no lookup is blind, no target is a directory's name. Without the first
  they are false (finding 1); the run `Fat32Saves` has the same setting, and
  `DirectoriesAreSafe` and `CopiesAgree` hold without it. The chain of a file
  has any length, so no invariant can name it cluster by cluster. `SInv` says
  instead that a *layout* exists: a set of clusters for each entry (`clus`)
  closed under the FAT and disjoint from the others (`Chained`), a set taken by
  the call (`new`) and the order in which it was taken (`rank`), along which the
  FAT links it (`Chaining`) and the sectors are written (`Filled`). The layout
  of the image is the least one: the intersections of closed sets, disjoint by
  `FileChainsOK`, which states what `mformat` and `mcopy` leave. `KInv` adds
  that a saved file's chain holds its content (`Kept`), and the steps that read
  a chain go by `ChainStays`: chains in two FATs that agree on a closed set are
  the same. The refinement maps the entry to `Start`, the first freed cluster
  to `Drop`, the write of the directory entry to `Commit`, or, when it is reported
  as failed (`LateError`), to `Fail` with the new content; a failure that loses the
  file to `Fail` without one, and everything else to a stutter. What the entry's
  write does to the disk is the same in both cases (`Puts`).
* **Fat32Write, lost clusters.** The sets of a layout may be larger than the
  chains, so `AllUsed` goes by what an entry leads to, the least closed set
  (`Leads`). While no call has failed, an allocated cluster is led to by the
  entry of a file that reads back, by the cluster to be freed next, or by the
  first one taken; and the last one taken is led to by the first. Freeing takes
  the head off a chain (`LeadsOn`), linking adds to its end (`LeadsMore`), also
  when the search came back with the same cluster and it leads to itself, and
  other files' chains do not notice (`LeadsApart`). That `Chain`, which follows
  `Entries` links, has all that is led to, is the pigeonhole principle
  (`ChainRepeats`). The theorem's condition says that the image has no lost
  cluster to start with; the run `Fat32Saves` has such an image.
* **KbdRing** (in `KeyboardProofs`). `RingInv` is `RingTypeOK /\ PollSafe`: after a poll saw a character
  there still is one, and what it loaded is still the oldest, because the
  interrupt only moves the head and only writes the slot there
  (`SlotBounds`, `CountBounds`). The refinement maps the ring to the sequence
  `Contents` and lets a poll that will miss return at the moment it has read
  equal indices. `RingSteps` shows that all other parts of the system leave the ring
  alone, so what is proved of it holds in `Keyboard` too.
* **Keyboard.** For order and case the invariant `TypedInv` plans ahead: what
  the handler will make of the bytes that wait in keyboard and controller,
  with the shift and caps flags it will have then, is what was typed and is not
  in the ring yet. Typing appends to the plan, handling a byte takes its first
  item, and the ring's part is `RingImplementsQueue`'s `Contents`. An extended
  key's bytes yield nothing, but its fake shifts move the plan's flag (`FakePlan`),
  so that the flag behind the last byte that waits is a shift key's only while no
  key is held behind a fake shift. `NoStuckShift` has an invariant of its own,
  `ShiftInv`: a press of a shift that waits is followed by its release (`Unstuck`),
  unless a shift key or a fake is held.
* **PhysMem.** `IInv` is `TypeOK /\ UsedCount /\ Owned`; `Owned` says that
  held pages have their bit set and lie below the limit, and that page 0 is
  neither held nor free, so that 0 can mean failure. `PagesAreSafe` needs in
  addition that clear and held pages were freed by `pmm_init` and not taken
  back, and a calculation about rounding. The refinement takes `Clear` and
  `held` together for the pages the abstract allocator deals in.
* **AppMemory.** `AppInv` has the allocator's invariant as it is
  (`PmmP == INSTANCE PhysMemProofs`), and five parts: `Place`, where the loops
  can be; `Extent`, which pages of the window are mapped at that place; `Rights`,
  with which rights; `TlbFresh`; and `Accounted`, that tables, the program's
  pages, the one in hand and those lost at an earlier unmapping (finding 3) are
  different pages and all that is held. That memory does not run dry before pages are
  lost is a count on top (`Room`): the pages of a window and its tables fit
  `EnoughMemory` beside the lost ones, so a page is clear when one is asked for.
* **Console.** `CursorInv`: the cell at the cursor fits, both ways. The cases
  are a new row, a scroll, an erasure and a plain character. The other theorems
  carry a witness along: `Paints(fb, t)` says that the framebuffer shows the
  screen with the characters `t`, and nothing beside its cells. Drawing one
  cell and scrolling by one row take such a screen to the one `TextScreen`
  makes of it (`DrawPaints`, `ScrollPaints`), whatever strip of pixels is left
  at the right and the bottom; two glyphs differ in a pixel, so `t` is the only
  one (`PaintedShows`), which is the refinement. `LineShown` speaks of moments
  at which a key is waited for; `EditInv` follows the text between them. What is
  still to be put on the console is the rest of some output, a new line and the
  prompt (`Coming`), or the end of the line itself (`Growing`), or the erasure
  of a character that has left the buffer (`Erasing`), and in each case the
  cursor's row is known as far as it is written.
* **Ramdisk.** `Linked` is what `add_child` keeps of the table: a node's parent and
  its next sibling have smaller numbers than the node, a directory's first child is
  its newest one (`Heads`), the next sibling of a child is the next older one
  (`Siblings`), and no name comes twice under one parent. So the list of a
  directory is its children from the newest to the oldest, `find_child` finds the
  child of a name or, when there is none, nothing, and following the parents ends
  at the root: each is an induction over node numbers, downwards. A path's spelling
  and its walk are inverse to each other. `Inv` adds that no component of the
  current directory's path is `.` or `..`, which `walk_from` would not read as a
  name while `vfs_write_at` can make a directory of the name `..`; that no written
  content reaches past `data_off`; and `Roomy`: every node has a name, because the
  names in use take at most as much as the nodes in use may. That is where
  `EnoughNames` comes in: `new_node` does not test `nb_dup`, and a node without a
  name stops the next search that comes to it. With the code's 512 nodes and 8192
  bytes the condition says that names are shorter than 16 characters; the image of
  this repository has `bin`, `hello` and `edit`. The bounds (`RamdiskBounds`) hold
  without it. For the refinement, `TreeOf` is what all paths of the table lead to.
  A search that makes a node adds one path to it and changes nothing at the others
  (`TreeGrows`), and each of its steps reaches the path that the components read so
  far name (`Reached`), so a call acts on the path it was given. The machine stops only
  with the table full, and then the tree a call was to make has more paths than the table
  has nodes, which is a count of nodes by paths (`PathCount`, `Overfull`). A file that is written changes at its own path, and the arena's
  blocks do not overlap, since a new one starts at or behind `data_off`.
* **AtaPio.** `InStep` speaks of the polls for a sector. `StepInv` adds the ranges
  of the counters, which places of the code belong to which call (`Called`), when
  a drive can hold a sector or an error (`Device`), and where a clean call's
  drive can be between two commands (`Between`: at rest before one is issued,
  storing the last sector after the data, flushing after that). One lemma per
  driver step, one for the drive's steps and one for the failures. The types need,
  beside it, that what is left of a call ends where the caller's sectors end, and
  that a command in hand has its sectors on the disk. `OwnSector` follows the
  place of a sector from the caller through the drive's counter to the medium and
  back; the refinement adds which sectors of a finished write can still be in
  the cache (none, once the flush was waited for).
* **Shell.** Once a drive is probed as signed no read is late any more
  (`PortFree`), since a read that fails ends the set-up and one that succeeds
  takes the late answer away; so the table read next is the selected drive's
  (`TableRight`) and the boot sector too. The lemmas for the commands show that
  nothing after `disk_setup` touches what was mounted.
* **Shell, the volume.** What is mounted is a boot sector that `fat32_mount`
  accepted, with the number of clusters it computed (`VolumeKnown`). On a
  formatted one none of the sums and products wraps (`Geometry`), so dividing
  and multiplying again loses at most a remainder, and the last cluster ends
  inside the volume. `Unfailed` says how far the probing can be when no read
  failed: nothing is late, and the drive in use is the first one signed.
* **Shell, the working directory.** `CwdInv`: the text in the buffer is shorter
  than the buffer, and with a disk mounted the fields of its components, the
  disk's name taken off, are a directory. `cd` walks the components
  of the sub-path and then stores a text; the lemmas lead from one to the other.
  The loop of `path_resolve` writes at most one character for each one it reads
  (`RoundTypes`, `ReducedText`), so nothing grows past the buffer; the components
  of the prefixed text are the disk's name and those of the sub-path
  (`PartsOnDisk`); a walk that ends in a directory ends in the one its fields
  spell (`WalkEnds`). The text that is cut at the buffer's end is covered: `cd`
  walks the text after the cut. For `TypeOK`, `FilesInv` says that a save
  writes a whole field (`NameOfText`) into a directory it walked to.
* **Shell, what paths mean.** `PathsMean` compares a loop that rewrites text in
  place with a stack of components. `Sight(s)` is what a text says so far, the
  parts it has closed and the one it leaves open: a character adds to it
  (`SightAppend`), so a text and the text it is reduced to can be compared
  without a position in either. `Sim` is the invariant of the loop: what
  is written has closed the parts that `Follow` makes of those that were read and
  has the same part open, and the last dot read is known to be a name's; `Done`
  is what the loop leaves (`SimSkip`, `SimClimb`, `SimCopy`, one for each kind of round;
  `ReducedFollows`). It needs `Good` text: no slash follows the slash that a dot
  takes off, and a component that ends in a dot is dots alone; `PlainBehind`
  shows that a `Plain` path gives such a text behind any working directory.
  With `Fits` nothing is cut, and so `path_resolve` gives the meaning
  (`ResolveMeans`). The rest leads from there to the node: what is behind the
  disk's prefix is `OnDisk` of it, unless the name only begins like the disk's
  (`NameFirst`, `DiskView`, which is where `Clash` is needed); walking it finds
  what `Find` says (`WalkFinds`); and `cat`, which reads the root with the
  other of the two encodings, finds the same under a short name (`ShortNames`).
  `PathsMean` alone is not inductive: `PathsInv` adds that the working
  directory's text is absolute, none of its components ends in a dot unless the
  buffer's end cut it there, and it is on the disk or the root (`Absolute`);
  that no file's field holds a slash, as the name `cat` makes of a bare `/` does
  (`FilesSlashless`); and that nothing counts as answered at the prompt (`Idle`).
  Components that `seg11` cuts to another field are excluded (`AllUncut`), so
  `walk_path` and `Walk` agree.

* **Shell, what is run.** `run` resolves its whole line, so the reduction is
  followed on a line that goes on behind the path. `Reading` is the invariant of that
  loop: as far as the path goes, what is written is what the path alone gives
  (`ReducedTo`), and from the blank on the rest of the line is copied as it stands
  (`Verbatim`; `ReadingRound`, `ReducedLine`). That takes a rest that is plain, has
  no dots, and ends in no slash, and a path that does not end in a dot just before the
  blank. No blank is in the path's part of the result when none is in the working
  directory and in the path (`ReducedSpaceless`), so the first one is where
  `first_word_inplace` cuts (`LineParted`, `RunSplits`). A word is looked for in three places:
  the first is `TargetMeans` again, the other two are a name behind a directory of one
  component (`BinFinds`, `RamFinds`), whole because the name is `Roomy`. Nothing
  changes between the command and its answer, so no stronger invariant than
  `PathsInv` is needed.
* **Shell, what was saved.** A save prefixes its path, takes the prefix off again to
  see whether a bare name is left, and may prefix that with `BIN`. On a whole path
  that gives the components one expects (`SaveView`, `BareName`, `BareRedirects`,
  `SavePlace`). `SavesInv` is inductive where `SavedIsFound` is not: the file a path
  leads to holds a content at least as new as the path's last save, and that of the
  last save of some path that leads there. Two paths lead to one file when their
  components have the same fields, since fields determine directory and name
  (`KeySplits`). What remains is that readers agree: `cat` on the path (`CatFinds`), and
  on a bare name the search for the word (`WordFinds`), which reads `BIN` second, hence
  the condition that the working directory has no file of the name.

Induction over the numbers is done by hand in these proofs: the library's
induction theorems take an operator as parameter, which no installed prover can
instantiate, but a set of counterexamples has a least element (`Minimum`,
`Induct`), and a function defined by recursion unfolds once it is known to exist
(`Recursion`).

Only model-checked, not proved: liveness (`EveryWriteReturns`, `KeysArrive`,
`EveryCallReturns`), which needs ENABLED. Every other property of a passing run is
stated by a theorem.

## 5. Abstractions worth knowing

* In `Fat32Write` a sector is written whole or not at all and a write that
  succeeded is on the medium: what `AtaPio` shows of a call on a drive at rest. One
  that failed may be on the medium or not.
* `Shell` looks names up in a formatted volume's tree; sector reads that fail
  after the mount, the limits on the size of a file, and how a save fails are
  left to `Fat32Write`. `echo`, `help`, `pwd`, `shutdown`, blanks around words
  and the layout of the output are left out.
* `Shell!Prompt` drops what only `disk_setup` knew, so that states differ only in
  what later commands can see.
* 8.3 names, dates and attributes are abstract; a name is equal or not.
* Directories are one cluster long and never grow, as the code never adds a
  cluster to one; paths reach one level below the root.
* After a power loss the machine starts with an idle call and the same disk:
  nothing else of the FAT32 code has state that outlives a call.
* A program in `AppMemory` runs and returns. What its own code does with the
  kernel's memory, which nothing protects, is outside the model.
* Images satisfy `Loadable`: what the linker flags of the makefile produce
  (first address at the start of a page, no page shared by two segments).
  The loader relies on it without a check; see the hazard at `exec.c:243`.
* The RAM disk's write and change-of-directory calls are modelled as the
  interface `vfs.h` offers; the shell uses only lookups and reads today.
* A fault (a null pointer, a store to a read-only page) ends in `hcf` or worse
  and is a state without a successor.

## 6. Plan

Done: the modules above, in the order FAT32 writes, keyboard, memory, console,
RAM disk, ATA driver, disk set-up, paths and shell. Next, in order:

1. `Fat32Write` over directories of several clusters and deeper paths.
2. `Shell` over `Fat32Write`'s failed saves, so that what the prompt finds after one
   is stated too.

## 7. Not modelled, and why

* **Kernel heap.** `grow` (`kmem.c:20`) compares the need with the end of the
  whole heap range, so `kmem_init` maps nothing and the first `kmalloc` would
  fault. Its only caller, `fat32_read_all`, has none.
* **`Exec/mmu.c`**, `fat32_write_all_root`, `vfs_set_cwd`, `vfs_getcwd`, `fb_clear`
  after boot: no caller (`pwd` prints the shell's own directory).
* **Serial port, register programming of the PIC, PIT and APICs, the Limine
  header**: input and output without logic, or third-party declarations.
* **Listings** (`fat32_list_path`, `vfs_list`): change nothing. `Shell` models which
  directory is listed; the lines are a walk over what the models hold.
* **Calling convention and stack of a program**: below the models' level.
* **`disk_init_and_mount`**, the root-directory functions of `fat32.c`: no caller.
* **`ata_init`**: one register write that masks the drive's interrupt.

## 8. Running

    tlc -workers 2 -config Fat32Saves.cfg MCFat32Write.tla
    tlapm Fat32WriteProofs.tla

`PROJECT.json` lists each run with its module and configuration. No run takes
more than three minutes on two workers.
