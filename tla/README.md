# sd2iec_esp32: a verification project in TLA+

sd2iec turns a microcontroller into a Commodore disk drive: a computer talks to
it over the serial bus (IEC), opens files on numbered channels, sends commands,
and the firmware serves them from a FAT card, a POSIX file system (the ESP32
port) or a disk image (D64, D71, D81, DNP). All paths below are relative to
`src/components/sd2iec/src`.

The modules here are translated from that C code. TLC checks them on small
instances; TLAPS proves the theorems for every value of the constants.

## 1. Inventory

The firmware is one task: `main.c` initialises and calls `bus_mainloop`
(`iec.c`), which never returns. Concurrency comes from outside: the computer
drives the bus lines at its own pace, an interrupt answers the ATN line while
the task does something else, and timer ticks read the buttons. Everything else
is a call from the main loop, so the order of *handlers* is chosen by the
computer and the order *inside* a handler is the program's.

| Component | State it keeps | Operations | What makes it correct |
|---|---|---|---|
| Buffer pool (`buffers.c`, `led.c`) | `buffers[]`, the byte `active_buffers` (two counters), two LEDs | allocate one / a system one / n adjacent ones, stick, mark dirty/clean, free one, sweep | counters and LEDs agree with the buffers; a sweep stores what it drops |
| Channels (`fileops.c`, part of `doscmd.c`) | which buffer answers to which secondary address, the chains of `##n` | open, refill, close, B-P, I, UJ, C | one buffer per channel; a chain is freed whole; nothing leaks or is collected while open |
| Serial bus (`iec.c`, `esp32/iec-bus.*`, ATN interrupt) | `bus_state`, `device_state`, flags, `secondary_address`, `command_buffer`, the lines | the states of `iec_mainloop`, listen and talk handlers, byte transfer | a name or command sent is executed once, on the channel it was sent to; bytes go through in order; both sides always get on |
| Command interpreter (`doscmd.c`, `parser.c`) | current partition and directories, `globalflags`, captured loader code | the DOS commands | every command gets its whole answer; a partition is always somewhere that exists; a fast loader runs only for the program it was written for |
| D64 driver (`d64ops.c`) | two BAM windows, reference count, image geometry | mount, unmount, allocate and free sectors, directory, read, write, format | no sector belongs to two files; the BAM on the image is the BAM in the window |
| FAT driver (`fatops.c`) and POSIX driver (`vfsops.c`) | file handle and pointer per buffer | open, read, write, append, REL records, seek, close, delete, rename, directories, image access | a channel behaves as a file; a file is found under the name it was given |
| FAT file system (`ff.c`, vendored but patched) | one sector window, free count and search start, a file's chain position | open, read, write, seek, close, unlink, rename, mkdir | files keep their contents, every cluster has one owner or is free, a power cut harms one file at most |
| EEPROM file system (`eeprom-fs.c`, `eefs-ops.c`) | directory and sectors in the EEPROM, two bitmaps in RAM | init, format, open, read, write, close, rename, delete | the bitmaps are the directory's; no sector is in two files, after a power cut too |
| M2I driver (`m2iops.c`) | index file on FAT | open, delete, rename, directory | entry and file agree |
| Swap lists (`diskchange.c`) | list file, line number | next, previous, home | some disk of the list is mounted |
| Fast loaders (`fastloader.c`, `fl-*.c`, `esp32/llfl-*.c`) | the loop's buffers, the job, the link bytes sent to the computer | one transfer loop each | the computer has the whole file or is told that it has not; a sector is that of the disk it asked |
| Error channel (`errormsg.c`) | `current_error`, text buffer | set_error, the status refill | the last result is read once |
| Buttons and ticks (`timer.c`) | `active_keys`, debounce time | tick, key | one key press is one event |
| Configuration (`esp32/nvs-conf.c`, `eeprom-conf.c`) | one block with a checksum | read, write | after a power failure the drive starts with settings that were stored, or with the defaults |
| Clocks (`rtc.c`, `ds1307-3231.c`, `pcf8583.c`, `lpc17xx/rtc_lpc17xx.c`, `avr/softrtc.c`) | the chip's registers, `current_rtc`, `rtc_state` | read, set, T-R, T-W, time stamps | the time told is the time set plus what has passed |
| Remote display (`display.c`) | `menustate` | menu: directory, store, address | part of the configuration's story |
| x00 name cache (`p00cache.c`) | names by cluster for one partition | invalidate, lookup, add | a hit is the right name |
| IEEE-488 bus (`ieee.c`), SD card, SPI flash (`esp32/espfs.c`), AVR and LPC ports | registers | drivers | pure I/O |

How they interact: the bus calls `file_open` or `parse_doscommand` from
`BUS_CLEANUP`; these allocate a buffer, ask the driver of the partition (a table
of function pointers, `wrapops.h`) to fill it in, and the driver leaves its
`refill`, `cleanup` and `seek` callbacks in the buffer. The bus handlers then
move bytes between the lines and the buffer and call `refill` when a block is
full or empty. `BUS_CLEANUP` ends with a sweep over every buffer that is not
marked sticky. The D64 driver sits on top of FAT or POSIX through
`image_read`/`image_write`.

What is hard: the computer may raise ATN between any two steps; names and
commands are executed later than they are received; a refill may fail after a
byte has been acknowledged; buffers are freed by sweeps that do not know their
owners; static pointers (BAM buffers) outlive the images they belong to; a
handler that fails half way leaves what it has done.

## 2. The modules and the plan

| Module | Extends / refines | Models |
|---|---|---|
| `Buffers` | - | `buffers.c`, `led.c`: operators on the pool, no state of its own |
| `Channels` | `Buffers` | everything that takes, moves or gives back a buffer |
| `Iec` | refines `CommandService` | the bus: main loop, handlers, ATN interrupt, computer |
| `CommandService` | - | what the bus promises about commands |
| `EepromFs` | refines `FileStore` | `eeprom-fs.c` with `eefs-ops.c`, power failures |
| `FileStore` | - | what a file system promises |
| `D64Files` | - | `d64ops.c`: BAM windows, sector search, directory, files in an image, failing accesses |
| `FileChannel` | - | one file on a channel over `fatops.c` and over `vfsops.c`: sequential, append, REL, seek, replace |
| `HostNames` | - | names of files on a PC file system, X00 files, `p00cache.c` |
| `FatVolume` | - | `ff.c`: table, directories, long names, the sector window, power cuts |
| `Loaders` | - | `fl-*.c`: the fast loaders' transfers |
| `Navigator` | - | partitions, directories, mounted images, swap lists (`diskchange.c`) |
| `ErrorChannel` | - | `errormsg.c`, reading the answers |
| `Clock`, `Settings`, `Uploads` | `ErrorChannel` | the clocks; the stored settings; captured loader code |
| `DosCommands` | `Clock`, `Settings`, `Uploads` | their composition: the dispatch of commands, one error channel, power |
| `MCChannels`, ... | the module they check | bounds and symmetry, one for each run's module |
| `ChannelProofs`, `ChannelTheorems` | `Channels`, TLAPS | the proofs about buffers and channels (section 14) |
| `IecProofs` | `Iec`, TLAPS | the proofs about the bus |
| `CommandProofs` | `DosCommands`, TLAPS | the proofs about answers, settings, captured programs and the time that is told |
| `NavigatorProofs` | `Navigator`, TLAPS | the proofs about directories, images and swap lists |
| `LoaderProofs` | `Loaders`, TLAPS | the proofs about fast loaders |
| `EepromTheorems`, `EepromContents` | `EepromFs`, TLAPS | the proofs about the EEPROM file system |

The modules meet where the program's parts do, and each leaves to the next what
that one has: `Iec` delivers a command and takes a channel for a number of bytes;
`Channels` follows every command and every transfer as far as buffers are
concerned; `Navigator` decides what a name is looked up in; `HostNames` finds the
file; `FileChannel` moves its bytes between the buffer and the calls of the file
system; `FatVolume`, `D64Files` and `EepromFs` are the three file systems under
these calls; `DosCommands` is what the other commands do; `Loaders` takes the
place of `Iec` while a fast loader runs. They are composed where the composition
has behaviours of its own: the commands that share the error channel and the
power switch are one state machine, `DosCommands`. A product of the others would
multiply their states and show the same behaviours.

In most modules a handler is an operator on a record that holds what it works on,
so that a sequence of calls in the code is a sequence of bindings, and an action
is one handler of the program to its end. Where time passes inside a handler
(the bus, the EEPROM's writes, the sector writes of FAT, the blocks of a loader,
the fields of the settings) the pieces are states.

`TypeOK` is a conjunct of each module's main invariant.

What is left, in the order of its value:

1. proofs of `BamTrue` and `ReadsBack` of `D64Files`;
2. proofs about the modules whose RECURSIVE operators would have to become recursive
   functions first: `FatVolume`, `FileChannel`, `HostNames`;
3. the M2I driver; the contents of copies; buttons and ticks.

## 3. `Buffers` and `Channels`

A pool is a record: one record for each buffer (allocated, sticky, dirty,
secondary address, what it is used for, where its chain continues), the counts
of `active_buffers`, the LEDs. Every function of `buffers.c` is an operator from
pool to pool. `Channels` has the pool, the two static BAM pointers with their
reference count, and the images mounted. One action is one handler of the
program to its end, including the sweep (`Collect`) with which `BUS_CLEANUP`
ends every command. The medium succeeds or fails by choice.

`MCChannels.cfg`: two channels, four buffers, two partitions, chains of one and
three. With four buffers a chain of three and one file exhaust the pool, and
BAM buffers compete with both, so every failing allocation is met.

* `Accounting`: both counters and the LEDs are those of the buffers.
* `ChannelUnique`: one buffer answers to a channel.
* `ChainIntact`: a chain is whole, and can be freed from any member.
* `BamBuffersOwned`: the static pointers name the BAM buffers, the reference
  count is the number of mounted images.
* `NothingUnsticky`: no buffer that the next sweep would take is in use.
* `OneChannelTouched`: a step changes the buffers of one channel at most, unless
  it closes all.

The code differs from what it says in two places. `d64_unmount` frees the BAM
buffers when `--bam_refcount` is *not* zero (`d64ops.c:1891`), so with two images
mounted the one that stays has none until its next access. `free_multiple_buffers`
says that it calls the cleanups it frees (`buffers.c:230`), but
`res = res || buf->cleanup(buf)` (`buffers.c:246`) skips them after the first that
failed: the files after it are not stored.

## 4. `Iec`

The drive's state is that of `iec.c`: `bus_state`, `device_state`, the last byte
under ATN, `secondary_address`, `command_buffer`, the flags, whether the ATN
interrupt is enabled, and whether the drive pulls DATA and CLOCK. `LISTENING`
and `TALKING` are the two handlers, `CLOSING`, `RELEASE` and `EXECUTE` the places
in `BUS_ATNACTIVE` and `BUS_CLEANUP` where time passes. A channel is a mode and a
number of bytes; `Channels` has the rest.

The computer works through a script, one for each of its statements (OPEN,
PRINT#, INPUT#, CLOSE, and a transfer with another device). It reacts as the
KERNAL does: no DATA under ATN is "device not present", a drive that does not
listen or talk ends the statement with its last ATN sequence.

A byte passes in one step of both sides. Two constants say what the computer may
do: with `Prompt` it does not raise ATN in the few microseconds that the drive
spends in `BUS_ATNPROCESS` and in the first lines of `BUS_CLEANUP`; with
`CanBreak` it may stop in the middle of a statement (RUN/STOP and RESTORE), which
releases ATN and tells the drive nothing.

Fairness: the main loop never blocks except on the computer (`WF(Drive)`), a
computer in a statement goes on (`WF(Computer)`), and a byte that both are ready
for passes (`WF(Transfer)`). No fairness for starting a statement, the keys and
the break.

`MCIec.cfg`: channels 2 and 15, commands shorter and longer than the buffer,
files of two bytes, a computer that does not break off.

* `Serves`: `Iec` implements `CommandService` with `pending <- asked`: a command
  or name taken is carried out once, as it was sent (up to the size of the
  buffer) and on its channel, before the next is taken, and it is carried out
  eventually.
* `AnswersAfterCommand`: the drive does not talk while a command is pending.
* `LinesAsExpected`: the type, and that ATN during a command finds DATA pulled by
  the interrupt, that no line is left pulled after a statement, and that CLOCK is
  free when the computer is to send.
* `OperationsEnd`: every statement ends.

`MCIec_Break.cfg` checks with breaks that the next statement still ends. Each
constant that restricts the computer keeps a divergence out: with a break, a name
broken off becomes the beginning of the next one, because `command_length` is
reset only after a command was carried out (`iec.c:792`); and without `Prompt` an
acknowledge that the interrupt gives between `BUS_ATNPROCESS` and the release of
the lines (`iec.c:761`) is undone, and the computer finds no device.

## 5. `EepromFs`

`dir` and `sectors` are the EEPROM, `used_sectors`, `used_entries` and
`free_sectors` the RAM, `fh` a handle for each channel. An operation runs to its
end before the next starts (there is one task), but its writes reach the EEPROM
one after the other: `queue` holds those still to come, and `busy` the loop of
`eepromfs_write`, `_read` or `_delete` that is under way. `PowerFails` may happen
between any two of these steps, or inside the first write of the queue (`Tear`); it
loses the queue, the handles and the RAM, and the drive starts with `eepromfs_init`.

Nobody reads the EEPROM while `write_entry` (`eeprom-fs.c:127`) runs, so without a
power failure an entry is written in one step (`Flush`). With one, `Torn` is what may
be left of it: the bytes that differ are written in their order, the sectors first,
then the name, the length with its low byte first, the flags, the link. Of data, a
first part may be there. Half a name is taken to be no name that is used; of an entry
whose flags say that it is free only the link outlasts its next use (`Remnant`).

A byte is a record of the file and the place it was written for, so that any mix
up is visible; a sector that no entry lists is blank. The refinement maps
the directory to a function from names to contents. `Stores` then says: a file is
listed empty when it is created, gets all its contents in the one step that
writes its length, vanishes in one step, and what happens to other files does not
change it. A power failure (`FileStore!PowerFails`) leaves every file as it is, but
one: a file that is being closed may be left with a first part of its contents,
because its length may be half new. An append from 0x00F0 to 0x0110 bytes that is cut
there leaves 0x0010, less than the file had before; `FileStore` allows that too.

`MCEepromFs.cfg`: two names, two channels, three entries, three sectors of two
bytes, two sectors in an entry, blocks of three bytes and a rest of one, one
power failure, lengths of which one bit is the low byte. Blocks end in the middle of
sectors, a file of three sectors needs a second entry, and both the disk and the
directory fill up. Channels and names are symmetric. The power may fail before any
write and inside any (`AnyTear = TRUE`); after that one file is open at a time
(`OpenAfterCut = 1`). What the failure left behind meets one writer there, and two
writers meet each other before it; the theorems have no such bound.

A failure inside the write that erases an entry or gives it a new name can leave
the name in the directory over a list of sectors with gaps, or no name at all. The file
that was being removed or renamed is then damaged, and `FileStore` promises nothing
of it. What is checked is that this costs no other file: `Stores` says it of contents,
`NothingShared` of sectors, because `eepromfs_init` counts every sector that is listed,
also behind a gap. `eepromfs_delete` stops at a gap, so the sectors behind it stay
marked until the drive is switched on again; `Bookkeeping` therefore says after a
failure only that the sectors of files are marked. Reading such a file may fail
the assertion at `eeprom-fs.c:604`.

* `Bookkeeping`: the bitmaps and the free count in RAM are those of the directory,
  and a handle points where its file's entries end.
* `NothingShared`: no sector is in two lists, no list entry in two files.
* `ReadsOn`: what a handle reads is the file, in order.
* `Stores`: `EepromFs` implements `FileStore`.

Two constants keep known defects out of the run: with `AnyAppend`, append finds
the right place only when the last entry has one sector (`eeprom-fs.c:455`); with
`AnyCut`, the power may fail between a link and the entry it leads to
(`eeprom-fs.c:514`), after which two files share entries and an assertion in
`eepromfs_read` fails (`ReadAsserts`). And the entries of deleted files are not
found again before a restart (`EmptyEntryFound`, `eeprom-fs.c:693`).

Assumed: the computer deletes, renames and appends to closed files; half a name is
no file's; a format is one step (`eepromfs_format` writes four bytes at a time, and
one that is cut off leaves some files and not others).

## 6. `D64Files`

The image is a function from sectors to what the code reads back from them (link,
directory entries, BAM bits and counters, or the name and number of a block); the
two BAM windows hold the identity and contents of a BAM sector and whether they
are dirty. Every function of `d64ops.c` that reaches the image is an operator on
a record `d`, and `d.io` counts down to the access that fails. The search for a
free sector, with its interleave, its direction and its tries, is the code's, on
small images of the 1541, 1571, 1581 and DNP geometry.

`MCD64Files.cfg`: two names (symmetric), files of up to two blocks, one directory
entry in a sector, so that files compete for sectors, the directory grows and
both fill up; one access among the first eight of a handler fails, on the 1541
image, and only for accesses to blocks of data.

* `BamTrue`: counters and bits agree though they may lie in different sectors and
  windows; what a file or directory has is not free, whatever failed; and nothing
  is lost while nothing failed.
* `ReadsBack`: a closed file reads back by `d64_read` as it was written.
* `FullMeansFull`: "disk full" is said of a disk that is full.

Assumed, because the code does otherwise: failing deletions are not repeated and
files that were never closed are not deleted (`d64_delete` frees what it has
reached and leaves the entry); a file whose append failed is not counted on; a 1571
image is formatted with an ID (`QuickFormatD71`: the quick format leaves wrong
counters); the computer stops when a DNP image is full (`WritesOn`:
`get_next_sector` gives up after its tries and takes the wrapped counter for
success, `d64ops.c:957`, or never ends). Seen while modelling and left out by the
choice of the failing accesses: a BAM sector that could not be written is marked
clean (`d64ops.c:439`) and `d64_bam_commit` always reports success; a BAM read
that fails leaves the window with the new identity (`d64ops.c:613`); an error map
is cached across images; a directory sector is linked before it is allocated
(`d64ops.c:1165`).

## 7. `FileChannel`

One file of a PC file system and one channel. `fatops.c` and `vfsops.c` are the
same code twice, so `driver` selects where they differ. The buffer (`position`,
`lastused`, `mustflush`, `dirty`, `fptr`, `recordlen`, ...) is a record, a handler an
operator, and one call of the file system below may fail in each handler, a write
also by running out of space.
`text` is what the computer sent, a sequence of bytes or of records.

`MCFileChannel.cfg`: blocks of three bytes (so that records of two straddle them
and records of three fill them), headers of two for X00 files, a medium of nine
bytes, texts of up to four bytes or records. `Wrap` is the width of `fptr`.

* `StoredAsSent`: a closed file holds what was sent, gaps and ends of records
  filled; what a full medium cut off is missing at the end only.
* `HearsFile`: the computer reads what was sent, from where it positioned to, up to
  a last byte that is the last.

`MCFileChannel_Replace.cfg` expects a violation of `ReplaceSaves`: over
`vfsops.c`, `@0:NAME` deletes the old file and does not open the new one, and the
computer is told that all is well. `vfs_delete` returns 255 after a success
(`vfsops.c:1063`), which `file_open` takes for a failure.

`Uses` keeps other defects of `vfsops.c` out of the passing run: relative files
(reading does not move the position a write goes back to, `vfsops.c:416`, the
header is not skipped), append (it positions a handle that is assigned only
afterwards, `vfsops.c:781`) and the filling of gaps (`vfsops.c:538`). And of both
drivers: positions behind the end of a record are clamped onto its last byte
(`fatops.c:527`, the comment at 495 says otherwise); a record of zeros only is
read as one zero; a record length other than the file's underflows the size of a
gap (`fatops.c:470`); seeking on a channel open for writing frees its buffer
without closing the file, and seeking to the end leaves reading off. The comment
at `fatops.c:733` promises a CR in an empty file, which is only what reading it
gives. So: a relative file is reopened with its own length or none, records fit
in the buffer, bytes of records are not zero, `seek` is used on channels that
read, and not behind the end.

## 8. `HostNames`

A name is a stem and suffixes (`.PRG`, `.P00`, an image's); of a stem the model
knows whether it is valid on the host, what is left when it is made valid, and
which others it equals when case does not matter. A directory is a set of slots
with a name, a cluster and the internal name of an X00 file. `build_name`,
`readdir`, the search, the cache and the scanning commands are operators over it;
saving, loading, listing, scratching, renaming, replacing, changing the mode (XE)
and the card are actions.

`MCHostNames.cfg`: two partitions, of which one is written, two slots and two
clusters, a cache of one name (so that it is always either the right one or
evicted), names valid and not, in two cases. A deleted file's cluster is used
again by the next.

* `NameCacheTrue`: a name the cache answers with is that file's.
* `FoundAsNamed`: a saved or renamed file is found under its name and type, and no
  other has that name.
* `ScratchesWhatMatches`: a scratch deletes what matches, and only that.

Left out by `AnyRename` and the choice of names, patterns and settings: renaming a
file whose type is in its suffix, in modes 0 and 1 or to an invalid name, loses
the type or makes an X00 file without a header; over `vfsops.c` such a rename
forgets the path, the cache's keys are not unique, so that only mode 3 with valid
names is checked, and a scratch ends after its first file (`vfs_delete` again);
`XE` with a number over 4 answers OK (`doscmd.c:1931-1938`). Assumed: the computer
does not delete or rename a file, and nobody changes the card, while one is being
written.

## 9. `FatVolume`

`ff.c` as `fatops.c` calls it, for FAT16 and FAT32: the disk as a sequence of
sectors, the one window `win` that table, directories and all files share, the
second copy of the table, the free count with its sector on FAT32, directory
entries with their long-name slots, and a file handle for a reader and one for a
writer. A call is an operator on a volume `v`; `log` is every disk
there was between two writes of the call, so that the properties speak
of a power cut at each of them without another action.

`MCFatVolume.cfg`: four clusters of two sectors of three units, a root directory of
one sector (FAT16) or a chain (FAT32), a short name and one that needs slots, so
that entries cross sectors and clusters, files end at the boundaries, and disk and
directory fill up.

* `ReadsBack`: a closed file is listed and reads back, whatever the window held in
  between, also after a power cut during a call about another file.
* `ClustersAccounted`: chains do not meet, a chain is as long as its file needs,
  every other cluster is free, and the free count is right.
* `FullMeansFull`: a call that says the medium is full wanted a cluster when none was
  free, or entries for a name when the root directory of a FAT16 volume had not as
  many free ones in a row. `denied` keeps what was wanted.

What the runs assume, because the code fails otherwise: after a write was cut
short by a full disk the file is closed (else `csect` wraps from 0 to 255 and the
next write goes to `curr_sect + 1`, `ff.c:1636`; a swap list, a new REL header
or an M2I file would do that); nobody seeks in an empty file on a full disk
(`f_lseek` uses `curr_clust` before it is set). Seen and not pursued: `f_rename`
of the last entry reports an error after it renamed, and after a power cut a rename
across two sectors leaves two names on one chain; slots without an entry stay
behind, and `trace_path` does not check their sum; the free count on the disk is
stale after a power cut; and when the card is changed while the window is dirty,
`check_fs` writes it onto the new card (`ff.c:856`). Also assumed: an open file is not deleted, opened
again or overwritten; the card is taken out with all files closed; no disk errors.

## 10. `Loaders`

While a fast loader runs, its loop takes the place of the main loop. Twelve
loaders send files, four store them, seven move sectors. The state is the loop's
place, its buffers, what it sent (bytes and marks, per protocol) and what the
computer makes of it (`Hears`, external). The user may press a key at any time:
the swap list mounts the other disk and takes the buffers of files away.

`MCLoaders.cfg`: blocks of two bytes and files of one to five, of ordinary bytes
and of the byte that some protocols escape; two disks of two sectors; one block may
fail.

* `WholeOrTold`: the computer has the file, or its beginning and the knowledge that
  this is not all.
* `SavedAsSent`: what is stored is what was sent.
* `SectorsAsTold`: a sector read or written is that of the disk that was in the
  drive when it was asked for, or the computer is told (`ToldTrue`); Dreamload does
  every job (`JobsDone`); nothing gets on a disk that was not sent, and the links
  of its sectors stay (`OnDisks`).
* `BuffersKept`: a loop's buffers stay its own.

`Tells`, `KeysInSave`, `LeavesInWrite` and `FastComputer` keep out: loaders whose
protocol cannot tell a read error (AR6, N0SDOS, Dreamload, Nippon, one of GEOS:
they send the end mark or old bytes all the same); a key during a save of Sam's
Journey, which frees its buffer (against `BuffersKept`); ATN or the sleep key between the command and the
data of a GEOS write, which then writes the old buffer, and a second Dreamload job
while `fl_track = 0xff` is on its way (both against `SectorsAsTold`). Read while modelling: AR6 saves never end on
D81 and D64 images and lose the last byte's position on FAT; N0SDOS goes on with a
freed buffer; Turbodisk reads behind the buffer for files of less than two bytes,
FC3 behind its end; `save_fc3` and Sam's ignore failing refills;
Uload3 leaks a buffer for each failing read; `mount_line` clears the error a
sector read left, never frees its own buffer, and fills `command_buffer` while a
name may be arriving there; and it loops for ever on a list without entries.

## 11. `Navigator`

Partitions with a current directory and perhaps an image with its own, the
computer's CD, CP, MD, RD and XS, and the swap list with its buttons: the
path parser, the drivers' `chdir` and the mounting are operators on a partition.
The directories are a tree that MD and RD change.

`MCNavigator.cfg`: two partitions, a tree of depth one with directories, images of
two types, and files, all forms of paths that differ for the parser, lists of two
entries with comments and line numbers up to three.

* `ListedDisk`: the buttons go round the list one by one, whatever happened between.
* `FilesOfMounted`: no channel is left open on an image that is not mounted.
* `DirsExist`: every current directory exists, and so do the directory a mounted image
  is in and the one a swap list starts from.

All three are proved for every tree, set of images and lists (section 14).

Assumed: CD names no plain file inside a DNP image (the code enters it,
`doscmd.c:588-592`, `d64ops.c:1726`; on FAT it reports success, as here); RD names a
partition that there is (its number is not checked); lists, and the directories a list is made of, have
between 1 and 254 entries, that is, fewer than `LastLine`. The code has no such limit: a
`linenum` of 255 is taken for "the last entry" (`diskchange.c:135`) also when the
keys have counted up to it, and `effective_line`, a byte, wraps. After a card error `filesystem_init` sets every driver back, but leaves
channels open on images that are gone: such files are marked broken and
`FilesOfMounted` does not speak of them.

## 12. `DosCommands`: `ErrorChannel`, `Clock`, `Settings`, `Uploads`

Commands with an answer or a lasting result. `DosCommands` dispatches them, shares
the error buffer and the power between them, and lets the computer stop reading
an answer at any byte. A computer uses one group of commands in a behaviour
(`Groups`), since they have nothing else in common; `M-R` and `G-P`, which fill
the error buffer in their own ways, are in the group of programs.

* `AnswersWhole` (`ErrorChannel`): what is read up to EOI is the whole answer to the
  last command, then "00, OK".
* `TimeTold` (`Clock`): T-R tells, in each form, the time set by T-W in any form plus
  the time that passed; files are stamped with it; a clock that was not set, lost its
  battery or was cut off while it was set says so. The chips are modelled by their
  registers: BCD, twelve hours, the PCF8583's two bits of year, the LPC's registers
  that go on while they are read, the soft clock's calendar.
* `ConfigWhole` (`Settings`): after a power failure, also in the middle of a store, the
  settings are a stored set or the defaults; after a complete store, the stored ones,
  with the stored address if the jumpers are those it was stored with. That is what
  `components/sd2iec/README` says of `XW` (399-403): "sd2iec will power up with that
  address unless you have changed the device address jumpers". On the ESP32 the code
  does not do it: `read_configuration` takes the stored address of the jumpers
  (`nvs-conf.c:128`) and never reads the one set by software. The property is
  therefore about all settings but the address there. The documented behaviour of
  both builds is `AddressKept`; TLC finds it violated when it is put in place of
  `ConfigWhole` in `MCDosCommands.cfg`, by a store and a power-up on the ESP32.
* `RunsWhatWasUploaded` (`Uploads`): a handler runs only for the program that is in
  memory, with its bytes captured, also the second time.

`MCDosCommands.cfg`: the turns of a year, a leap February and a century, of noon and
midnight; six builds with one or two clocks; two addresses, two names; two changes
and two stores before a power failure; seven programs that cover every form of
detection (known sum, unknown, captured, told apart by a part of the code).

Limits of `Clock`, at which the code is wrong: DS chips come back from before 2000
a century late; the soft clock is not set in January (`mktime` counts months in an
unsigned byte) and not read on 29 February or in 2000 from March on; the ISO form
is used for days up to 2047 (`day_of_week` counts in a byte, `doscmd.c:1681-1685`);
the PCF8583 is read once in four years at least, and power does not fail while
it is set. With several clocks built in, the soft clock is never picked as the
last resort. No I2C failures.

Limits of `Settings`: a mixture of two stores with the same sum of bytes is
accepted (the sum is eight bits, added). On the ESP32 NEXT does not skip the stored
settings (`nvs-conf.c:100`). `XD` compares a drive with
itself for duplicates and leaves only its inner loop, and answers OK to values it
ignores. Two of eight drives, and the ROM's name by its sum.

Limits of `Uploads`: the computer uploads a program in blocks without gaps and then
starts it, at one of its entries (an upload that is given up leaves the sum and the
capture behind); the buffer of the capture is not swept away before it is full, as
`FMB_ALL` does it (`iec.c:773`); there is a free buffer for the capture (else `capture_fl_data`
copies to NULL, `doscmd.c:1337-1357`). `UC` to `UH` compute an address other than
that of their table, `M-R` looks at the table of magic bytes only when a ROM file
is named.

## 13. The runs

| Run | Expected | Question |
|---|---|---|
| `channels` | pass | is the buffer pool kept right by every sequence of handlers? |
| `iec` | pass | is every command carried out once, in order, and does every statement end? |
| `iec_break` | pass | can the computer go on after breaking off? |
| `eeprom` | pass | does the EEPROM file system store files, also across power failures between and inside its writes? |
| `d64` | pass | do files, directories and BAM of an image agree, also when accesses fail? |
| `filechannel` | pass | is what is read what was written, and is it stored? |
| `vfs_replace` | violation | does replacing a file open the new one or tell? |
| `names` | pass | do names lead to the files they were given to? |
| `fat` | pass | does FatFs keep files and clusters, also across a power cut? |
| `loaders` | pass | does a computer with a fast loader get its files and sectors? |
| `navigator` | pass | are directories, images and swap lists where they should be? |
| `commands` | pass | are answers, clocks, settings and captured programs right? |

Bounds are named in the modules and set in the .cfg files. They are chosen so
that everything that can run out does (buffers, sectors, entries, clusters, a
name cache, the text of a command), blocks and records do not divide
each other, and there is one more of everything than a single actor needs: two
files, two disks, two partitions. Deadlock is checked in `iec`, `iec_break`,
`eeprom` and `channels`, where something can always happen; elsewhere the bounds
stop the computer, or a drive that hangs (`D64Files`) stops itself.

Fairness is assumed in `Iec` only (section 4). The other modules state safety; each
of their actions is a handler that runs to its end.

## 14. What is proved

The theorems hold for every value of the constants that the named assumptions
allow; TLC evaluates these assumptions in the runs. The inductive invariants of the
channels, the bus, the EEPROM, the clocks and the loaders were checked by TLC on small instances before
they were proved.

### Buffers and channels

`ChannelTheorems` proves for every size of the pool (1 to 15, the four bits of its
counters), every set of channels and partitions and every length of chain that
`Channels` keeps `TypeOK`, `Accounting`, `ChannelUnique`, `ChainIntact`,
`BamBuffersOwned` and `NothingUnsticky`. None of them is inductive: the counters
are exact only if chains do not overlap and every buffer of a chain carries the
channel's number, and a sweep is harmless only if what is in use is sticky. The
inductive invariant `IInv` says that the pool is well formed (`WF`: chains, owners,
BAM pointers), that nothing in use can be swept (`Tidy`), and that the counters are
exact (`Counted`). `ChannelProofs` has the lemmas about the operators of `Buffers` (what
allocating, marking and freeing a set of buffers does to the counts, using the
cardinality theorems) and one for each pattern in which the actions use them (settle,
replace, free a chain, sweep), `ChannelTheorems` one step for each action. The second half of
`ChannelTheorems` proves from the same invariant the action
property `OneChannelTouched`: it follows each handler through its calls and
collects the channels whose buffers they may change.

### The bus

`IecProofs` proves `LinesAsExpected`, `AnswersAfterCommand`, and, as `TakenAreServed`, the safety part of the refinement
`Serves`: the initial state is one of `CommandService`, and every step is one of its
steps or leaves its variables alone. The hypotheses are those of the run `iec`:
`~CanBreak` for all of them, `Prompt` for the lines. They are the two places where the code does not do
what is claimed (`iec.c:792`, `iec.c:761`, section 4); all the rest of the
computer's freedom is in the theorems: any script, any names and channels, any
size of the buffer. The inductive invariant relates the two programs: for each
state of the drive, where in its statement the computer can be, what it has sent
of the name or command, and how much of this is in the buffer. `NoneAssumption` says
that `None` is no channel and no command.

### Commands

`CommandProofs` proves `AnswersWhole`, `ConfigWhole` and `RunsWhatWasUploaded` of the
composition `DosCommands`, thus for every order of commands of all groups.

* `AnswersWhole`: the buffer and its position always hold the part not yet read of
  the last result.
* `ConfigWhole`: each field in the store is of the old or of the new settings while a
  store is under way, and the checksum tells a mixture from both. That a mixture may
  have the same sum is the exception in the property (section 12). Of the ESP32's
  flash, all settings but the address are proved to be the stored ones.
* `RunsWhatWasUploaded`: the sum and the capture that the drive keeps are those of the
  blocks uploaded so far. `UploadAssumption`: a block is 1 to 256 bytes, no program is
  empty, and the block by which a known program is detected is found nowhere else.
  `TablesAssumption`: what is captured, and the entries a program is started at, go with
  the loader's type, as `fl_handler_table` and `fl_capture_table` have them; what is
  captured begins in the block that is detected and is part of the program.
  `NothingAssumption`: `Nothing` is none of the records.

### The EEPROM file system

`EepromTheorems` proves `Bookkeeping` and `NothingShared` for every number and size
of entries, sectors and blocks, and every number of power failures, under
`~AnyAppend`, `~AnyCut` and `~AnyTear`: append is used where it finds its place
(`eeprom-fs.c:455`), and the power fails neither between a link and the
entry it leads to (`eeprom-fs.c:514`) nor inside the write that erases or renames an
entry; section 5 says what the code does otherwise. A failure inside the write of data,
of a new entry, of a sector, a link or a length is part of the theorems. `EepromTheorems` has what each change of an entry does to a directory, and
one lemma for each action.

Neither is inductive: that a sector is free to be handed out follows from the bitmap,
which agrees with the directory only after the writes that are still queued. The
invariant `IInv` therefore speaks of two directories: `dir`, which is sound after every
write but the one between a link and its entry (`Linking`), and `d`, to which the
queue leads (`Leads`). Of `d` it says (`Good`) that its files are chains (`Files`: there are
functions `own`, `rank` and `pos` that give for each entry the file it belongs to, its
place in the chain, and the number of sectors before it), that the bitmaps count it
(`Counted`), that each handle is at a place of its file that its offset says (`Handled`), and that
the operation under way is on a file of it (`Job`). The functions are not kept
anywhere in the program: the theorem says that they exist, and each action's lemma gives
the new ones. They are needed because `next` alone does not say that a chain ends
and that two do not meet.

`TInv` is what a write that is cut short leans on: `Ordered` says which forms the first
write of the queue has (one that makes, erases or renames an entry, one that adds a
sector or a link, or a length), and `Growing` that a file is no shorter on its channel
than in its entry. `ExtendedWhole` shows that an added sector or link is one byte, so
that nothing is left between old and new; `LengthHalf` that a length half new is at most
the new one; `LengthLeft` that a file of such a length is well formed. `CutLeaves` then
says that a power failure finds a sound directory.

`Chain` of `EepromFs` is a recursive function. That it follows the links is proved
by least counterexample (lemma `Least`, from the well-foundedness of < on the naturals).

`EepromContents` proves `ReadsOn` under the same hypotheses: the byte a channel
is to read next is the byte of its file at the channel's offset. It is a statement
about the whole way of a byte, through the channel, the queued writes, the sectors and the chain,
and the invariant `CInv` (theorem `ContentsKept`) follows it. `CInv` says that

* each entry with a name has one that is known to `sent`, and no two the same one;
* the sectors that no entry lists are blank, which is how the model forgets what they
  held;
* what was sent for a file is what its sectors hold, as far as its directory entry says,
  once the data that is still queued is written;
* the queue has one of eight forms (`NewDue`, `SizeDue`, `DataDue`, `SectorDue`, `LinkDue`,
  `ListDue`, `NameDue`, `EraseDue`), each the rest of one operation's writes, so that a
  power failure in any of them leaves a file whose length is not more than its bytes;
* a file that is closed has the length that was sent.

`IInv /\ CInv => ReadsOn` is then the arithmetic of sectors and bytes (`ContentsAre`:
where byte `n` of a file is). `AlikeContents` is the lemma most steps use: a file's
contents stay when its chain and the bytes up to its length do.

`FilesStored` proves the refinement `Stores` from both invariants, under the same
hypotheses: every step of `EepromFs`, each queued write by itself included, is a
step of `FileStore` or changes nothing that can be seen of a file. A file is seen when the write
of its new entry arrives (`Appear`), gets its contents in the write of its length
(`Store`), its new name in the write of its name (`Rename`), and is gone when its first entry is
erased (`Remove`); the writes of data, sectors, lists and links before that lie behind the
length in the entry, and those of the later entries are of no file any more. This is
the order in which `eepromfs_write`, `eepromfs_close` and `eepromfs_delete` write,
and the reason why a power failure before a write leaves a store with whole files.
Inside a write it is `DataAlone` and `DataHidden` (data that is cut short is behind the
length as well) and `LengthCut` (the file that is being closed has a first part of what
was sent, the others what they had).

### Clocks

`CommandProofs` also proves `TimeTold` of the composition `DosCommands`, for every set of clocks built in
and fitted, every date and time at which a run begins, every span that passes at
once and every order of commands and power failures.

* The calendar: `Starts` has the table of the months in either kind of year, `ThereAndBack`
  that `DayOf` gives back the day from whose number `TmOf` made a date; `WeekdayOfDate` is the congruence by which `day_of_week` finds the day of the week although its
  sum is kept in a byte.
* The forms: `AsSentSoParsed` and `AsAnsweredSoUnderstood` say, for each form, that T-W
  parses what the computer means and T-R answers what the computer understands as the
  time; the two-digit years, twelve hours with AM and PM, and BCD meet here.
* The chips: what is set is what is read after any number of days (`ReadIsTrue`), with
  the PCF8583's two bits of year brought up to date from its RAM, the registers of the
  LPC read again until they agree, and the soft clock's calendar.
* The invariant `ClockInv`: a clock that was set runs and tells the true time, and, but for the
  soft clock, which has no such mark, it was set exactly if `rtc_state` is "ok", and
  exactly if the chip's own mark says so. The mark is what survives a power failure, also
  one in the middle of T-W.

The theorem is bounded as the model is (section 12): the years 1980 to 2079, four years at most between two
readings of a PCF8583, the dates that each clock and form can carry (`CanBeSet`,
`CanBeRead`). `ClockAssumption` says that the dates, times and spans a run begins with are
such, and that `None` is no clock. The proof found three places where the model was
not exact and no run came there: a reading in the last second of these years; a
PCF8583 read at the turn of its fourth year, whose word for the year is brought up to
date from the registers that were just read, not from those of a second later; and the
choice of the clock that is switched on, which was ambiguous for a PCF8583 without a battery.

### Directories, images and swap lists

`NavigatorProofs` proves the three properties of `Navigator`, for every number of partitions, every tree of directories on
the card and in DNP images, every set of files, images and lists, every path and name,
both drivers, and cards that change or fail.

* Paths: `Places` is the recursive function of the places along a path. Induction is
  out of reach of the provers, so `PlacesLegal` takes the least component after which a
  place would not be there and finds that there is none: a component is followed only if it is a
  directory (`StepsExist` shows in the same way that the function exists).
* Drivers: each `chdir` that succeeds leaves a path that is there, each that fails leaves
  partitions and open files as they may be (`Went`). For a mounted image this is so
  only after `update_current_dir`: between `d64_mount` and that call the directory in
  the image is still the one of the image before. `ChdirRight` puts them together
  for CD and for the entries of a list.
* RD: `RemoveStep`. It asks for an empty directory of a card; the directory above it is the
  current one, an image of this partition is not mounted, the tree stays one
  because nothing is below, and where a swap list is, there is a file.
* Lists: the invariant `Searching` says that the entries before the next line are counted, and
  that `linenum` is one less than the turn, or, in the first search after a key, the number of
  entries when it is the turn of the first, or 255 when it is the turn of the last. Then
  `EndOfList` is met only in the last two cases and gives the right number (`EndStep`), and the
  count exceeds `linenum` exactly at the entry it is the turn of (`ReadStep`).

`NavigatorAssumption` has the types of the constants, that directories and DNP
directories are in directories that exist, that there are finitely many files, and the
limit of 254 entries of section 11, at least one of them.

### Fast loaders

`LoaderProofs` proves the four properties of `Loaders`, for every block of more than one
byte, every number of buffers, every set of files, disks and bytes, both drivers, every
number of commands, and media that fail once under the loaders that can tell. The hypothesis `AsUsed`
is that of the run: `~KeysInSave`, `~LeavesInWrite` and `~FastComputer`, the three
places of section 10 where the code does not do what is claimed. `LoadersAssumption` has the
types of the constants, `ImagesAssumption` that the disks of a list are alike in
their sectors, `TellsAssumption` that AR6 is not among the loaders that tell: it sends
the same zero for the end of a file and for an error.

The inductive invariant `LoadersInv` says, besides the types,

* `Placed`: which loader may be in which part of its loop;
* `Owned`: the handler's pointers are to buffers that are allocated and its own. Those of a loader
  that looks at the keys while it has some carry the secondary address of the
  system's buffers: this is why a disk change does not free them;
* `Sending`: the file is in three parts, what the computer has, the block in the
  buffer and the rest. `SavedAsSent` needs the same for the other
  direction (`Saving`): the file on the disk, the bytes before the buffer's end
  and what the computer has left; a full buffer, whose position wraps to 0, ends at `Width`;
* `Answered`: as long as nothing failed, what the computer asked for is what is in the buffer.

`Delivers` is the one lemma for each protocol: what the computer makes of a message is the
block, and the message says "complete" only for the last one. Turbodisk's two bytes of address, the length byte
of FC3 that is 0 for a full block, and Dolphin's marks are its cases. The
bytes that are escaped and those stored one by one are recursive functions of a
sequence; what they are is proved for the least position where it would not hold
(`LeastNumber`, used by `HeardEscaped` and `PuttingIs`). N0SDOS sends its last block again and again, so that the
computer has more than the file until it cuts it; `Sending` has this case.

### Only model-checked

* The properties of `D64Files`: within reach, not proved yet.
* The properties of `FatVolume`, `FileChannel` and `HostNames`: these modules have RECURSIVE operators, of which the prover cannot speak.
* `OperationsEnd`, the liveness in `Serves`, and everything about ENABLED: out of the
  prover's reach.

## 15. What is not modelled

* Timing: the bits of a byte, JiffyDOS and the fast protocols' lines
  (`esp32/llfl-*.c`), the sums by which `fastloader.c` tells loaders apart (a
  program here has its sum).
* The M2I driver, and the contents of copies (`C:`), of block commands and of
  direct channels; their use of buffers is in `Channels`. A copy that fails half way
  leaves a partial file (`doscmd.c:908`).
* Listing directories as text, labels, IDs, GEOS links, error maps, the D64 driver's
  B-A and B-F, the syntax of numbers and names.
* FAT12's packed entries, several volumes on one window, formatting, `f_utime`,
  disk errors under `FatVolume`, I2C failures under `Clock`.
* Buttons' debouncing and ticks; the display's texts and its list of directories.
* The IEEE-488 bus, a second bus with its own timing, not built for this board.
* Start-up, SD card and flash drivers, AVR and LPC ports: pure I/O. `newlib` and the
  ESP32's POSIX layer below `vfsops.c` are external.
