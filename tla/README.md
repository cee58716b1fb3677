# Verification of the mini2440 U-Boot (2009.11)

This directory holds TLA+ models of the parts of the boot loader under
`src/src/hyq-u-boot` that carry its own logic and are hard to test: what
happens when the power fails while the environment is saved, what a download
does on a network that loses, repeats and delays packets, how the network loop
gets from one device to the next, where an image lands between bad blocks, and
what the USB device answers a host that breaks off and resets.  Paths below are
relative to `src/src/hyq-u-boot`.

## 1. The system

U-Boot is one sequential program.  It initialises the board, loads the
environment, and then runs commands, typed or from `bootcmd`.  What makes it
hard to test is not threads but the world around it: power cuts between two
NAND operations, a network that delivers anything at any time, a timer checked
by polling, a USB controller that interrupts, flash blocks that go bad.

| Component | State it keeps | Operations | Interacts with | Hard because of |
|---|---|---|---|---|
| Environment (`common/env_nand.c`, `env_common.c`, `cmd_nvedit.c`) | RAM copy `env_ptr` with CRC and serial number, `gd->env_valid`, one or two copies in NAND | `setenv`, `saveenv`, `env_relocate` | NAND utilities; network code through `env_id` and through globals copied from variables (not modelled) | power cuts, failing erase and write, bad blocks, serial number wrap-around |
| TFTP client (`net/tftp.c`) | `TftpState`, ports, block numbers, wrap offset, block size, retry counters | `TftpStart`, `TftpHandler`, `TftpTimeout`, `TftpSend`, `store_block` | network loop by callbacks (`packetHandler`, `timeHandler`) and `NetState` | lost, repeated, late packets; timeouts; 16-bit block numbers; restarts |
| Network loop (`net/net.c`) | `NetState`, handlers and timer, `NetTryCount`, ARP wait state | `NetLoop`, `NetStartAgain`, `NetSetTimeout`, `NetSendUDPPacket`, `ArpTimeoutCheck` | all protocols, ethernet devices, environment | several packets per pass, two timers, retry limits |
| Ethernet devices (`net/eth.c`) | current device, `first_failed`, `NetRestartWrap` | `eth_init`, `eth_halt`, `eth_try_another` | network loop | rotation across restarts, static state |
| NAND utilities (`drivers/mtd/nand/nand_util.c`) | none of their own; bad block table in RAM, bad marks in flash | `nand_erase_opts`, `nand_write_skip_bad`, `nand_read_skip_bad`, `markbad` | NAND core | bad blocks, end of device, partial failure |
| NFS client (`net/nfs.c`) | `NfsState`, ports looked up, file handle, offset, `rpc_id`, retry counter | `NfsStart`, `NfsHandler`, `NfsTimeout`, `NfsSend` | network loop by callbacks | late replies, refused calls, symbolic links |
| USB device (`drivers/usb/slave`) | endpoint 0 state, descriptor pointer, place in the configuration | interrupt handler, control requests, bulk echo | host through the controller's registers | interrupts, transfers broken off, bus reset |

`PROJECT.json` lists these and the parts that are not modelled (vendored
libraries, file systems, command parsing, drivers that only write registers)
with the reason, and, under `hazards`, the places in the code where something
can go wrong that a test would hardly reach.

## 2. Modules

| Module | What it is |
|---|---|
| `EnvNand` | the environment: `setenv`, `saveenv` block by block, boot, faults |
| `EnvStore` | abstract store: a save takes effect at one moment |
| `EnvNandRefine` | `EnvNand` as an implementation of `EnvStore` |
| `EnvNandProofs` | theorems about `EnvNand` and its refinement of `EnvStore` |
| `MCEnvNand` | the default environment for the runs |
| `Tftp` | TFTP client inside the network loop, with server and network |
| `NetLoop` | the network loop over several devices and several commands: ARP, timer, rotation, addresses; ping, BOOTP, RARP |
| `Nfs` | NFS client inside the network loop, with servers and network |
| `NandUtil` | the `nand` commands over a chip with bad blocks and failing operations |
| `UsbEp0` | endpoint 0 of the USB device, with controller and host |
| `MCUsbEp0` | the sizes of the configuration's sections for the run |
| `TftpProofs`, `NetLoopProofs`, `NfsProofs`, `NandUtilProofs`, `UsbEp0Proofs` | theorems about these modules |
| `NaturalLemmas` | least elements and induction over sets of natural numbers, for the proofs |

`Tftp` and `Nfs` follow one transfer packet by packet on one device; `NetLoop`
takes a transfer as request and answer and follows the loop across restarts,
devices and commands.  `EnvNand` and `NandUtil` share the NAND but not a module:
`saveenv` writes block by block through the same functions `nand write` uses,
and `EnvNand` has its own, coarser, block.

### EnvNand

State: `mem` is `*env_ptr` (CRC, serial number, data), `valid` is
`gd->env_valid`, `nand[c][b]` the contents of erase block `b` of copy `c`,
`bad` the bad blocks, `worn` blocks with a bit error that the ECC corrects,
`op` the progress of a running `saveenv`.  `saved` and `last` are history: the
image that the last completed save (or the boot) promised.

A variable's value is the length of its entry, which is what `setenv` compares
with `ENV_SIZE`; a CRC is represented by the data it was computed over.
`SetEnv` is `_do_setenv` with all it does to the environment: refusals, deletion,
the overflow return that skips `env_crc_update`.  The globals it sets after that
(`load_addr`, `BootFile`, `bi_ip_addr`) are not modelled; the network commands
write them too.  `SaveStart`,
`EraseBlock`, `WriteBlock`, `WriteError`, `SaveEnd` are `saveenv` cut at the
points where the power can fail: one step per erase block of `nand_erase_opts`
and of `writeenv`.  `Boot` is `env_relocate` with `env_relocate_spec`; a
reset and a power cut end in it.
The constant `Redundant` selects the build, `Faults` what may go wrong: `power`,
`write` (a failed write leaves garbage), `status` (the write is reported failed
but has happened), `erase` (a failed erase), `flip` (a corrected bit error).

### Tftp

The variables have the names of the code.  `Receive` is one packet handed by
`eth_rx` to the current handler (`Oack`, `Data` and `Error` are the cases of
`TftpHandler`), `Timeout` is the timer check of `NetLoop` with `TftpTimeout` or
`startAgainTimeout`, `LoopSwitch` the switch on `NetState`, `NetRestart` the way
from the label `restart` to the packet loop including `TftpStart`.  `NetState`
is looked at only at the end of a pass, so several packets can be handled after
it was set; `pass` keeps the timer check and the switch together.  The file is a
sequence of units, unit `i` holding `i`, so a unit stored in the wrong place is
seen.  Two block sizes, `DefBlk` before and `OptBlk` after negotiation, make a
disagreement about the block size visible.

The server is external and modelled from what the client relies on: one
transfer, with a port of its own, per request; it takes the block size asked for
or leaves it at the default, then answering with data or with an OACK of other
options (`Starts`); the next block only when the current one is acknowledged;
retransmission at any time.  The network is a set
of packets in each direction, so they arrive in any order; `MaxLoss` and
`MaxDup` bound what it loses and repeats (`ServerResend` is not bounded).

Each start uses a fresh client port (`get_timer(0) % 3072` is taken not to
repeat within one command) unless `FixedPort`.

### NetLoop

`g` holds the globals of `net.c` and `eth.c` under their names; `conf` is the
board and the environment variables `ethrotate`, `netretry` and `autoload`, chosen
in `Init`; `serverip` is taken to be set.  `Call` is `NetLoop` up to `restart:`, `Restart` from there to the packet
loop (`NetInitLoop`, `net_check_prereq` and the start of the protocol), `Turn` one
pass of the loop: `eth_rx` with at most one packet, `ArpTimeoutCheck`, the
timer, the switch on `NetState`.  What one command leaves behind (handlers,
timer, `NetRestartWrap`, `first_failed`, `NetOurIP`, `ethact`) is what the next
one starts with.  The loops of `eth_init` over the devices are written as the
distance they go.  Time is counted in ticks of `ARP_TIMEOUT`, which is also the
period of TFTP, BOOTP and RARP; a tick does not fall inside a pass.  A device
has a kind: its init fails, it has no address, it answers late or not at all, or
it answers at once.

`air` is what the network has answered to the current device.  `eth_halt` does not
stop it: an answer can arrive after the device has been initialised again, in the
same command or the next (`late`; the constant `Delayed` says of which protocols
this is looked at).  `NetReceive` drops what is sent to another address
(`ForUs`), takes an ARP reply when it waits for one, and a RARP reply whatever
command runs (`RarpReply`).  A late TFTP answer is for a port no longer in use and
a late BOOTP answer for another `BootpID`, so these two are not kept.

### Nfs

`c` holds the static variables under their names.  The handler has one action
per state (`PortmapMount` .. `Read`).  A reply carries, instead of the RPC id,
whether it answers the last request, which is all the client compares; sending
any request turns every reply in flight into an old one, also when the same
request is sent again.  The path is the number of symbolic links still to
follow.  Replies are lost, late, doubled, refused by RPC or by the server.

### NandUtil

Flash is counted in units, `WriteSize` to a page and `EraseSize` to a block;
`oob` has one entry per page.  Programming a page that is not blank leaves
garbage.  `marked` are the bad marks in flash, `bbt` the table in RAM.  A command
is entered (`NandErase`, `NandWrite`, `NandRead`, `MarkBad`) and then runs block by
block (`EraseBlock`, `WriteBlock`, `ReadBlock`); `write.yaffs2` is modelled with
the rearrangement of the image in memory that `nand_write` does.  `cmd` keeps,
for the properties, what the flash and the image were when it was entered.

### UsbEp0

`d` is `g_psUSBDevice[0]`, `csr` the bits of the control register and the FIFO,
`irq` the pending interrupts.  `EnterIsr` and `RunEp0` are `USBIntHandler` cut
where the controller can act in between: after the pending interrupt has been
cleared and before the status is read.  `Dispatch` stands for the requests,
`USBDEP0StateTx`, `USBDEP0StateTxConfig` and `USBDEP0StateRx` for the data
stages.  `USBDGetDescriptor` cuts the length off at what the host asked for,
GET_LINE_CODING does not (`Limit`).  A string index behind the table
(`usbenum.c:439`, where nothing compares it with the number of strings) finds some
word of memory: the object `Wild`, of a size in `StraySizes`, or a null pointer.  A byte is the pair of object and index, so a byte of the wrong
descriptor is seen.  Controller and host are external: the host asks for
anything, stops when it has what it wanted, gives up in mid-transfer and resets
the bus.  `served` is true of a request that was read before anything had been
sent in its transfer, and with no other interrupt pending; see the known limits
for what happens otherwise.  The controller is taken to hold its interrupt line as
long as `EP_INT_REG` or `USB_INT_REG` is not 0, so that clearing `SRCPND` and `INTPND`
at the end of the handler loses nothing.

## 3. What the runs check

| Run | Question | Bounds |
|---|---|---|
| `env_redund_power` | two copies: does a completed save survive a power cut at any point (`Durable`), do the two copies implement an atomic store (`StoreSpec`), and the invariant `SaveInv` | 3 blocks per copy for an environment of 2, any bad blocks, serial numbers 0..3 |
| `env_redund_faults` | power cuts, failing writes and bit errors: from the first completed save on, does every boot find a valid copy (`BackupSurvives`), is a bad block ever touched (`BadUntouched`), does the serial number keep its width? | 2 blocks per copy for 1, no variable too long |
| `env_single` | the board's own configuration with all faults: is the saved environment loaded (`SavedIsLoaded`), does `saveenv` return (`SaveTerminates`)? | 4 variables, one of each special kind, 3 blocks for 2 |
| `env_stale_crc` | is a saved environment loaded although a `setenv` overflowed? (no) | as `env_single` |
| `tftp_download` | servers with and without options, loss, repetition, errors, two server transfers at once: is a reported success the file, is nothing else written, is only stored data acknowledged? | 2 to 4 blocks, the last one short or empty |
| `tftp_restart` | late packets of a transfer given up, offsets across a wrap-around of the block number; does the command return? | one restart; block numbers 0..3; the server with negotiated blocks retransmits, the one whose block number wraps does not |
| `netloop` | is failure reported only when no device can be used (`FailMeansNone`), are attempts limited (`BoundedAttempts`), is the current address used (`AddressFresh`), does every command return when `netretry` is limited (`Returns`), does a transfer get to a device that works (`Reaches`)? | 2 devices of any kind, 2 commands, one `setenv` between them, late PING and RARP replies, no error packets |
| `net_retry_once` | with `netretry` = `once`, have all interfaces been tried when a transfer fails? (no) | 2 devices, 1 command |
| `nfs` | is a reported success the file, does late data ever move the offset, does the command return? | 3 units in reads of 2, one symbolic link, 2 tries, 2 late replies |
| `nand_skip` | does the image land in the good blocks in order, also in part when a write fails (`ImageStored`), is everything else kept (`OthersKept`, `BadUntouched`), does reading give it back (`ReadBack`), do commands return (`Returns`)? | 3 blocks of 2 pages, any of them bad, offsets inside and past a block, 2 commands, 1 failing operation |
| `nand_too_long` | is an image that does not fit refused? (no) | as `nand_skip` |
| `usb_ep0` | does the host get the bytes it asked for (`DataRight`) to the end (`Completes`), and never one from behind the descriptor (`StaysInside`)? | packets of 3, a configuration of 4+1+1, device descriptor of 4, string of 3, 2 transfers broken off, 1 reset, any number of requests |

The bounds are enough in this sense.  An environment of two blocks has a first
and a last block and a moment between them; three blocks per copy allow a bad
one, and two bad ones leave too few; the serial number wraps; two transfers and
two client ports are what it takes to confuse one with another; with the empty
last block every kind of block length occurs.  Two devices have a first failed
one and a next one, and the second command meets what the first left behind;
`ARP_TIMEOUT_COUNT` is the real 5, because how it compares with the period of TFTP
decides whether `Reaches` holds; that a TFTP server may answer with any number of
errors (`MaxErrs`) is left to the theorems `AttemptsBounded`, `FailureMeansNone` and
`AddressIsFresh`, which hold for every bound.  Three flash blocks have a good one
before and after a bad one; two commands are a write and what comes after it.
The USB configuration is a multiple of the packet size and its sections are not,
so one packet ends inside a section, another goes across two borders, and the
last one is empty; so is the last one of the string, and the answer to
GET_LINE_CODING is one packet, as with the real sizes (7 bytes in a packet of 8).  `usb_ep0` does not check for deadlock: a host whose request was dropped
and that has used up its bound of retries waits for ever.

Three runs show a disagreement between the code and what it or its documentation
says (`findings` in `PROJECT.json`):

* `env_stale_crc`: a `setenv` that overflows deletes the entry but leaves the
  CRC; the next `saveenv` stores an environment that no boot accepts.
* `net_retry_once`: `netretry` = `once` gives up on the first interface, since the
  first attempt is counted (`net.c:580`); `README:3106` says it fails "when all the
  available network interfaces are tried once without success".
* `nand_too_long`: `get_len_incl_bad` stops at the end of the device, so the
  test behind it refuses nothing: a read to the end of a device with a bad block
  goes straight through that block and reports OK.

### Known limits

What the models contain and the passing runs exclude, each by a named constant,
fault or condition:

* Environment.  `nand_erase_opts` returns 0 although an erase failed (fault
  `erase`), against its comment (`nand_util.c:67`), and `saveenv` programs the block
  over its old contents; `readenv` takes a corrected bit error for a failed read
  (fault `flip`).  `SavedIsLoaded` excludes the time in which a block of the copy
  has either (`Readable`), and `BackupSurvives` does not hold with a failing erase,
  nor with a bit error in a block other than the last, which is why its run has
  environments of one block.  A failed
  save leaves the serial number incremented (`env_nand.c:198`), and near the
  wrap-around the next boot takes the older copy for the newer: `SavedIsLoaded`
  fails with `Redundant` and the fault `write`.  After a `setenv` that overflows,
  `saveenv` stores a wrong CRC, and a second `saveenv` does so in the other copy:
  two copies that were valid are lost, so `BackupSurvives` holds only where no
  variable is too long (`NoOverflow`; in the run `EnvSize` = `MaxLen`).
* TFTP.  Block 0 received again moves the wrap offset again (`tftp.c:366`):
  `FileIntact` fails when the server whose block number wraps also retransmits
  (`ServerRetries` with a small `SeqSize`).  With a fixed source port
  (`FixedPort`) a restarted transfer accepts blocks of the previous one and
  stores them with the wrong block size.
* Network loop.  `NetRestartWrap`, `first_failed` and the timer of an earlier
  command can make a later one fail or leave out a device when some device has
  no address (`Sound`).  A `bootp` or `rarp` that does not succeed leaves
  `NetOurIP` cleared or changed while `env_id` stays the same, so the next `tftp`
  has no address; and a RARP reply that comes late puts its address into
  `NetOurIP` in the middle of a `tftp` or `ping` (`net.c:1496`).  `AddressFresh`
  excludes the time from either until the environment is read again (`leaseOpen`).
  An error packet in the pass of the last timeout calls `NetStartAgain` twice and
  leaves a device out, so `Reaches` is checked without (`MaxErrs`).  With
  `ethrotate` = `no`, no address and `netretry` unset the loop never ends.
* NFS.  A late reply after a repeated request does not match its id, and the
  client gives up with failure although `netretry` allows more attempts; the
  umount after a failed mount sends nothing and waits out all its timeouts;
  `NFS_MAXLINKDEPTH` is not used, so a loop of links is followed for ever
  (`Links` is finite).
* NAND.  An image that does not fit is written as far as it does.  Behind the end
  of the device the bad block table is read one entry too far; beyond that the
  loop skips what it takes for bad blocks until the 32-bit mask of the address
  (`nand_util.c:534`, `:630`) wraps at 4 GiB and it meets a good one, where the
  command fails.  Only if every block is bad does it never end (`Returns`).  `read.yaffs2` writes.  The image in
  memory is rearranged by `write.yaffs2` and cannot be written a second time
  (`Load`).  A failed `markbad` has the block bad in the table only, and the next
  one reports success.  The mark is taken to go where the scan looks for it, though
  `nand_default_block_markbad` does not set `ops.mode`, which an erase with clean
  markers leaves at `MTD_OOB_AUTO` (`nand_util.c:159`).
* USB.  A SETUP packet that arrives after the pending interrupt was cleared and
  before the status is read is handled, and its interrupt comes again: the
  second packet of data is put into the FIFO over the first (`usbenum.c:854`).
  SETUP_END together with a new SETUP drops the new one, and the host has to
  repeat it (`:697`).  A bus reset leaves `eEP0State` as it was, so the next
  SETUP is answered with the rest of the old data.  `SET_LINE_CODING` receives
  through the pointer the last transfer left, over or behind a descriptor
  (`:597`); the properties speak of the time before (`dirty`).  A string index
  behind the table is followed to whatever word lies there (`:439`): of the answer
  to it (`Wild`) no property says anything, only of the requests after it.
  GET_LINE_CODING sends its 7 bytes also to a host that asked for less.  Requests
  with an empty handler leave the packet unacknowledged.

### Fairness

`EnvNand`: weak fairness of the steps of a running `saveenv`, whose loops never
wait for anything.  `Tftp`, `Nfs`: weak fairness of `Timeout` and `LoopSwitch`:
`NetLoop` polls the clock and `NetState` in every pass and an expired timer
stays expired until handled; nothing is assumed of the network or the servers.
`NetLoop`: weak fairness of the pass of the loop and of the clock.  `NandUtil`:
weak fairness of the loop of the command that runs.  `UsbEp0`: weak fairness of
the interrupt handler, which nothing masks for ever, and of the host going on
with a transfer it does not break off.

## 4. What is proved

Every invariant and every action property the passing runs check is also a
theorem, checked by TLAPS for all values of the constants that satisfy the named
`ASSUME`s of the modules: any number of blocks, devices, packets, commands,
restarts and faults, any file, any chip.  The exceptions are in the last part of
this section.  The property of a run is rarely inductive; each proof module
starts with the invariant that is, was checked with TLC first, and has one lemma
per function or action that keeps it.

### EnvNandProofs

| Theorem | Property | Hypotheses |
|---|---|---|
| `TypeCorrect` | `TypeOK` | none: both builds, all faults |
| `BadBlocksUntouched` | `BadUntouched` | none |
| `SaveInvariant`, `SavedSurvivesPowerCut` | `SaveInv`, `Durable` | two copies, power cuts only |
| `SaveIsAtomic` | `StoreSpec` | the same, and `NoOverflow` |
| `BackupAlwaysFound` | `BackupSurvives` | two copies, no failing erase, no bit error, `NoOverflow` |
| `SavedLoadsAgain` | `SavedIsLoaded` | one copy, `NoOverflow`; all faults |

`Durable` is not inductive: that a boot picks the right copy depends on how far
the other one has been erased or written and on the difference of the serial
numbers.  `SaveInv` says exactly that: `EraseProgress` (the blocks already
passed are erased), `WriteProgress` (the blocks already passed hold their chunk
of the image, the others are erased), `ActiveInv` (the copy in use holds the
last saved image) and `SerialInv` (the serial number in RAM is that of the copy
in use, one more during a save, and a valid image in the other copy is the one
just before it).  The layout lemmas say that the position of a good block is
the number of good blocks before it, that it grows by one per good block and
that two images cannot both be complete in one copy.

`StoreSpec` follows step by step: every step of `EnvNand` is a step of `EnvStore`
or leaves what a boot would load as it is.  `NoOverflow` says that no entry makes
the environment longer than `EnvSize`; run `env_stale_crc` shows how a saved
environment is lost when one does, and the faults left out are the known
limits of section 3.

`BackupSurvives` speaks of two moments, a save that was reported and any later
boot.  It rests on `CrcInv` (without an overflow the CRC in RAM, and so that of
every saved image, is right), on `KeptInv` (the copy in use holds the last saved
image, however far the other one has been erased or written) and on the lemma
`SavedStays`: no step, and in particular no boot in the middle of a save, finds
both copies invalid once a save was reported.

`SavedIsLoaded` rests on `StoredInv`: a block that `writeenv` has passed holds its
chunk of the image or, when it was not erased, garbage.

### TftpProofs

`TypeCorrect` holds for all constants.  `SuccessMeansFile` (`FileIntact`),
`StoresWithinFile` (`WithinFile`), `AcksAreStored` (`AckedStored`) and `SizesAgree`
(`BlockSizeAgreed`) assume `Separate`: the source port changes with every attempt
and the block numbers do not start again, which for blocks of 512 bytes means a
file below 32 MB.  Both restrictions are real: without them the known limits of
section 3 break `FileIntact`.  Run `tftp_download` satisfies `Separate`, run
`tftp_restart` goes across the wrap-around and is not covered by the theorems.

The properties speak of memory at the end, but whether memory is right depends
on every packet that can still arrive.  The invariant says, of every transfer of
the server, that what it is past is in memory and that only the transfer the
client has chosen goes on (`SessInv`); of every packet in flight, that it carries
a block the server has sent (`ToClientInv`) or acknowledges a block in memory
(`ToServerInv`); of the client, that its block size is that of its server and the
blocks it remembers are stored (`ClientInv`, `TimerInv`, `SuccessInv`), and that
whatever is in memory is in its place (`RamInv`).

### NetLoopProofs

`TypeCorrect`, `AttemptsBounded` (`BoundedAttempts`), `AddressIsFresh`
(`AddressFresh`) and `FailureMeansNone` (`FailMeansNone`), for any number of devices
and commands.  Every function of the loop takes the globals to new globals, so
the invariant is stated of globals, with one part per place in the loop
(`IdleInv`, `RestartInv`, `RxInv`), made of what holds in all of them (`LoopInv`)
and of what the running timer implies (`TimerInv`).  `BoundedAttempts` needs to know where an attempt
is due but not yet counted: at `restart`, when `NetState` says so, and when the
timer of a full round is set.  `AddressFresh` needs that no handler and no timer
of a BOOTP or RARP is left when a `tftp` or `ping` starts (`Calm`).  A late RARP
reply needs no handler; it sets `leaseOpen`, from which on the property says
nothing until the environment is read again.

`FailMeansNone` has an invariant of its own, `RoundInv`.  A transfer that has met a
usable device cannot fail any more (`Found`: `NetDevExists` is set and no `ping`
timer is left).  Until then nothing was sent and no timer runs (`Quiet`), and on
the circle of the devices those from `first_failed` up to the current one cannot
be used (`Round`); `eth_init` passes only devices whose init fails.  So when
`eth_try_another` meets `first_failed` again it has passed all of them.

### NfsProofs

`TypeCorrect`, `ReadKeepsPrefix` (`PrefixStored`) and `SuccessMeansFile`
(`FileIntact`), for every file, size of reads and number of links.  The invariant
adds to `TypeOK` what the static variables say about memory in each state
(`ClientInv`), that a reply with the id of the last request answers what the
client asks now (`AirFor`), that nothing is handled between the last timeout and
the restart (`CountInv`) and what a result means (`RetInv`).

### NandUtilProofs

`TypeCorrect`, `BadBlocksUntouched` (`BadUntouched`), `WrittenImageStored`
(`ImageStored`), `OtherUnitsKept` (`OthersKept`) and `ReadGivesBack` (`ReadBack`), for
every geometry, set of bad blocks, offset, length and failing operation.

`TypeInv` adds to the types that the pages still to be written with their spare
area lie inside the image in memory.  `CommandInv` follows a write block by block:
the units counted so far are the first of the image's places (`CountInv`), they
hold it (`StoredInv`), the rest of the flash is as it was (`OthersInv`), and while it
runs the next block is the right one (`FirstInv`), what is ahead is untouched
(`AheadInv`) and the rest of the image is still in memory (`RamInv`), which for
`write.yaffs2` needs what the rearrangement of a block computes (`DataThenOobFacts`).
`ReadingInv` does the same for a read.  `DirectGood` is the fact the fast path of
`nand_read_skip_bad` and `nand_write_skip_bad` rests on: when the length with bad
blocks equals the length, all blocks in it are good or there are not enough good
ones before the end of the device.

### UsbEp0Proofs

`TypeCorrect`, `NeverBehindObject` (`StaysInside`) and `AnswerIsRight` (`DataRight`),
for every packet size and every division of the configuration into sections.
The invariant relates the device's variables (`DeviceInv`), the control register
(`RegistersInv`), the host (`HostInv`), the pending interrupts (`FlagsInv`) and, in a
transfer, what has been sent, what is in the FIFO and what is left of the object
(`DataStageInv`, `StatusStageInv`).  `NeverBehindObject` and `AnswerIsRight` speak of
the objects of the device's tables; of the answer to a string index behind the
table (`Wild`), which the code does send, they say nothing, whatever its length.

### How recursion is handled

`DataThenOob` (`NandUtil`) and `Base` (`UsbEp0`) are recursive functions.
`NaturalLemmas` states induction for a given set of numbers instead of a
predicate; the proofs apply it to the set of the numbers for which the claim
holds.

### Only model-checked

* Liveness (`Returns`, `Reaches`, `Completes` and the like): fairness and `ENABLED`
  are out of the prover's reach.
* `Tftp` across a wrap-around of the block number (`tftp_restart`).

## 5. Plan

Done: environment in NAND, TFTP, the network loop over several devices, NFS, the
`nand` commands, endpoint 0 of the USB device, and the proofs of all their
invariants and action properties.  Left, in this order:

1. `FileIntact` of `Tftp` across the wrap-around, for a server that does not
   retransmit: the offset then has to be related to the number of wraps.
2. Loading over the serial line (`common/cmd_load.c`): Kermit packets and
   retries.
3. The bulk endpoints of the USB device.

## 6. Not modelled

See `components` in `PROJECT.json`.  In short: vendored code (chip commands and
ECC of the MTD core, UBI, file systems, compression, malloc, libfdt), text
processing (command line, hush, `printf`), drivers that only program registers,
host tools, and what this board does not build: `lmb` (`CONFIG_LMB` is not set),
the USB gadget stack with its circular buffer, DHCP, SNTP, DNS, CDP.  Most of the
repository is code of these kinds (boards and processors other than this one,
vendored libraries, tables), which is why the models cover a small share of its
lines.
