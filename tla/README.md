# Verification of sh_node

sh_node is the firmware of a family of home-automation CANopen nodes on an
STM32F103: a pre-loader, a loader and one of several applications share the
flash, and every node can be configured and updated over the CAN bus. This
directory holds TLA+ models of the parts of it where order, failure and limits
matter, the TLC runs that check them on small instances and the theorems that
TLAPS proves for every instance. `PROJECT.json` lists the runs, the source lines each definition
stands for, the hazards, the mutants (plausible bugs a property has to notice)
and the theorems.

Paths are relative to `src/`.

## The system

All code of a firmware runs in one main loop (`ldr/ldr.c:152`,
`common/app_common.h`); the CAN interrupt handler is polled from it and there
are no threads. The one real interrupt with protocol state behind it is the
USART's of the eBUS master (`apps/va/ebus.c:717`). What else interleaves with the
code is the world: the bus takes and delivers frames, the CANopen master sends
requests, loses replies and retries, power fails, the EEPROM does not answer,
and one firmware hands over to the next through a reset.

| Component | State | Operations | Interacts with | Hard behaviour | What makes it correct |
|---|---|---|---|---|---|
| Boot chain: `preldr/`, `ldr/ldr.c`, `common/app_common.h`, `common/ret_mem.c`, `common/fw_header/fw_headers_variables.c`, `fw_header_eep.c` | two firmware regions, load-source mark (backup register), device name (EEPROM), `g_fw_info`, `g_stay_in_boot` | pre-loader's choice, start of loader and application, automatic reset, program control, rename | flasher (regions), EEPROM, backup registers | power loss in an update, stale mark, stale check result, EEPROM that fails, boot loops | something can always be started; no self-overwrite; the update window is not skipped; no automatic start of a torn image; no boot loop |
| Flasher: `common/flasher/flasher_sdo.c`, `common/platform.c` | flash half-words, `page_erased_bits` | write block, clear, erase and program, check | boot chain, master | page crossings, repeated blocks, power loss between half-words, sums that wrap | nothing outside the region changes; acknowledged data stays; a region is whole or fails its check; a download can always be finished |
| CAN driver: `common/canopendriver/CO_driver_target.c`, `can_driver.c` | `txArray`, `CANtxCount`, `bufferInhibitFlag`, mailboxes, receive FIFO | `CO_CANsend`, `CO_CANinterrupt`, `CO_CANclearPendingSyncPDOs`, reset, `CO_CANmodule_process` | bus, CANopenNode | completions that are swallowed, count and flags that drift apart, receive priority, aborts | no message stranded, none lost but by an abort, order within an identifier, queue drains |
| Configuration store: `common/config_system/config_system.c`, `CO_driver_storage.c` | CFG page, `config_valid`, `data_abs_address` | save, validate, read, read-out | both firmwares, LSS, flash driver | two tables in one block, saves in place, early returns that leave flags | a torn block is not parsed; nothing is read from a rewritten block; saved values come back; the other firmware's entries survive |
| LSS slave and callbacks: `305/CO_LSSslave.c`, `lss_cb.c` | LSS state, selection, pending and active node id and bit rate, delay counter | switch, fastscan, services, activate, store, poll | main loop, CAN driver, configuration | frames of several services mixed, settings stored, restored or torn in between, delayed activation | the main loop can always initialise CAN; a node with an id becomes a CANopen node; only the addressed node is selected |
| SDO transfers: `301/CO_SDOserver.c` (client: `301/CO_SDOclient.c`) | state, toggle, buffer, transmit buffer | download, upload, abort, time-out | object dictionary, flasher, master | frames lost, doubled, late; an answer that waits for its buffer; resets | a written object holds one transfer's data, whole; what is confirmed is true |
| NMT slave and heartbeats: `301/CO_NMT_Heartbeat.c`, `301/CO_HBconsumer.c` | NMT state, timers, monitored nodes, x1016, x1017 | command, heartbeat sent, heartbeat taken, time-out, x1016 written, resets | emergencies (error bits), main loop | a node that is silent when a command comes, timers that race, an entry refused | a node does not operate without its master; heartbeats tell the state; an error can be recovered from |
| Emergency producer: `301/CO_Emergency.c`, `CO_CANmodule_process` | `errorStatusBits`, fifo, overflow state, CAN error status | `CO_error`, process, reset | CAN driver, heartbeats, master | errors faster than the bus, a full fifo, a bus that is off | what the master knows and what waits say how the errors are |
| Firmware header and fields: `fw_header.c`, `fw_header_utils.c` | none (pure search in flash) | find a field, check CRC | boot chain | bounds of the search | finds what is there, within the region |
| I2C and EEPROM: `common/i2c/`, `dev/eeprom.c` | bus state, page buffer | polled transfers with time-outs, page writes | boot chain (name), sensors | error exits, page borders | writes land where asked; the bus is released on every exit |
| eBUS master: `apps/va/ebus.c` | phase and its timer, parser, receive FIFO, buffer in transmission, active request | poll, parse, send, interrupt handler, enable | USART and DMA, boiler, object dictionary | interrupts at any point of a poll, late responses, time-outs, noise, switching off in an exchange | no phase waits for ever, no buffer is rewritten in transmission, requests start on a quiet bus, a boiler's response is saved to its own request |
| Applications: `apps/` | valves, pumps, inputs | control loops | CANopen objects, sensors | | outputs follow the set values |
| Sensors: `dev/` | conversion state machines | start, poll, read | I2C, GPIO | timeouts | a value is fresh or marked invalid |
| CANopenNode, the rest: `common/canopennode/` | protocol stack | PDO, SYNC, TIME, object dictionary | CAN driver | | vendored; the services the nodes depend on are listed above, the rest is not modelled |

## Modules

| Module | What it models |
|---|---|
| `ImageStore` | Abstract: a region holds one whole image or nothing that passes its check; it goes from one image to another only through torn. |
| `Boot` | The node across resets. `img` are the regions, `loadSrc` is BKP DR1, `run` who executes; `PreldrStart`, `PreldrSelect`, `LdrInit`, `AppInit`, `BootDelayElapsed`, `AutoReset` are the steps of the boot chain, the disjuncts of `Requests` the object-dictionary and NMT handlers. Downloads are `Touch` and `Complete` of `ImageStore`. |
| `Flasher` | `flash_data_wr_cb` and `platform_flash_write`, one action per flash operation, with power loss before or within each. Refines `ImageStore` for its region under the mapping `ImageThere`. |
| `Lss` | The LSS slave with its callbacks and the head of the main loop: a round takes one frame (`Switch...`, `SelectPart`, `Fastscan`, `TakeCommand`), then answers it (`Process...`). `Start` is the initialisation of CAN with what LSS has left pending, `NmtReset...` and `PowerCycle` lead to it again. |
| `Sdo` | The SDO server against a client of the same stack, with the frames between them: `ServerReceive`, `ServerAnswer` and the time-out are `CO_SDOserver_process`; `BufferSent` empties the transmit buffer; `Faults` lose, double and delay. |
| `Nmt` | The NMT slave, heartbeat producer and heartbeat consumer, one function of the main loop per step with the time that passed: `CO_NMT_process`, `CO_HBconsumer_process`, `OD_write_1017`, `Write1016` and the two resets. |
| `Emergency` | `CO_error` from every caller, `CO_EM_process` with the driver's error status, the fifo and its overflow, and a master that keeps a picture of the errors from what it is told. |
| `Download` | `Flasher` composed with a master that retries, starts over and loses replies. The master is not in the repository; it is the least capable one for which the flasher's protocol works. |
| `CanTx` | The transmit path and the polled interrupt handler on bxCAN mailboxes. One function call is one step; `BusTransmit` and `BusReceive` are the hardware. |
| `ConfigStore` | Saves, restores and read-outs of the block that loader and application share, with refused, failing and interrupted saves. A block is a function from keys to entries or `Torn`. |
| `Ebus` | The eBUS master: `PollFlag`, `PollByte`, `PollDrained`, `StartTx`/`TimedOut`/`NotExpired` and `PollIdle`/`PollSend` are `ebus_poll` from one point to the next at which `USART1_IRQHandler` (`BusByte`, `BoilerByte`, `TxComplete`) may come in between; the `Parse*` operators are the cases of `parse`. |
| `Eeprom` | The EEPROM driver on the polled I2C master, with the chip: one step per wait for the bus, each of which may end with an acknowledge, without one or in a time-out. `CycleEnds` is the chip writing its page buffer in its own time. |
| `*_proofs` | The theorems about the module of that name; `Flasher_proofs` is about `Flasher` and `Download`, `Dictionary_proofs` about what the object dictionary is given and keeps (`ConfigStore`, `Sdo`), `Node_proofs` about how a node tells its errors and acts on them (`Emergency`, `Nmt`). |
| `MC*` | The instances TLC checks. |

Together: `Boot` and `Flasher` meet in `ImageStore`. `Boot` takes
`Touch` and `Complete` themselves as its downloads, so it changes regions in no other
way by construction; that programming half-words with losses of power comes to
nothing else is what `Flasher` shows (`StoreSpec`, checked and proved). So the boot
chain's properties hold for downloads that are cut anywhere. `Nmt` and
`Emergency` meet in the error bits: `hbErrors` of `Nmt` are two of the `OtherBits` whose
every order of changes `Emergency` allows. `Lss` takes the outcome of a save
(written, refused, torn) from `ConfigStore`, and `EmergencySent` and `BufferSent`
assume that a message that was queued reaches the bus. `CanTx` shows this but for
messages that are aborted: by a communication reset, which `Emergency` and `Sdo` have, and
by `CO_CANclearPendingSyncPDOs`, which they leave out (an SDO client may lose any answer
in `Sdo`; a master that misses an emergency this way is not told otherwise).

What is abstracted: a CAN frame is the stamp of the call that produced it; a
firmware image is its half-words with size and CRC collapsed into one header
cell that identifies it (a CRC collision is outside the model); a configuration
entry is size and value; timers are steps that may be taken when they like (in `Nmt` they count); CPU
reset causes (DR2, DR3) are left out since nobody reads them back.

### Correspondence in detail

`Boot`. `FwCheck` is `fw_header_check_all`; its product checks apply only if the
pre-loader has a header, and the device name counts for applications only. A
failed EEPROM read leaves zeros in `g_str_dev_name`: `EepromFails` takes the same
steps with `NoName`. `window` (is the loader's update window open, has it run its whole
delay or been ended by the master, or was it cut short) and `appRenamed` are histories for
the properties.

`Flasher`. The unit is the half-word. `job` is the running call of
`platform_flash_write`; `JobPage` is computed from the block's first half-word as
in the code, so a block that crosses a page programs cells of the next page
without erasing it. `Beyond` compares with `>` as the code does. `NodeReset`
leaves the operation in progress undone or its cells as `Garbage`.

`CanTx`. `CO_CANsend` hands the frame to a mailbox before it looks at the count,
as the code does; `TxComplete` clears every RQCP flag, since `TSR |= mask` writes
all of them back. `onWire` and `discarded` are histories.

`ConfigStore`. A save is two steps: `SaveBegin` (all early returns passed, page
erased, block torn) and `SaveDone` or `SaveFails`; everything between is seen
only by a reset, since saves run to completion in the main loop. `SaveDone` includes
the `config_validate` that both callers run after a save. `promise` and
`refused` are histories.

`Ebus`. A byte is what the parser tells apart, and the buffer is how much of a
response it holds; whether some other byte is a length, an end or a right CRC is
left open. A timer may be due at any poll. The model assumes of the world: at most
one interrupt during a poll (a byte takes 4 ms, a poll microseconds), any number
between two polls; the boiler answers before the next request is queued (500 ms)
or not at all; noise never has a right CRC. Other masters may send anything at any
time, whole exchanges included (`Overheard`): their bytes carry the mark `Other`, and a
response among them that ends in its right CRC is stored like the boiler's. `of`, `quiet` and
`lost` are histories.

`Lss`. An address part is "mine" or "zero"; a fastscan frame says whether the bits it
asks for are the node's. A node id is a byte (0, a valid one, 255), an index of the
bit timing table any byte, and `CANinitOk` is the arithmetic of
`can_drv_check_set_bitrate` itself. The loop ends (`power = "halted"`) where `main`
returns. A save ends in one of the outcomes of `ConfigStore`.

`Sdo`. A transfer is a sequence of segments that carry their transfer's name, so that
a mixture can be told from a whole; length 0 is an expedited transfer. The buffer
empties into the object's write callback as `validateAndWriteToOD` does, which may
refuse (`TooLong`, and partial writes). Sizes are in segments, a size is indicated or
not. Block transfers are not built into the nodes.

`Nmt`. One pass of the loop visits `Receive`, `CO_NMT_process`, `CO_SDOserver_process`,
`CO_HBconsumer_process` in the code's order (`at`), and `dt` is the time one pass
takes. x1016 written while the node runs takes effect at the next communication
reset, since the applications are built without `OD_DYNAMIC`; `InitEntries` keeps what
an entry refused as a duplicate (`Refused`) held before, as the code does. `silent`, `heard` and
`sent` are histories.

`Emergency`. `e` is the part of `CO_EM_t` that `CO_error` changes, so that the six checks of
the driver's status and the two of the overflow follow one another within one step
as in `CO_EM_process`. `Status` works the driver's status out anew only when the
counters changed, and reads the transmit error counter into 8 bits, as the code
does. The master reads x2000 when EMERGENCY_BUFFER_FULL is taken back: `lost` is the
history of what it could not know otherwise.

`Eeprom`. A wait and the acknowledge it looks for are one step, and a byte is its index
in the data it came with. `ErrorCode` is left out: it is cleared when a call
starts and the first error ends the call, so its comparison with
`HAL_I2C_ERROR_AF` only tells a missing acknowledge from a time-out. The driver is
checked for every request within the chip, although the program itself writes and
reads only the device name (16 bytes at 0, one page). Its limit `EEPROM_SIZE` (8192)
exceeds the 1024 cells two block bits can address; requests beyond these are
left out, since no caller makes them. `owner` and `timedOut` are histories.

## Runs

Passing runs. Every property has a mutant: a variant of a modelled definition
with a plausible bug that makes TLC find the property violated in the same run.

| Run | Instance | Shows |
|---|---|---|
| `cantx` | 3 buffers (one synchronous), 2 mailboxes, FIFO of 1, 2 messages per buffer, count below 8; 70 000 states | The queue is sound although the code counts more than is waiting: a non-zero count means that a completion will come (`NoStall`), no full buffer is missed (`FullIsCounted`), an identifier's messages keep their order (`StampsInOrder`), the last message of each buffer reaches the bus, unless a reset or an abort took it back (`LatestReachesBus`). |
| `boot` | 5 images (own and foreign product, two device names, a loader of each product), 4 names, every image for each region; 3 600 states | `RunsWhole`, `NeverBricked`, `UpdateWindow` (a window that a watchdog reset or loss of power cuts short excepted), `NoStartOfTorn` and `Settles` (the node comes to rest in the application or in the loader). |
| `download` | the flasher with a master: 4 pages of 2 half-words, region of 2 pages in the middle, aligned, crossing, stray and wrapping blocks, relative and absolute; two images of 4 and 3 half-words | `InBounds`, `AckedDurable`, `OutsideUntouched` and the refinement `StoreSpec` for the flasher; `CleanSessionCompletes`, `VerifiedIsWanted` and `Completes` (a download ends after any faults) for both together. |
| `config` | loader and application with a shared key in one size, a shared key in two sizes and a key each; 4 entries fit for the loader but not for the application; 3 700 states | `TypeOK` (the block never outgrows its page), `AcknowledgedKept`, `SavedComesBack`, `AddressesFresh`. |
| `ebus` | 2 requests, a FIFO with 2 usable slots, headers of 2 bytes, exchanges of other masters; 10 million states | `Unstuck`, `TxExclusive`, `StartsOnSyn`, `RightRequest` (the boiler's responses) with interrupts at every point of a poll. |
| `eeprom` | 2 blocks of one page of 2 cells, writes of 3, reads of 4 bytes, 2 polls, a driver limit above the chip's size; 1.4 million states | `SuccessIsTrue`, `OnlyAsked`, `Released` with every failure of a wait, resets and losses of power. |
| `lss` | addresses of 3 parts, the first zero; node ids 0, 7, 255; four indexes of the table, one good, two reserved, one beyond; 330 000 states | `AlwaysStarts` (nothing LSS sets, stores or loses keeps the node from coming up), `NotStranded`, `SelectedByAll`, and `TypeOK`: only accepted settings are pending. |
| `sdo` | transfers of 0 to 4 segments, a buffer of 3, 3 faults; 600 000 states | `WholeWrites`, `ConfirmedIsTrue`, `Succeeds`, and `SdoTypeOK` for the end of the buffer, which `CO_SDOserver.c:942` does not check. |
| `nmt` | 2 entries of x1016, one node to watch, a time of 3, passes of 1; 1.5 million states | `SilentStops`, `StateTold`, `Recovers`. |
| `emergency` | a ring of 3, one bit of the callers, a controller that is error free or bus-off; 230 000 states | `Informed`, and `Told`: once errors stop changing the master comes to know them all. |

Why the bounds are enough. `cantx`: with two mailboxes a frame can be behind
another one and both can complete before the handler runs, a third mailbox adds
no new kind of state; three buffers give a synchronous one between ordinary
ones; the count limit (`MaxTxCount`) is above twice the number of buffers, so
over-counting is exercised; `CountMod` lies above it, so the 16-bit wrap after
65536 calls without a single transmission is outside. `download`: two pages suffice
for an erased and an unerased page of one session, one page on each side for stray writes, the
address space is short enough that sums wrap. `boot` has no
numeric bound: the instance has every combination of acceptable and unacceptable
image in each region. `config`: two firmwares, sizes chosen such that carrying
over succeeds in one order of saves and is refused in the other. `ebus`: two requests are
enough for a response to be mistaken for another's; two bytes in the FIFO are one
left over from before a step and one that comes during it. `eeprom`: a write of three
bytes begins anywhere in a page and ends in the next block, a read of four takes
every branch of the receiver, one poll can fail and another succeed.
`lss`: one part of the address that is zero and two that are not show every way in
which parts can be matched. `sdo`: a buffer of 3 and transfers of 4 reach its end
and go one beyond; a second transfer is enough for segments to be mixed; three
faults are a lost answer, its retry and a late duplicate. `nmt`: two entries let a
node move from one to the other; the time is longer than a pass, so a
heartbeat may come before and after it is due. `emergency`: with a ring of 3 (17 in
the applications) every error that comes while one message is on its way can find it
full; the theorem is for every size.

`CHECK_DEADLOCK FALSE` is set where the model may stop: `cantx` when all messages are
sent, `boot` and `download`, whose master is not obliged to act. All other passing
runs are checked for deadlock.

Violation runs: what the code does differs from what a comment says of it.

| Run | Disagreement |
|---|---|
| `cantx_cleared` | `CO_CANclearPendingSyncPDOs` aborts all mailboxes: an ordinary message in one of them is lost (`CO_driver.h:706` speaks of synchronous PDOs). |
| `config_foreign` | A save refused for want of space has already cleared `config_valid`; the next save drops the other firmware's entries, although the block was whole. |

### Seen while modelling

Disagreements with a comment, each seen as a counterexample or plain in the code,
but without a run of their own.

- `lss_cb.c:27`: `lss_activate_br` switches at once if the delay is *not* zero and never
  if it is zero, the reverse of the delay `CO_LSSslave.h:242` describes.
- `CO_CANsend` sets `bufferFull` although a mailbox took the message, if the count is not
  0 (`CO_driver_target.c:176`); the message goes out twice. `CO_driver.h:284` says the
  flag is set when the message could not be sent. `bufferInhibitFlag` is false while a
  synchronous PDO is in a mailbox once another message has been sent; `CANtxCount`
  also counts a buffer that was already full (`CO_driver.h:344`).
- `CO_HBconsumer.c:193`: "verify for duplicate entries" compares with the node ids of before
  a communication reset. A watched node moved from sub-index 1 of x1016 to 2 and back
  is refused as its own duplicate and from then on watched by neither entry (19 steps
  in the instance of `nmt`).
- Bus-off is never reported as such: the transmit error counter is read into 8 bits
  (`CO_driver_target.c:246`) and compared with 256, so the NMT rule for bus-off
  (`CO_NMT_Heartbeat.h:144`) does not come into play. What is set instead is the
  receive overflow, which nothing clears; the transmit warning looks at the
  receive counter; a transmit overflow is cleared only when the counters change.
- After a communication reset the CAN driver's bits in x2000 stay set while the driver's
  own status starts from zero, so they are taken back only if they are set again first.

Behaviour worth knowing, with nothing that says otherwise.

- STOPPED for two passes clears the heartbeat errors. A communication reset does not: the
  bits stay in x2000. One without errors only ends the monitoring of a node until it is
  heard again.
- A loader that the watchdog or a loss of power stops inside its delay leaves its mark in
  the backup register, and the pre-loader starts the application although no update
  window was given. The application's next reset opens it again.
- `ebus.c:396` saves every slave response with a right CRC to the active request, the one
  overheard from another master's exchange included; nothing in it tells them apart.
  `RightRequest` is about the boiler's.
- `ebus.c:346` leaves the header only at exactly 5 bytes; how far `parser.buffer` can be
  filled is outside the model, which knows only how much of a response it holds.
- A node that is in LSS configuration answers every selective switch and fastscan.
- An SDO answer that comes after the master began its next request can be taken for that
  request's; `Sdo` assumes that the master waits until nothing is on its way. A
  server's abort code is lost if the transmit buffer is full.
- `flasher_sdo.c:37` compares a signature with the device name in RAM, which may be
  zeros if the EEPROM did not answer.
- `dev/aht21.c` reports old data as fresh if its trigger is not acknowledged; `dev/pir.c`
  retriggers only on a rising edge; `dev/tacho.c` subtracts 16-bit counts in 32 bits,
  so the difference is wrong when a counter wraps.
- `dev/ds18b20.c`: values stay as they were once no sensor answers the reset pulse any
  more; after a detection the slots hold other sensors' values until the next
  conversion; the sensors are read at start before a conversion; the search on a
  shorted bus finds an all-zero identifier, whose CRC is right.

### Fairness

- `CanTx`: the main loop polls (`WF` on `CO_CANinterrupt`, `ldr/ldr.c:152`). One event is
  handled per call and an iteration is shorter than a frame, so each time the
  FIFO is found empty with a completion pending the transmit branch runs (`SF` on
  `TxComplete`). The bus takes the node's frames (`WF` on `BusTransmit`).
  The liveness property assumes that the FIFO is empty again and again: the
  receive branch has priority, and a bus faster than the loop does starve it.
- `Boot`: the processor runs (`WF` on `Booting`); `Settles` speaks of executions
  that from some point on consist of steps of the boot chain alone.
- `Download`: the node executes the write it has begun and the master goes on
  (`WF` on `Progress`); `Completes` speaks of executions in which from some point
  on nothing but these steps happens, so faults end.
- `Sdo`: both sides' loops go round and due time-outs happen (`WF` on each step), and the
  master asks again (`WF` on `Request`). The faults are counted (`MaxFaults`), so
  `Succeeds` speaks of what follows the last one.
- `Nmt`: the main loop goes on (`WF` on `NmtNext`). `StateTold` needs no more, as sending a
  heartbeat is a step of the loop; `Recovers` assumes that the watched nodes are heard
  in time and that commands to start keep coming.
- `Emergency`: `CO_EM_process` is called whatever the counters are (`WF`), and a bus that is
  up again and again transmits (`SF` on `EmergencySent`). `Told` assumes that from some
  point on no error changes, the node is not stopped and the bus is up.
- `Lss`, `ConfigStore`, `Eeprom` and `Ebus` have safety properties only. In `Ebus` the end of a
  phase is left to its time-out, and `Unstuck` says that the phases without one are
  left, too.

## Proofs

Every invariant and action property of the passing runs, and the refinement, is a theorem, for
every value of the constants that satisfies the named assumptions of the module
(geometry of the flash, sizes, disjointness of model values), which TLC evaluates in
each run. Two theorems assume something else: `TransmitQueueSafe` and `NeverStalls`
that `CANtxCount` does not wrap. Each strengthened invariant is a definition of its
proof module.

| Theorem | States | Argument |
|---|---|---|
| `CanTx_proofs!TransmitQueueSafe` | types, `CompletedIsFree`, `NoStall`, `FullIsCounted` | Strengthened by: at most one request per mailbox and none while a mailbox reports completion, and `CANtxCount` below its wrap; without them `TxComplete` might find no mailbox. Cardinality facts come from `FiniteSetTheorems`. |
| `CanTx_proofs!NeverStalls` | `NoStall` | part of the former |
| `CanTx_proofs!NeverBackwards` | `StampsInOrder` | `StampsInv`: what the bus has seen of a buffer is not newer than what waits in a mailbox, and frames of one buffer wait in the order of their stamps. It holds whether or not the count wraps. |
| `Boot_proofs!BootSafe` | types, `RunsWhole`, `IntactImage`, `NeverBricked`, `CacheFresh`, `UpdateWindow` | `NeverBricked` is not inductive: a download touches the other region only because the running one is whole, so `RunsWhole` is part of the invariant, together with what the mark says about the window (`MarkIsLoader`: a mark of the loader means that its window is open, given or cut short) and that the cached check results are those of the present contents until `stay` is set. |
| `Boot_proofs!RunningStaysWhole`, `WindowNotSkipped` | `RunsWhole`, `UpdateWindow` | parts of the former |
| `Boot_proofs!NoTornAutoStart` | `NoStartOfTorn` | from `CacheFresh` at the moment of `AutoReset` |
| `Flasher_proofs!FlasherInBounds`, `FlasherKeepsOutside` | `InBounds`, `OutsideUntouched` | the invariant: a running job was accepted by the range check, hence all of its cells are in the region; uses only the layout assumptions |
| `Flasher_proofs!AckedStays` | `AckedDurable` | `AckInv` relates `acked` to `erased`: the page of an acknowledged cell is erased in this session, so it is not erased again, and programming cannot change a cell that is neither blank nor overwritten with zeros by a block covering it, which removes its acknowledgement |
| `Flasher_proofs!FlasherImplementsImageStore` | `Spec => StoreSpec` | a single step cannot turn one whole image into another because it would have to change the header and another cell, and headers identify images |
| `Flasher_proofs!CleanCompletes`, `VerifiedWanted` | `CleanSessionCompletes`, `VerifiedIsWanted` | `Master`: of a clean session the blocks before the next one are acknowledged, hence in place (`AckInv`); a positive reply that the master has not seen answers the block it sent last; once the header block has been acknowledged the region never again carries another image's header, though resets may undo the rest, and the check accepts only whole images. |
| `Flasher_proofs!DownloadInBounds`, `DownloadKeepsOutside`, `DownloadImplementsImageStore` | `InBounds`, `AckedDurable`, `OutsideUntouched`, `StoreSpec` | steps of `Download` are steps of `Flasher` or leave its variables alone, for the blocks of every image, aligned to pages or not |
| `Dictionary_proofs!StoreSafe` | types, `ValidIsWhole`, `AddressesFresh`, `AcknowledgedKept` | strengthened by what a save in progress holds (the whole native table, and what was promised), and that a stale address exists only while there is no whole block; the length of a block stays opaque |
| `Dictionary_proofs!BlockFits` | `TypeOK`: the block fits its page | part of the former |
| `Dictionary_proofs!ComesBack` | `SavedComesBack` | at `Boot` the promised entry is in the block, found by size, hence read |
| `Dictionary_proofs!SdoTyped`, `SdoWholeWrites`, `SdoConfirmed` | `SdoTypeOK`, `WholeWrites`, `ConfirmedIsTrue` | `SdoInv`, see below |
| `Ebus_proofs!TypeCorrect` | `TypeOK` | part of the invariant, with a FIFO that never fills its last slot |
| `Ebus_proofs!NeverStuck` | `Unstuck` | a phase about to transmit has chosen a buffer. A parsed byte cannot enter a phase that waits for a completion (`ParseTarget`); only `StartTx` does, only `TxComplete` ends a transmission, and only `PollFlag` consumes the flag. |
| `Ebus_proofs!BuffersKept` | `TxExclusive` | nothing is received while the DMA sends, and at most one byte is left in the FIFO when it begins: none of the few bytes the parser can see can take it through `PH_TX_RESP` and on to the next transmission |
| `Ebus_proofs!RequestsIntoQuiet` | `StartsOnSyn` | the byte the parser saw last is the last one on the bus, unless one came since or was lost; a request is sent only if it was a SYN |
| `Ebus_proofs!SavedToItsRequest` | `RightRequest` | the boiler's bytes, wherever they are on their way (`BoilerByte`, FIFO, buffer), belong to the active request or to other masters, whose bytes are marked, but for one that an earlier response may have left at the head of the FIFO, which the wait for a SYN drops |
| `Eeprom_proofs!BusReleased` | `Released` | strengthened to all steps outside of a transfer: a write that waits for the chip's cycle has released the bus, too |
| `Eeprom_proofs!OnlyAskedCells`, `ReportedSuccess` | `OnlyAsked`, `SuccessIsTrue` | `Sound`: at which steps a write cycle can be under way, where the chip's address counter stands, that the page buffer holds only bytes of the call that loaded it, that what was written in finished pages is in the cells, and what was read so far came from them |
| `Lss_proofs!LoopAlwaysStarts`, `NodeNotStranded`, `LssTypes` | `AlwaysStarts`, `NotStranded`, `TypeOK` | an id or a rate becomes pending only through a check that accepts it, or out of a block that was written from pending ones; a node that leaves configuration with an id has the answer that resets communication before it |
| `Lss_proofs!OnlyAddressedSelected` | `SelectedByAll` | the parts matched so far are those heard last, but for parts that are zero, which `memset` leaves matched |
| `Node_proofs!MasterInformed` | `Informed` | strengthened by: the overflow is 1 only while the fifo is full, and 2 only while the bit is set and a message waits; at most one message that takes the overflow back waits at a time, hence when it is sent nothing that was lost waits behind it. Stated for the record that `CO_error` changes, so that its calls within one pass follow from one lemma. |
| `Node_proofs!SilentStopped` | `SilentStops` | `NmtInv`: for a node that has been heard, the consumer's timer is behind its silence by no more than the pass under way, or its heartbeat waits to be looked at, or an error bit is set and stays until it is heard again (`Followed`), and `CO_NMT_process` leaves no node OPERATIONAL with an error bit set, whatever command waits. The bound is the timer and two passes; passes may be of any length up to `MaxStep`. |

`SdoInv`. That a write holds one transfer's data, whole and in order, says nothing of the
frames on their way, yet that is what it depends on: a late segment with the right
toggle bit would be taken. The invariant has three cases. `Down` says how far each
side is: the buffer holds the first segments of the client's present transfer,
the server is at the client's segment or one past it, and its toggle bit tells
which; the requests on their way are in order and at most one step behind; and no
stale answer follows a fresh one. `Up` is the same with the sides exchanged: an
answer that takes the client further leaves no old request behind it. `Stale` is
what neither describes: the client has given up or begun anew while the server still
waits for a segment, with only frames on their way that abort or begin a transfer.
Losing, doubling, giving up, timing out and resetting only take frames away, repeat
them or add aborts (`Dull`), so one lemma for downloads and one for uploads cover them;
queues are known only by their elements and the order of these. The theorems hold
for any number of faults, the run allows three.

Only model-checked: the liveness properties `LatestReachesBus`, `Settles`, `Completes`,
`Succeeds`, `StateTold`, `Recovers` and `Told`, since TLAPS does not reason about
fairness. `CompletedIsFree`, `IntactImage`, `CacheFresh` and `ValidIsWhole` are
proved and no longer properties of a run.

## Not modelled

- The rest of CANopenNode: PDOs and SYNC (their way through the driver is `CanTx`), the
  object dictionary (data), TIME, LEDs, SRDO, the LSS master, the gateway, block transfers
  (not built into the nodes). The error history x1003, the error register and writes to
  x2000.
- The STM32 peripheral library and CMSIS: vendor code without protocol.
- `common/fw_header/fw_header.c`, `fw_header_utils.c`: a search without state; what rests on
  it is `FwCheck` in `Boot`.
- `apps/` but for the eBUS master: sequential output of set values. `dev/` but for the
  EEPROM: polled conversions (see "Seen while modelling").
- The byte parser of the configuration block, CRC arithmetic, the layout of headers:
  data without protocol; the checks are modelled by what they accept.
- `sign/`: a host tool that runs once at build time. `apps_abandoned/`: not built.
- Clock set-up, GPIO, timing support (`common/prof.h`): no protocol; elapsed time
  is nondeterministic.

Two builds matter: the loader is built without emergencies and heartbeat consumer,
which `Nmt` and `Emergency` therefore model for the applications only; neither is built
with an SDO client, so the client in `Sdo` is a master that uses the same stack.

## Plan

What is modelled is what the nodes depend on when something fails. What remains worth
doing:

1. Proofs: every safety property of the passing runs is a theorem. Worth adding is that
   the queue of `CanTx` implements an abstract one per identifier, and what a save
   carries over entry by entry.
2. `OneWire`: the search for sensors of `dev/ds18b20.c` against the set of devices on the
   bus, which may leave it during the search.
3. `FwFields`: the bounded search of header fields against a reference definition.
