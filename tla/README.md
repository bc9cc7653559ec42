# Verification of mksoc

This directory specifies and verifies parts of *mksoc*: the HostMot2 motion-control
core on Cyclone V SoC FPGAs, the bridge between the ARM processor and that core, and
the Linux and HAL drivers that talk to it.  The specifications are TLA+ modules
translated from the VHDL, Verilog and C sources; TLC checks them on small instances,
and TLAPS proves the main results for all values of the constants.

Paths below are relative to the repository root.

    tlc -workers 2 -config MCHostMot2IO.cfg MCHostMot2IO    # one run
    tlapm HostMot2IO_proofs.tla                             # one set of proofs

`PROJECT.json` lists the components, runs, mutants, hazards and theorems, and maps
each definition to the lines it was translated from.

## 1. The system

    user space   HAL + HostMot2 HAL driver (not in this repository)
                     |             |                    |
    drivers      /dev/uio0     hm2-export.c:        hm2-export.c:
                     |         PCI, EPP, Ethernet   test pattern
    kernel       hm2reg_uio        |  (other boards)
                     |             |
    HPS bridge   hm2reg_io (Avalon slave)
                     |  address, data, strobes
    FPGA         hostmot2.vhd: decode -> watchdog, I/O ports, ID ROM,
                 step generators, counters, PWM, SPI, UARTs, ...

A host writes and reads 32-bit registers; nothing else crosses the boundary but one
interrupt line.  The core advertises what it contains in an ID ROM.  Each functional
block is a synchronous process with a few registers, driven by load and read strobes
from a common decoder and driving a common tri-state bus on reads.

| Component | Source | State | Operations | Interacts with |
|---|---|---|---|---|
| Watchdog | `hm2/watchdog.vhd` | timer, reload time, edge detector, status, bite | load time, cookie, load status, clock | `clear` of every I/O port |
| I/O ports | `hm2/wordpr.vhd`, `wordrb.vhd` | data, direction, alternate source, open drain, invert | five register loads, clear | watchdog; outputs of every other block |
| Register map | `hm2/hostmot2.vhd`, `IDROMConst.vhd`, `hm2/pins/*` | strobes, bus | decode of reads and writes | all blocks |
| ID ROM | `hm2/idrom.vhd` | the image, its write enable | read, write | register map, discovery by the host |
| Bridge | `ip/hm2reg_io/*`, `ghrd.sv` | two data registers, the interconnect's access in progress | read and write access, reset | HPS interconnect, core |
| PWM and BISS requests | `hm2/pwmpdmgenh.vhd`, `biss.vhd` | request flag and its two copies on the fast clock | load, pop, fast clock | bridge |
| Packet UART | `hm2/pktuartx.vhd`, `pktuartr.vhd` | data FIFO, FIFO of byte counts, frame and delay counters, drive enable | push and pop of data and counts, mode, clear, clock | the line to another UART |
| Step generator | `hm2/kubstepgenzid.vhd` and three variants | rate accumulator, two timers, pulse, direction | rate, accumulator and time loads, clock | I/O ports, timers |
| UIO driver | `Software/hm2reg_uio-module` | mask flag, lock, device data, power references | probe, remove, open, release, handler, irqcontrol | UIO core, irq layer, power management |
| PCI driver | `Software/Machinekit-Driver-notes/hm2-export.c` 538-770, 1608-1985 | board slots, count, sticky error | load, probe, remove, unload, PLX program and reset | PCI core, HostMot2 core, FPGA |
| EPP drivers | `hm2-export.c` 128-361, 773-1051 | boards, ports, the port's timeout flag, wide mode | load, register access, program, reset, unload | parallel port, CPLD, FPGA |
| Ethernet driver | `hm2-export.c` 401-523, 1559-1596 | read queue, write packet, socket | read, write, queue, flush | board over UDP |
| Test driver | `hm2-export.c` 372-391, 1059-1551 | a memory image | fills it with a pattern, registers it | HostMot2 core |
| sysfs module | `hmreg_module/hmreg.c` and its copy in `Software/linux-driver-test` | attribute file, reserved page, mapping | load, show, store, unload | driver core, tasks |
| UART, SPI, counters, PWM counters, encoders, DPLL, interrupt logic, FIFO, AXI slave | `hm2/*.vhd`, `ip/axi_reg/*` | per block | per block | register map, pins, timers |
| Sserial, twiddler, resolver | `hm2/*` | small processors | run ROM programs | pins |

What is hard here, and so what the properties are for:

* **same-clock orderings.**  In a VHDL process the last assignment wins.  A register
  load, an expiry and an acknowledge can meet in one clock, and the outcome depends on
  the order of `if` statements (watchdog, ports, step generator, UARTs).
* **latency between pieces of one access.**  The bridge registers data, not strobes,
  and a strobe lasts several clocks, in each of which a register may act.
* **requests between two clocks**, by a flag that one side sets and the other clears
  asynchronously (PWM, BISS).
* **two FIFOs that must agree**: the packet UART keeps bytes in one and the lengths of
  frames in another, and a clear may meet the delay that ends a frame.
* **hand-kept tables** that must agree in four files (register map).
* **two processors** in the kernel driver, with a lock on one side only.
* **requests and answers paired by order** over a network that loses and delays, with
  a driver that may exit while a call waits.
* **sticky status** that belongs to a port and outlives the call that set it (EPP).
* **partial failure** when several boards are probed and one is refused, inside a
  registration that resets and programs the board's FPGA.
* **a published attribute** whose registers are not mapped yet, and calls of it that are
  still running when the module goes (sysfs module).
* **counters and polling loops** that end on the wrong side of zero (PLX reset).

Every hazard we know of is in `PROJECT.json` at the line where it bites, with the
properties that would catch it going wrong.

## 2. The modules

| Module | Models | Variables that matter | Extends / composes |
|---|---|---|---|
| `Watchdog` | `hm2/watchdog.vhd` | `wdtimer`, `wdtime`, `oldwdtimermsb`, `wdstatus`, `wdbite` | |
| `IOPort` | `hm2/wordpr.vhd` | a set of pins per register and port | |
| `HostMot2IO` | their composition in `hostmot2.vhd` 289-338 | history: `sincePet`, `loaded`, `enabled` | `Watchdog`, `IOPort` |
| `Hm2RegIO` | the bridge and the timing its component declares | `phase`, `left`, `indata`, `outdata`, the register file | |
| `RegisterMap` | decode, page numbers, descriptors, ID ROM | `bus`, `strobes`, `IDROMWEn`, `patched` | |
| `StepGen` | `hm2/kubstepgenzid.vhd` in step/dir mode | accumulator, timers, outputs; history: steps and ages | |
| `BlockRequests` | two blocks behind the bridge that act on a clock of their own | `edges`, the flags of each request, `pwmval`, `pops` | `Hm2RegIO`, `INSTANCE FastRequest` twice |
| `FastRequest` | the request flag and its two copies (`pwmpdmgenh.vhd`, `biss.vhd`) | `req`, `one`, `two` | |
| `PktUartFifo` | the dimensions and the FIFO of counts both halves have | | |
| `PktUartTx`, `PktUartRx` | `hm2/pktuartx.vhd`, `pktuartr.vhd` | data and count FIFOs, frame, delays | `PktUartFifo` |
| `PktUartLink` | two packet UARTs, the line and both hosts | wire, what the hosts are doing; history: `clears`, `spoiled` | both halves, refines `FrameChannel` |
| `PktUartInv` | the invariant of the pair: how flags, addresses, buffers and counts agree | | `PktUartLink` |
| `FrameChannel` | abstract: a queue of frames that clears shorten | `queue`, `last`, `clears` | |
| `UioIrq` | handler and irqcontrol | `flag`, `depth`, `lock`, program counters | |
| `UioDevice` | probe, remove, open, release | what each device holds; files orphaned by a remove | |
| `UioDriver` | the UIO driver as a whole | | `UioIrq`, `INSTANCE UioDevice` |
| `HmregModule` | both copies of `hmreg.c` | stage of load or unload, file, reserved pages, mapping, tasks inside and the page each is at | |
| `KernelModules` | the kernel modules | which is in use | `UioDriver`, `INSTANCE HmregModule` |
| `EthQueue` | the Ethernet transport | queues, packets in flight, call in progress | |
| `EppPort` | register access, program, reset through EPP | who owns the port, timeout flag, wide mode | |
| `EppBoards` | EPP drivers, load to unload | boards, ports, registered | `EppPort` |
| `TestPattern` | `hm2_test` | the image, the pattern, stage | |
| `LowLevelIO` | the drivers without PCI | which is loaded | `EppBoards`, `TestPattern`, `INSTANCE EthQueue` |
| `Plx` | PLX 9030 and 9054 reset and programming | FPGA, control bits, driver's program counter | |
| `PciDriver` | PCI driver, load to unload; a probe is one step | slots, bound, mapped, enabled, HAL | |
| `PciBoards` | the same with `hm2_register` in steps | what each FPGA runs, the probe in progress | `PciDriver`, `INSTANCE Plx`; refines `PciDriver` |

`MC*` modules give the constants values; `*_proofs` modules hold the proofs.

How code becomes actions:

* **Hardware.**  One step is one rising edge of the block's clock.  The decoder raises
  the strobes of one address only, so a step writes at most one register and does what
  the clock does to the rest.  Combinational signals are operators.  A register without
  an initial value starts with any value.  A 32-bit word is abstracted to what is told
  apart: `Watchdog` knows words as numbers below `2 * Half`, with `Half` the weight of
  the top bit (`2^31` in the hardware); `IOPort` knows them as sets of pins.  Arithmetic
  that wraps in hardware wraps in the model.
* **The bridge.**  A step is one clock.  The interconnect is external; the model
  follows the setup, wait and hold times of `hm2reg_io_hw.tcl` 128-139.
* **Drivers.**  An action is what runs without anything else being able to interleave:
  a call to the kernel, one bus access, one test-and-set.  Callers in other threads,
  devices, networks and the kernel are separate actions, marked external in the map.
* **Components that share no state** (the kernel modules, the drivers without PCI) are
  checked in one run by a module that lets each behaviour be of one of them.
* **History variables** record what the environment did (what was written last, when a
  direction changed); no guard reads them, except where a comment says that the
  environment is constrained by them.

### 2.1 Watchdog and ports

Per clock: count down until the top bit is set, reload on `loadtime` or a cookie whose
top byte is 0x5A, detect the rising edge of the top bit, and clear direction and open
drain of all ports in the clock after it.  `wdtime` has no initial value in the source;
`oldwdtimermsb` has.  `DrivenOnlyIfEnabled` is about pins, not registers: no data,
alternate output or inversion may make a pin drive that the host has not enabled since
the last bite.  `BiteOnTime` and `NoEarlyBite` pin down the clock of the bite.

Not claimed: that outputs stay off *until the host rearms the watchdog*.  The core does
not enforce that; after a bite a direction write takes effect at once.

### 2.2 Bridge

`WritesLand` and `ReadsAreCurrent` hold although the first strobed clock of a write
loads the previous word: the wait states repeat the load.  The converse is worth
knowing: a register with a side effect sees every write several times, the first with a
stale word, and a FIFO behind a read strobe is popped several times per read.  The model
abstracts the two clocks (bus: `FPGA_CLK1_50`, core: `FPGA_CLK2_50`, both 50 MHz) to one.

`BlockRequests` puts two such registers behind the bridge, each of which hands a request
to a faster clock (200 MHz in this design) whose edges may fall anywhere.

* A PWM value: `LoadTaken` says that once the strobe is over, the generator has the word
  or is still asked to take it.  The declared two wait states are just enough: with one,
  a load is lost when the fast side takes the first strobed clock's stale word and is
  still clearing the flag at the last strobed clock.  With double buffering the
  generator may run with the stale word until the load that follows it.
* The BISS word FIFO: a read asks again in each clock it is strobed, so one read can
  pop more than one word.  `PopTaken` bounds this on both sides: at least one pop, or
  one still asked for, and at most one per strobed clock.

### 2.3 Packet UART

`PktUartTx` and `PktUartRx` take one clock per step, `PktUartLink` joins the two by a
line whose delays are those the set-up of a link has to guarantee (said where the line
couples them) and adds the two hosts.  A push, a pop and a clear are each the strobe of
one access (`pktuartx.vhd` 346, `pktuartr.vhd` 372), and here a strobe takes one clock.
Behind the bridge it takes several, and every push, pop and clear would be repeated, see
above; no pin file of the repository builds a packet UART, so the link is modelled
without the bridge.  A byte is a symbol and a word packs `W` of them.

`FramesArrive` is a refinement: with the frames under way as the queue, every step of
the pair is a step of `FrameChannel` or a stutter, so no frame is cut, merged,
repeated or reordered, and only a clear loses any: one of the transmitter the newest of
the frames under way, one of the receiver the oldest.  What this asks of the
hosts: the transmitter is not cleared in a frame or the gap behind it (that it is not
busy is enough), and the receiver not while a byte is on the line or the transmitter in a
frame.  The receiver's frame delay may be running.  If it runs out in the very clock of
the clear, `PushRC` is raised and nothing takes it back (`pktuartr.vhd` 312-325,
353-358): the count of a frame that is gone is pushed into the cleared FIFO.  The model
does this (`spoiled`), and `FramesArrive` and `HalvesAgree` hold up to exactly that
clear.
`HalvesAgree` is the invariant this rests on (section 4); the run checks it as well.
`EveryFrameArrives` says that the channel does not stop.  All hold with the automatic
drive enable only if the host sends a frame when the UART is not busy (`Patient`) and the
driver-enable delay is at most one clock; without these restrictions see finding 4.

Not modelled: bit rates and line errors, the receive mask, a change of mode while frames
are under way.

### 2.4 Register map

The pages, the slices of the address that select an instance, the strobes and the
descriptors are taken literally from the four files.  A configuration says which blocks
are built and how many of each; `MCRegisterMap` takes the two pin files of the Quartus
project (`DRINGx2_34`, `SV8NA`) and two configurations with every block at once.

Met while modelling, and left out of the instance or harmless in it:

* UART and packet UART share their addresses (`IDROMConst.vhd` 280), so a
  configuration has one or the other;
* counters with a multiplexed index mask share the strobes of the other multiplexed
  counters; no pin file has both;
* `pindesc(124)` appears twice in `idrom.vhd` 274 and `pindesc(125)` is missing, which
  is beyond the 34 pins of the configurations here;
* ports are decoded with three address bits, so they repeat in their page;
* the stride of the SPI data registers and of the UARTs is not the one the header
  offers; discovery of their further instances is not claimed.

### 2.5 Step generator

The time from a rate write to a step runs through an accumulator, a look-ahead that
holds it (`ddshold`), and two timers.  `StepIsSafe` says that a step leaves in the
direction the output shows and after the set-up and idle times, `HoldAndWidth` that
direction changes and pulse ends respect hold and active times,
`StepsFollowAccumulator` that no step is lost or invented, `KeepsStepping` that the
holds never block each other.  The times are chosen when the axis is configured and not
while it runs: the source gives no promise for a pulse whose time changes under it.
A pulse time of 0 leaves the output high for good (`kubstepgenzid.vhd` 216) and is left
out.  Step tables, quadrature and up/down outputs, index and probe latches and the timer
sample are not modelled.

### 2.6 Kernel modules

`UioIrq` interleaves the handler and any number of irqcontrol calls at the grain of
single atomic operations.  `SMP` says whether the handler may run beside a lock holder
(the SoC has two cores); `OnePerEvent` says whether user space unmasks only in answer to
an event and one at a time, as a single UIO reader does.  `UioDevice` follows what probe
and remove allocate, in particular that the platform data's function pointers outlive
the driver.  A device can be unbound with files open; each of those keeps its power
reference until it is closed (`orphaned`).  A write through such a file, to memory that
was freed, is not modelled.  `UioDriver` puts the two together: a bound bridge device has
the interrupt.

`HmregModule` takes the two copies of `hmreg.c`, which request and map different pages.
Each step of init can fail and is undone as the code does it: a failed mapping releases
another page than was requested, so the requested one stays reserved.  The attribute is
published before the registers are mapped, and one page is mapped, while `hmreg_show`
reads 32767 bytes (line 27) and the other copy's `hmreg_store` writes 8191 (line 69).
`Spans` says how many pages the calls of each build run over, and a call accesses one
page per step; beyond the first there is whatever the kernel mapped there, or nothing,
which kills the task.  `RemovalKillsNobody` says that these two, a call let in by the
load before the mapping and a call that runs beyond its page, are the only ways to die:
unloading, or undoing a failed load, waits for the calls in progress, however long they
are.  `HeldWhileLoaded` says that nothing but the lost page is left behind.  `hmreg_show`
also stores its 32767 bytes into the one-page buffer of sysfs; what that overwrites is
not modelled.

### 2.7 Drivers without PCI

*EPP.*  `EppPort` is one EPP cycle per step, each of which may time out; `EppBoards` has
boards that share ports with each other or another driver.  The 7i90 has the same read,
write, set-up and cleanup as the 7i43 and neither program nor reset (and
`hm2-min-driver-template.c` is a copy of the 7i90's).  `SuccessMeansAnswered`: a call
that succeeds had every cycle answered, although the timeout flag is the port's and
sticky.

*Ethernet.*  One thread of the host; requests go out, datagrams come back, and the first
one found within the 200 ms is the answer.  The network is external: it keeps the order,
loses packets and may be late.  What `recv` does not fill is `Junk`.  `rtapi_app_exit`
may run at any moment (1592); a call that polls then runs into its timeout, and reads
after it return 1, as success, and leave the buffer as it was (406, 437), as writes after
it return 1 and are dropped (481, 498).  `CurrentUntilTimeout` names these reads as the
only ones that succeed without data.  Both it and `WritesApplied` end at the first miss:
from then on late answers are taken for later requests', and a flush that timed out
copies uninitialised memory and returns 1.

*Test patterns.*  Each pattern is an image with something wrong; the HostMot2 core
(external) checks one thing after the other.  `RefusedWhereMeant` says that the core
stops at the thing the pattern is there to test and not at an earlier one, so a slip in
one `set32` address shows.

### 2.8 PCI

`Plx` is one bridge access per step with the FPGA moving in between; the FPGA may be
slow, may fail with a CRC error, or may be stuck in its old configuration.  `PciDriver`
is one driver callback per step, with boards that come and go and a HostMot2 core that
may refuse one.  `PciBoards` opens the probe: `hm2_register` calls the board's reset and
program functions, which are `Plx`, and then accepts or refuses; the bus lets other
callbacks wait meanwhile.  It implements `PciDriver`
(proved), so what holds of slots and resources holds of it, and adds `BoardsRun`: a
registered board for which a firmware was named runs that firmware, from this
registration and not from an earlier one.

## 3. What is checked

Every property has a mutant: a plausible bug in a mapped definition with which TLC finds
the property violated under the same configuration.

| Run | Shows | Bounds, and why they are enough |
|---|---|---|
| `hostmot2_io` | ports and watchdog, all orders of writes | words of 2 bits: loads that count and loads that bite at once; two ports, as one alone could be cleared by luck |
| `hm2reg_io` | bridge, with two blocks on a fast clock | two registers to mix up, two words (current, previous or reset), the declared timing, a fast clock of one edge per bus clock or more, at any phase: the slowest allowed, which keeps its requests longest |
| `register_map` | all addresses of four configurations | complete: every page and word that decodes, both operations |
| `step_gen` | step timing and progress | 4-bit accumulator, 3-bit rate, times {1,2} and {0,2}: the counter wraps, rates of both signs and of all sizes relative to a step, each timer shorter and longer than the other |
| `step_gen_load` | violation, see below | the same with loads |
| `pkt_uart` | the pair implements a channel of frames; frames arrive | words of two bytes, frames of one to three (part of a word, one, more than one), FIFOs of four words and two counts, driver-enable delays 0 and 1 (with more nothing is sent, see below), three frames with up to two under way, so that one is pushed while another is sent or read, one clear of either half in any clock the hosts may choose |
| `pkt_uart_drive` | violation, see below | the same without a delay, and a host that does not wait for the UART |
| `kernel_modules` | the UIO driver on two CPUs, one unmask per event; both hmreg modules | two tasks that mask and unmask; three devices: device tree, platform data, misconfigured; both builds of hmreg, two tasks in the attribute, with calls of no page, one and eight, and of one and two, as the code's |
| `uio_driver_two_cpus` | violation, see below | the UIO driver without that restriction |
| `llio_drivers` | EPP, Ethernet and test drivers | two boards, two ports, two cycles, three calls of the core; two words, two queued commands, two packets in flight: offsets differ from indexes, and writes can overtake reads; every test pattern |
| `pci_boards` | load to unload, each board reset and programmed in its probe | two slots and three devices: more boards than slots, a board with each bridge and one without, each kind of refusal; bitfile of two bytes, one poll |
| `plx_timeout` | violation, see below | two polls, board found twice |

`pci_boards` also decides what `Plx` promises its caller: a stale configuration from an
earlier registration, a stuck FPGA and a CRC error are all in it.  Only `plx_timeout`
says `CHECK_DEADLOCK FALSE`: `Plx` alone stops after the bounded number of loads.
`llio_drivers` has a state constraint: nothing behind the first miss of the Ethernet
transport is explored, as both claims about it are about what comes before.  No run uses
symmetry.

**Fairness.**
* `step_gen`: weak fairness of a clock with `basicrate` and no host access.  `basicrate`
  is a clock divider's output, and the bus is not written in every clock.  The host may
  write other rates as often as it likes, and nothing is claimed unless the rate stays.
* `pkt_uart`: the clocks of both halves run, a byte and a gap end, and the reader reads
  what arrived.  The sender need not send and nobody need clear.
* `kernel_modules`: weak fairness of the handler's steps and of each step *inside* an
  irqcontrol call; the kernel runs an interrupt handler and a holder of a spinlock to
  completion.  User space need not call, the device need not raise.
* `pci_boards`: weak fairness of the driver's own steps and of the core's answer.  The
  FPGA has none, so `ProbesEnd` says that the driver's polls are bounded.

### Disagreements between code and comments

Four runs end in a counterexample, each refuting what the source says of itself:

1. `step_gen_load`: `kubstepgenzid.vhd` 265 means to avoid a step when the accumulator
   is loaded.  Line 288 assigns the same signal later in the process and wins, and the
   bit copied is not the one the step comes from.  A load that changes the step bit
   makes a step, past all timers.
2. `plx_timeout`: the loop at `hm2-export.c` 671-676 leaves its counter at -1 when it
   gives up, so the test `count == 0` (678) does not see it and reset returns 0; it
   does take an FPGA that became ready at the last read for one that did not, for there the
   loop is left with the counter at 0.
3. `uio_driver_two_cpus`: the comment in `hm2reg_uio-module.c` 83-87 promises that the
   flag prevents depth damage and that calls are serialised.  The handler (72) does not
   take the lock.  On two CPUs an irqcontrol(1) that runs between its test-and-set and
   its disable leaves depth 1 with the flag clear, and no later unmask helps.
4. `pkt_uart_drive`: `pktuartx.vhd` 363 promises the automatic drive enable "when there
   is data to xmit".  The count of a frame leaves its FIFO before the frame's first byte
   starts.  If it is the last count, the driver goes off after the gap before that byte
   and holds it back; the frame waits until another count is pushed, which turns the
   driver on again.  A host that waits for its last frame to go out waits for ever.
   Queueing a second frame behind one that is being sent is enough.
   With a driver-enable delay of two clocks or more one frame is enough (the same
   configuration with `Delays = {2}`, `MaxFrames = 1`, `Patient = TRUE` shows it): the
   count leaves the FIFO two clocks after it was pushed, before the delay is over; the
   driver goes off, the delay starts again, and the frame stays.  Of the delays 0 to 15
   that can be set, automatic mode works with 0 and 1 only.

## 4. What is proved

For all values of the constants, subject only to the named assumptions in the modules and
the hypotheses of a theorem.  Every safety property of a passing run is proved.  An inductive
invariant was checked by TLC, on the instance of the run, before it was proved.

**`HostMot2IO_proofs`** (any width, ports, pins; `HalfAssumption`: `Half >= 1`).
The inductive invariant is `TypeOK /\ EnableInv /\ TimerInv`.
* `EnableInv`: each direction or open-drain bit that is set was asked for since the last
  bite.  `DrivenOnlyIfEnabled` alone is not inductive, for it speaks of pins whose
  state depends on data.  `OutputsSafe` follows by cases of the output buffer.
* `TimerInv`: where timer and edge detector are, as a function of the loaded value and
  the clocks since.  Without it a state with a wrong `oldwdtimermsb` would satisfy
  every other conjunct and bite at the wrong clock.  `BiteInTime` and `BiteNotEarly`
  follow as action properties.

`TimerStep` and `PortStep` reduce the nine alternatives of a clock to "reload" or
"count" for the timer and "each register keeps, loads or clears" for the ports.

**`BlockRequests_proofs`** (any registers and words; any fast clock with at least one edge
per bus clock, in any phase).
* The bridge alone, for any timing with at least one wait state (`TimingAssumption`).
  The invariant adds `DataPathInv`: from the second clock of a strobe on, the data
  register holds this access's word.  With no wait state it has no second clock, and the
  theorems are false.  `WritesLandAlways`, `ReadsAreCurrentAlways`.
* `BusUndisturbed`: the detailed system implements `Hm2RegIO`, so `BusCorrect` needs no
  new argument.
* `LoadTakenAlways`, if a write has two wait states, as the component declares.  The
  invariant adds `Settled` (after the first strobed clock the register holds this write's
  word) and `JustTaken` (while requests are withdrawn because one was taken since the
  last bus clock, the generator has what the register holds).  With one wait state the
  word arrives only in the last strobed clock, where its request may be withdrawn, and
  the theorem is false.
* `PopTakenAlways`, if an access is set up for two clocks (the component declares four):
  a request takes up to three fast edges to go through, of which one at least falls before
  every bus clock (`FastEdgesDue`), so one that a reset left behind is gone when the next
  access reaches its strobe (`Settling`).  With one clock of set-up the late pop counts as
  one of the new read, and the theorem is false.  `RequestsTyped`.

**`RegisterMap_proofs`** (any configurations, pages and words, where the run has four
configurations).  The assumptions are what the four files and the pin files have in
common: a configuration has one kind of UART, a descriptor the host reads is one of
those of `IDROMConst.vhd` and comes once (`Standard`, `DescriptorAssumption`), the
strides and offsets are those of the core.  `Owner` gives every page to one block.
`BlocksMapped`: the decode of each of the 28 blocks stays on the pages of its owner and
has a register once for each direction; hence one register per access (`OneRegister`)
and one strobe (`RaisedOnce`), which is `OneAnswerAlways`.  For `AdvertisedReachedAlways`,
`BlocksHave` and `BlocksThere` compare the descriptors with the decode register by
register; the instance comes out right since a descriptor has at most as many instances
as its field of the address can tell apart.  `DiscoveryMatchesAlways` holds for up to 125
pins; for more it is false, as `idrom.vhd` has pin 124 twice.

**`StepGen_proofs`** (any widths, rates and times; for the step properties `Loads = {}`,
for a load does break them: the first finding).  `StepIsSafeAlways` and
`HoldAndWidthAlways`: `PulseTimed` and `DirTimed` tie each timer to the age of the event
it measures: how much is left on the timer plus how long ago the event was is at least
the time that was set.  The look-ahead enters through `StepNeedsAdd` and
`NoStepDuringAdd`: a step can come only out of an addition, and an addition that would
step against the direction is held.  `StepsFollowAlways`: the count of steps and the
accumulator move together, modulo the width.  The provers know nothing of `2 ^ n`, but the
library proves that it counts the subsets of a set of `n`, and from this follows what the
arithmetic needs (`PowerPositive`, `PowerSum`).  `Typing`, loads included.

**`KernelModules_proofs`** (any tasks, devices, builds and pages).
* The UIO driver.  `NoDepthDamage`: on one CPU, or on any number if user space unmasks
  once per event, depth and flag agree whenever nobody is in between; `QuietAlways`:
  after an irqcontrol(0) has returned, the handler does not start until another call.
  `LockInv` says who is inside, `MaskInv` what flag and depth are at each program counter
  of each party, `EventInv` that an event not yet answered means the flag is set,
  `QuietInv` carries a finished disable to the next call; `Refs` and `Served` say what a
  bound device holds and that the interrupt exists only with it.  The hypothesis
  `~SMP \/ OnePerEvent` cannot be dropped: that is the third finding.  `HeldAlways` (what
  a bound device holds) and the types (`KernelTyped`) do not need it.
* The hmreg modules.  `RemovalKillsNobodyAlways`, from four facts about the stage of the
  module: which pages are reserved (`Pages`), when the attribute exists and who may be in
  it (`Attribute`), when the driver is registered (`Driver`), and that a task still in
  the attribute with nothing mapped was let in by the load (`Calls`): whoever came in
  later keeps the mapping until it is out.  `HeldWhileLoadedAlways`
  joins them with the references of the UIO driver: a step of one module leaves the
  other's variables alone.

**`PciBoards_proofs`** (any devices, slots, bridges, length of a bitfile, polls).
* `OwnSlot` is not inductive as it speaks only of bound devices.  `Slotted` says what
  every slot below the counter is, and that two devices never share one; `Held` that
  what is held belongs to bound devices in every phase of the module.  Accepting a
  board, not accepting it, removing it and loading the module each have a lemma.
* `BoardsImplementDriver`: the probe taken in steps implements `PciDriver`; the invariant
  `Awaited` says that the device of the probe is still offered and a slot is still free,
  so that the end of `hm2_register` is the abstract probe.  `BoardsKeepSlots` follows.
  `BoardsRunAlways` needs `Fresh`: from the moment a reset is seen to have worked until
  programming returns, what the FPGA may be running is this registration's (`Verified`
  names those moments).  `BoardsTyped`.

**`LowLevelIO_proofs`** (any boards, ports, cycles, calls, registers, words, queued commands
and packets).  The drivers share nothing, so each has its own invariant and
`EppImplemented` carries what is proved of EPP over to the whole.
* A call over the parallel port.  `SuccessMeansAnsweredAlways`: `FlagKept`, a missed cycle
  is still in the port's sticky flag when the call looks.  `WideOnlyIfProvenAlways`:
  `CookieProves`, a cookie read with a missed cycle, or wide where that does not work,
  is wrong, and its second read is never wide.  `ResetReachesCpldAlways`: `ResetClears`,
  what each of the two pairs of cycles of a reset has done by the time it is answered.
* Boards and ports.  `NothingLeftAlways` and `AllOrNothingAlways`, from what a claimed
  port is claimed for (`Held`, `Ported`), how many boards there are in each phase of
  set-up and cleanup (`Counted`) and what the driver in use allows (`Driven`).
* Ethernet.  `CurrentUntilTimeoutAlways` and `WritesAppliedAlways` hold until the first
  miss, the point up to which requests and answers pair, exits and loads included.  A register's memory, the
  packets under way, the packet being filled and what the host believes form a chain of
  memories, each the one before with the next packet's writes applied (`Leads`); `Owed`
  counts the answers to come, `Paired` says that the oldest is the answer to the oldest
  request, and `Follows` that the offsets of the queue are the sums of its lengths.
  Those sums are functions over the naturals.  The library's induction theorems take an
  operator and cannot be used; `SetInduction` derives induction for a set from
  well-foundedness, which is enough for each particular set.  `IOTyped`.
* Test patterns.  `RefusedWhereMeantAlways`: what a read returns is followed address by
  address through the words each pattern sets, and `GoodUpToLimit` compares it with each
  check of the core up to the one that is meant (`Limit`).  There is no constant here, so
  TLC's run is complete too; the proof adds the reason.

**`PktUartLink_proofs`** (any sizes of words, buffers and FIFOs, any frames that fit as
often as the hosts agree to have them unread: `LinkAssumption`).  `LinkTyped`: a FIFO of
counts never outgrows its slots, though a push into a full one is not refused.
`LinkAgrees` and `LinkImplements` hold up to a clear of the receiver in the clock in
which its frame delay runs out (`spoiled`, section 2.3) and if `Usable`: in automatic mode the delay is at most
one clock and the host sends when the UART is not busy; in manual mode nothing is asked.
In automatic mode both halves of the condition are needed: finding 4.

The mapping reads the frames under way off the registers: the reader's words and the
rest of its frame in the receive buffer, the frames whose counts wait there, the one on
the line (bytes received, the byte in the air, bytes to come), and those in the transmit
buffer.  `FramesArrive` alone is not inductive, for it does not say where the next frame
goes.  `HalvesAgree` (module `PktUartInv`) is the types and `LinkInv`, which does:
* `Sender`: the words pushed of the frame that is being queued are in the buffer right
  behind the frames that wait, and the next one goes right behind those.
* `RxFlags`: the next word received goes right behind the frames that are unread, and the
  byte pointer agrees with the count.
* `TxFlags`, `LineInv`: which combinations of flags there are; the receiver is inside a
  frame only while the transmitter is in it or in the gap behind it.
* `Driver`: when there is a frame to send the driver is on and its delay is over, so a
  count is not overwritten.
* `Room`: as many frames are under way as the hosts agreed on.  They fit, so a word that is
  written is not one of a frame still to be read (`ModDiffers`, `RxRoom`, `TxRoom`).

Addresses wrap at a size that is not a number, and the provers know little of `%`; what
is needed of it is derived once at the head of the module, as is what sequences, sums of
counts and the bytes of a packed frame are.  Each action then has a lemma that says what
happens to each of the four parts of the queue.

**Only model-checked.**  Liveness (`KeepsStepping`, `EveryFrameArrives`,
`UnmaskedIsDelivered`, `ProbesEnd`): fairness is beyond the prover, as is ENABLED.

No module uses RECURSIVE operators.

## 5. What is not modelled

* The HAL core, the HostMot2 HAL driver, the kernel and the networks are not in the
  repository; they appear as environment.  So do `hm2_eth_probe`, `init_net`,
  `close_net` and the socket functions, which `hm2-export.c` calls or declares and which
  it does not contain.
* `AXI_Reg_Wr.vhd`: no design here instantiates it, so nothing says which masters it
  meets.
* The quadrature counters: assignments of one clocked process.  A rearm that meets the
  index in the same clock is listed as a hazard.
* UART and SPI: their byte engines, FIFOs and clears are those of the packet UART
  without frames.  PWM and absolute encoders: only the requests between their clocks.
* Pin multiplexing: tables worked out when the design is elaborated, without state.
* Interrupt logic, DAQ FIFO, demand DMA: built by no configuration of the repository.
* DPLL, resolver, wave generators, scalers: arithmetic, or free-running counters without
  interaction.  Sserial and twiddler run ROM programs whose source is not here.
* Of the step generator: step tables, quadrature and up/down outputs, index and probe
  latches and the timer sample; its three variants have the same datapath.
* `hmfs` (a FUSE file system without state of its own), memory tests, build scripts,
  reference-design glue, vendor test benches.
* Electrical behaviour, metastability, and the timing of combinational paths.

## 6. What would come next

The plan of modules is done, in the order watchdog and ports, bridge, UIO, Ethernet,
PLX, PCI, EPP, step generator, register map, then packet UART, requests between clocks,
test patterns, sysfs modules and the compositions.  What would add most now:

1. the FIFO registers of the packet UART behind `Hm2RegIO`, with the repeated strobe, on
   a board whose master is known;
2. the buffered SPI, the one remaining block with queues of its own.
