# A TLA+ model of ButterflyCore

ButterflyCore is an Arduino core for the AVR Butterfly and the ATmega169/329/649
family: the run-time that links with a sketch (`cores/butterflycore`), the libraries
that come with it (`libraries/*`) and the Optiboot bootloader
(`bootloaders/optiboot_flash`). Nothing in it has an operating system under it. What is
concurrent is concurrent in one way only: the **main line** (the sketch and the library
functions it calls) is interrupted, at any instruction at which the I flag of SREG is set,
by **interrupt handlers** that share variables and device registers with it; and the
**devices** (USART, TWI, timers, SPI peripherals, the W5100 Ethernet chip, the SD card)
go on while both run. There are no threads, locks or queues beyond the ring buffers, and
no memory survives a reset but flash, EEPROM, the dataflash and the SD card.

## 1. Inventory

| Component | State it keeps | Operations | Shared with | What makes it hard |
|---|---|---|---|---|
| **HardwareSerial** (`HardwareSerial*.{h,cpp}`) | two ring buffers with head and tail, `_written`; UCSRA/UCSRB/UDR | `begin end available peek read availableForWrite flush write` | `_tx_udr_empty_irq`, `_rx_complete_irq`, the USART | indices shared without locks, two status flags that lag behind the data, polling when interrupts are off |
| **wiring.c** | `timer0_overflow_count`, `timer0_millis`, `timer0_fract` | `millis micros delay delayMicroseconds` | TIMER0_OVF | 32-bit values read in bytes, a pending overflow, 8-bit fraction, wrap-around |
| **WInterrupts.c** | `intFunc[]`, mask registers | `attachInterrupt detachInterrupt` | INT0 handler | function pointer stored while the interrupt may be enabled |
| **Tone.cpp** | `tone_pins[]`, toggle count, pin mask | `tone noTone` | TIMER1_COMPA | the handler stops the timer, not the bookkeeping; a four-byte count stored in pieces |
| **wiring_analog/digital/pulse/shift** | port, timer and ADC registers | `pinMode digitalRead digitalWrite analogWrite port* shiftIn shiftOut pulseIn pulseInLong` | handlers with pins of their own | read-modify-write of shared registers, counters and clocks that wrap |
| **Print, Stream, WString, IPAddress** | a heap buffer per String, a stream's position | formatting, parsing, searching, editing | the heap, a stream that runs dry | memory that runs out in the middle, lengths counted in one place and used in another, carries and signs |
| **Wire + twi.c** | `twi_state twi_slarw twi_error`, repeated-start flags, master, slave and user buffers with lengths and indices | `beginTransmission write endTransmission requestFrom onReceive onRequest`, `twi_readFrom twi_writeTo twi_transmit twi_reply twi_stop twi_releaseBus` | TWI handler, other masters and slaves on the bus | master call against slave traffic, arbitration, NACK, repeated start, busy waits without timeout |
| **SPI** | `initialized interruptMode interruptMask interruptSave` | `begin end usingInterrupt notUsingInterrupt beginTransaction endTransaction` | handlers that use SPI | masking and restoring of interrupts, one saved byte for all |
| **SoftwareSerial** | `active_object`, receive ring, overflow flag | `listen stopListening begin end read available peek write overflow` | PCINT handler | one ring for all objects, switching the listener |
| **Servo** | `servos[] Channel[] ServoCount` | `attach detach write` | TIMER1_COMPA | pulses in progress while channels change |
| **Timer/Event** | ten events | `every after oscillate pulse stop update` | callbacks that call back | a callback stops or reuses the slot it runs in |
| **Ethernet** (w5100, socket, Client, Server, Udp) | `_server_port`, `_sock` per object, 4 hardware sockets | `connect stop write read available accept begin parsePacket beginPacket endPacket` | W5100, the peers | socket states change by themselves, stale socket numbers, reuse of sockets |
| **Dhcp** | `_dhcp_state`, lease counters, transaction id | `beginWithDHCP checkLease request_DHCP_lease` | servers, lost and late packets | retries, renewal, rebinding, leases that expire |
| **Dns** | request id, socket | `getHostByName` | server | late or foreign answers |
| **SD** (Sd2Card, SdVolume, SdFile, File, SD) | one-block cache, dirty flag, mirror block, open file position; on the card FAT, directory and data | `open read write sync truncate remove mkdir rmdir seek close` | card, SPI bus | a dirty cache block against other users of the cache, several steps per operation with a failure or a reset in between |
| **Butterfly** (LCD, Dataflash, Temp) | text buffer, scroll state, update flag; page buffers | `print clear wait`, page and buffer accesses, `getTemp` | LCD frame handler, the AT45 chip | text replaced while it is scrolled; a command decoder in the chip that may be in the middle of a command |
| **EEPROM, Optiboot_flasher** | EEPROM cells, a flash page | `read write update get put`, page erase/fill/write | power | several cells or steps per object, torn by a reset |
| **Bootloader** (`optiboot_flash.c`) | page buffer, address, watchdog | STK500 commands, `do_spm` | host, watchdog, the application | lost synchronisation, a reset in mid-page |
| **USBCore, CDC, PluggableUSB, HardwareSerial1-3** | - | - | - | compiled only for chips with USB or several USARTs: dead here |

### What makes each component correct

- **HardwareSerial**: bytes leave and arrive in order, once each; `flush()` and `end()` lose
  nothing; the handler never runs on an empty ring; what `available()`, `peek()` and
  `availableForWrite()` say stays true until the sketch acts on it; every call returns.
- **Wire / twi**: what `endTransmission()` reports sent is what was written; what `read()`
  returns is what was received, in this transaction; an acknowledged byte is handed over; no
  transaction runs on behind a call; every call returns.
- **DHCP**: the countdown loses no time, renewal and rebinding come before the lease is over,
  the lease belongs to the server that will be asked to renew it, the chip uses no address
  that nobody granted, and a client with a living server is served in the end.
- **Clock**: no tick is lost or counted twice, at any interleaving and through every wrap.
- **Timer**: an event runs neither early nor too rarely; `oscillate()` and `pulseImmediate()` leave the
  pin as their comments say.
- **SD**: what was synced survives any failure or reset; the two FATs agree; no cluster has two
  owners; a read gives what was written.
- **Ethernet sockets**: an object reads and writes its own connection, no socket is lost, a
  datagram keeps its frame, and every call returns, with the four exceptions that `EthernetReturns` names.
- **SPI, WInterrupts**: a transaction is exclusive and leaves the interrupt masks as it
  found them; no handler calls a half-written pointer; a driver gives the bus back.
- **Servo, Tone, SoftwareSerial, LCD, pins**: pulse widths, toggle counts, received bytes, text
  and levels survive a change by the main line, or by a handler, at any moment.
- **Strings and numbers**: a text fits its buffer and is what its calls made it, also when
  memory runs out; what is printed parses as itself.
- **Dataflash, EEPROM**: a call does to pages and cells what is asked of it, after any other call (but deep power-down is
  entered and left only with the chip deselected, and nothing else is called in it).
- **Bootloader**: what was acknowledged and compared is in flash, and the application runs in
  the end.

## 2. Modules

| Module | Models | Uses |
|---|---|---|
| `ByteChannel` | the abstract specification of a byte queue: accept, deliver, discard | - |
| `Sreg` | the I flag, shared by both halves | - |
| `SerialTx` | transmit half of HardwareSerial, `_tx_udr_empty_irq()`, the transmitter | implements `ByteChannel` |
| `SerialRx` | receive half of HardwareSerial, `_rx_complete_irq()`, the receiver | implements `ByteChannel` |
| `HardwareSerial` | the whole object on one main line, under one I flag | extends `SerialTx`, `SerialRx`, implements both |
| `Boot` | `optiboot_flash.c`: STK500 loop, flash, watchdog; host; application with `optiboot.h` | - |
| `Uart`, `MCUart` | what uses the serial line: the sketch's port or the bootloader | extend `SerialTx`, `Boot` |
| `Twi` | `twi.c`, TWI_vect, the TWI unit and the bus | - |
| `Wire` | class TwoWire and the callbacks | extends `Twi` |
| `DhcpLease` | `checkLease()`: countdown, renewal, rebinding; options of a reply | - |
| `Dhcp` | `request_DHCP_lease()`, `parseDHCPResponse()`, `begin()`, `maintain()`, network and servers | - |
| `EthernetSockets` | clients, a server, UDP and DNS over the sockets of a W5100, and the peers | - |
| `SdVolume`, `SdFile` | the block cache, the FAT and its mirror; files and directories, as computations on a machine | `SdFile` extends `SdVolume` |
| `SD`, `MCSD` | a sketch that uses `SD.h`, a card that refuses transfers, power that fails | extend `SdFile` |
| `Spi` | SPI transactions and INT0 | - |
| `SdCard` | `Sd2Card.cpp`, the card's driver on a shared bus | extends `Spi` |
| `Clock`, `TimerEvents`, `Tone`, `Servo` | timer 0 with `millis()`, `micros()`, `delay()`; the Timer library; `Tone.cpp`; `Servo.cpp` | - |
| `Timers` | the parts that keep time, one at a time | extends these and `DhcpLease` |
| `Lcd`, `SoftSerial`, `Pins`, `Pulse`, `Temp`, `Eeprom` | the LCD's text and frame interrupt; SoftwareSerial; pins, PWM and shifts; pulses and cycle counts; the thermometer; `EEPROM.h` | - |
| `FlashMemory` | the abstract specification of the dataflash: pages, buffers, a place to read or write, as the chip moves them | - |
| `Dataflash` | the bytes of each call and the chip's command decoder | implements `FlashMemory` |
| `WString`, `Text` | class String; Print, Stream and IPAddress | - |
| `Board`, `MCBoard` | the board's other parts, one at a time | extend these and `SdCard` |
| `HardwareSerialProofs`, `WireProofs`, `DhcpLeaseProofs`, `EthernetProofs`, `TimersProofs`, `SdCardProofs`, `PartsProofs`, `BoardProofs` | theorems | extend the module of that name (`WireProofs` is about `Twi`, too, `EthernetProofs` extends `EthernetSockets` and `Dhcp`, `PartsProofs` `Dataflash`, `Pins` and `Text`, `BoardProofs` `Board` and `PartsProofs`, `TimersProofs` the proofs about the lease, too) |

The text shared by all of them:

- **Granularity.** A step of the main line reaches to the next access to something a handler
  or a device shares with it; what lies between two such accesses cannot be observed. A
  handler is one step, because AVR handlers run with interrupts off. `pc` (`rpc` in
  `SerialRx`) says where the main line is. Where a call is a straight run of accesses, it is
  a list of them (`todo` in `Spi`, `Pins` and others) from which steps are taken in turn.
- **History variables** (`out`, `heard`, `age`, `ticks`, `misused`, ...) are marked in the
  declarations. No action reads them except to enforce a bound, or to stop where a
  sketch has already done what the library forbids.
- **Mutated forms.** Definitions such as `IncNoWrap` or `FlushForgetsTxc` stand directly before
  the operator they vary. They are what an error in the code would look like, no action uses
  them, and putting one in the place of its operator makes a property fail: the list
  `mutants` of `PROJECT.json` says which.
- **Timing.** Where the code relies on being faster than a frame, the model has a constant
  `HeldUp`: FALSE if other handlers let the main line and the handler run within the time of
  a frame (or of a message), TRUE if they may hold them up for as long as they like.
- **Sums.** `Uart`, `Timers` and `Board` put modules that share no variable side by side and
  look at one at a time: a variable (`program`, `running`, `part`) chosen in the initial
  state says at which. They share constants where these mean the same.

### HardwareSerial: SerialTx, SerialRx

In `SerialTx`, `pc` walks through `write()` (`w_check`, then `w_txc` on the shortcut, or `w_full`,
`w_head`, `w_udrie` on the way through the ring) and through `flush()` (`flush`, `f_done`), on
behalf of the sketch or, with `ending`, of `end()`. `UDR`, `shift`, `UDRIE` and `TXC` are the USART;
`UsartLoad` moves a byte to the shift register and `UsartFrameEnd` sends it. The polling of
`write()` and `flush()` with interrupts off plays the handler by hand, so `WritePoll` and
`FlushPoll` share `TxUdrEmptyIrqBody` with it. Bytes are numbered as they are written, so
every loss, repetition and reordering shows in `out`.

In `SerialRx`, `fifo` is the receiver of the USART with its parity errors, `RxCompleteIrq` the handler,
`ReadLoad`/`ReadAdvanceTail` the two moments of `read()` between which the handler may run.
`end()` takes three steps, because frames arrive until RXEN is cleared and the handler may run
until RXCIE is. Only one side moves each index, so `available()` and `peek()` are one step.

`HardwareSerial` conjoins the actions of both halves, which share the I flag of module `Sreg`: a call
of one half leaves the other alone, `begin()`,
`end()` and the I flag act on both, and either interrupt may come at any time.

### Boot

The STK500 loop takes a byte at a time (`BootHears`); `Spm` is one flash operation, with the
temporary page that SPM fills by words and the read-while-write section that reads as 255
until it is enabled again. The host (external) sends commands, waits for the whole reply, and
starts over with a reset if there is none; it compares what it has written. One fault per
behaviour (a byte lost, one garbled, power that fails) may come at any step. Afterwards the
application runs and writes a page of its own through `do_spm()`.

### Twi and Wire

`twi_readFrom()` and `twi_writeTo()` take the same steps: `wait` (for TWI_READY), `claim` (set
the state, prepare), `start` (write TWCR), `busy` (wait for the end), `ret`. One action per
group of statuses models TWI_vect; the actions of the unit report a status by setting TWINT
and go on when TWINT is cleared. `mode` is what the unit does on the bus, `foreign` whether
another master holds it. A stop condition by `twi_stop()` is over when it returns, as the code
waits for it. `Wire` adds the two buffers of TwoWire and runs the callbacks inside the
handler actions, where the code runs them; its variable `quiet` says whether the sketch sends,
on a bus of its own, or other masters send. Which byte a slave answers is left out (`LoadAnswer`),
a general call too. `begin()` is not called while a repeated start holds the bus.

### DhcpLease and Dhcp

The client is cut at `request_DHCP_lease()`. `DhcpLease` has time in it: `checkLease()` in its
two halves (`CountOnly` or `Renew`, then `Rebind` or `NoRebind`), clock values kept as ages
because the code only subtracts them, and a request that succeeds with the options of a reply,
or fails. `Dhcp` has messages in it: the loop of the request with DISCOVER and REQUEST, every
reply of `parseDHCPResponse()`, response timeouts (`ResponseTimeout`), the deadline (`GiveUp`),
and a set `net` of messages from which reading takes nothing, so that each may be lost,
duplicated, delayed and reordered. The lease may be due whenever the sketch calls
`maintain()`. A server has one address for the client; transaction ids count from the initial
one of the call, and return to 0 when it is over because nothing can refer to them any more.

### EthernetSockets

`chip` is the W5100: the state of each socket, its receive memory, a SEND at work; `_sock`,
`_server_port` and `_remaining` are the library's. Every connection and every opened UDP socket
gets a number, its use, so that what an object reads can be compared with what it was
given its socket for (`mine`). A call that does not wait is one step, one that waits
(`connect()`, `stop()`, `write()`, the answer of a DNS query) is a step for each look.
Peers connect, send, acknowledge and close as they like. A connection whose peer takes nothing has no
room for the next `write()` (`tx` is "full") until the peer takes some, which it need not; and a datagram
that is the header of a DNS answer and nothing else stands for every answer cut off before its end:
`ProcessResponse()` then goes by what an earlier read left behind, and finds no address (`Answer`),
a wrong one (`Chance`), or no end of a name (`Skip`).

### SdVolume, SdFile, SD

A call of the SD library is a deterministic computation on a machine of the card's blocks and the
library's variables, so it is an operator from machine to machine (`cacheFlush`, `fatPut`, `write`, ...)
that stops at the first failure, as the code returns; `Do` and `Upd` carry that on. The
choice of which block transfer fails (`fail`), and whether the refused block was written all the
same (`late`), is made before. `SD` has the sketch: calls on paths, with a history of
what each file should hold (`want`) and what of it was synced (`safe`). Power that
fails in the middle of a call leaves the card as the first transfers of that call made it.

### Spi and SdCard

The calls are lists of steps with INT0 between any two. `misused` records what the
documentation tells a sketch not to do (nested transactions, `usingInterrupt()` or
`attachInterrupt()` inside one, a handler that uses the bus unannounced); what happens then is
in section 5. `SdCard` puts the driver of the card on that bus, with failures at any step. Two kinds
of call keep the transaction open from one call to the next: partial block reads, and a
`writeStart()` or `writeData()` that succeeds. `writeData()` and `writeStop()` go on without a look at
whether it is open; `stream` remembers whether it was.

### Clock, TimerEvents, Tone, Servo

`Clock`: `Tick` is the hardware; TOV0 waits for the handler while I is off. `millis()` reads
`timer0_millis` in two halves, `micros()` reads the count, TCNT0 and TOV0 in that order.
`delay()` polls `micros()`, which `MicrosExact` allows to be written as the exact time.
The handler is never held up for a whole round of the timer, as the code assumes.
`TimerEvents`: `update()` goes through the slots; a callback is a window in which the
sketch may start and stop any event, in the slot that is running too, and time passes;
`CallbackReturn` is what `Event::update()` then does to whatever is in the slot.
`Tone`: the count is two digits stored in an order the compiler chooses; the handler may come
between. `Servo`: timer 1 counts to `Wrap`, its interrupt is late by up to `MaxLate`, and
histories say since when a pin is high and for how long it is due to be.

### Board: Lcd, SoftSerial, Dataflash, Pins, Pulse, WString, Text, Eeprom, Temp

`Lcd`: a call stores into `TextBuffer`, its bounds and flags step by step, the frame interrupt copies and scrolls.
`SoftSerial`: two objects, one inverted; a frame is received by the handler whole, or as may be
any byte if it began before the object listened. `Dataflash`: a call is the bytes it
sends, each goes through the chip's decoder, and `FlashMemory` says what the call must have
done; a read of the flash goes on from one page into the next, and from the last of 2048 to the first. `Pins`: a register is a set of pins, a call a list of register accesses, the sketch and a handler
each have pins of their own; a pass of the loops of `shiftOut()` and `shiftIn()` is a list by itself (`ShiftPasses`). `Pulse`: one poll, one unit of time. `WString`: a buffer with a
terminator, `realloc()` that may fail; `meant` is what each string should be. `Text`: digits are
values; a stream gives its characters in time or not. `Eeprom`: a cell at a time, with power that fails. `Temp`: the
tables of `ButterflyTemp.h`, word for word.


## 3. Runs

| Run | Bounds | Question |
|---|---|---|
| `uart` | transmit ring of 3, 6 bytes, `HeldUp` FALSE; pages of 4 bytes, 2 sessions of the host, 1 fault | the handler finds a byte, `flush()` and `end()` cut nothing, every call returns, the half refines `ByteChannel!Lossless`; what the host compared is in flash, and the application runs again in the end |
| `hardware_serial` | rings of 2 and 3, FIFO of 2, 3 bytes, 4 frames | each half takes its own steps only, order and promises of the receiver, refinement of `ByteChannel!Spec`, drops only when full, `end()` leaves the port quiet |
| `twi` | buffer of 2, one message, any slave, other masters with up to 4 bytes | reads are fresh, the bus is held only for the next call, acknowledged is given, every call returns |
| `wire` | buffer of 2, lengths 0 to 2; sending on a bus of one's own, or reading with other masters of up to 4 bytes | what `endTransmission()` reports is what was written, reads are whole, a message of another master overwrites nothing that is still to be read |
| `dhcp` | 2 servers, 2 transactions per call | the lease belongs to the server it is renewed from |
| `dhcp_served` | 2 servers, 1 transaction per call | a lease in the end, unless `Stuck` |
| `dhcp_stuck` | 1 server | the first disagreement of section 5; TLC finds it |
| `sd` | blocks of 2 cells, 4 clusters, FAT blocks of 4 entries, 5 calls, 1 fault among the first 5 transfers of a call | what was synced survives, the FATs agree, one owner per cluster, reads give what was written, flushes with a working card succeed unless the cache is `Frozen` |
| `ethernet` | 2 sockets, 4 sketches of two kinds of objects each, 3 uses, 5 bytes in a receive memory, 4 calls | an object reads its own connection, no socket is lost, datagrams keep their frames, every call returns except one that missed its connection, one on a socket that is another's by then, a `write()` to a peer that takes nothing (`NoRoom`) and a DNS answer that is cut off (`Skipping`) |
| `timers` | see below, 70 ticks | clocks are exact, leases are renewed and rebound in time without drift, events, tones and servo pulses are as asked for |
| `board` | see below | the LCD, serial ports in software, the bus and the card, the dataflash, pins, pulses and waits, strings and numbers |
| `string_replace` | 4 characters, replacements of up to 2 | the second disagreement of section 5; TLC finds it |

**Why the bounds are enough.** A ring of three (two usable slots) is the smallest with a state
between empty and full, one of two the smallest there is; six bytes and four frames take the
indices around, and the proofs below hold for every size. A bootloader page of four bytes has a
first, a last and a middle word boundary; two sessions are one that is torn and one that mends
it. A TWI buffer of two tells the first from the last byte, and four foreign bytes reach past it
by the acknowledged and the refused one. Two DHCP transactions let an offer of the first arrive
in the second. The card has more clusters than one file may use and fewer than all want, and its
FAT two blocks, so that the cache has to change from one to the other in mid-chain. Two sockets
are one fewer than the objects of a sketch and its server want at once, so that they run out.
`timers`: timer 0 counts to 4 and the fraction to 5, so `timer0_fract`,
`timer0_overflow_count`, `timer0_millis` and the result of `micros()` all wrap several times in 70
ticks; lease terms lie on both sides of the default, and calls up to 7 ticks apart miss whole
seconds of 3; two event slots are the running one and another; two tone pins and two servos are
the one in progress and one that is changed. `board`: a display of 2 with a text buffer of 3
has texts that fit, scroll, and are cut; a receive ring of 3 overflows; the card is read in parts
of blocks of 3; the dataflash uses the first and the last byte of its 264 and pages on
both sides of bit 7, where the address splits into bytes; pin 11 has no timer, pins 12 and 15 have different
ones, so that the handler's pin is on no timer of the sketch's (what happens on a common one is in section 5); `Duties` holds 0 and 255, which are levels, and two between, `Timeouts` the
values at which `pulseIn()` rounds to none; strings have up to three characters, with growth by
one; numbers lie at every change of length and sign of 16 bits.

`sd`, `ethernet`, `timers` and `board` switch the deadlock check off: in the first two a sketch
that has used up its calls stops, in `timers` time ends, and in `board` the calls of the
dataflash are counted, and a sketch that has misused the bus stops. In every other run a deadlock is an error.

**Fairness.** Weak fairness of a step inside a call says that the processor goes on; the sketch
never owes a call, except where the property needs one: `Served` assumes that the sketch keeps
calling `maintain()`, as the examples of the library do. Handlers run when pending and devices finish what
they began, which their clocks guarantee. In `Twi` a step inside a call is strongly fair,
because an interrupt only postpones it, and other masters may keep the bus busy but let it go
each time. In `Dhcp` messages to and from a living server are strongly fair: the network
may lose any of them, but not for ever the one that is sent again and again while it is waited for.
`BootFairness` says that the bootloader handles a byte it has, that a flash operation ends,
that the watchdog's oscillator ticks and fires, and that a host that has something to send begins; it
owes no answer of the host. `EthernetFairSpec` has the
library go on in a call it is in, and the chip finish a handshake or a transmission by success or by
its own timeout; peers owe nothing, not even to take what is sent (`PeerTakes` is not fair).

## 4. What is proved

TLAPS checks these for every value of the constants that the assumptions allow (a buffer
of at least two slots, a positive second, and so on):

| Module | Theorem | Says |
|---|---|---|
| `HardwareSerialProofs` | `TypeCorrect` | `TxSpec => []TxTypeOK` |
| | `FlushWaits` | `TxSpec => []NothingCut`: `flush()` and `end()` finish only when the last bit is out, whether `HeldUp` or not |
| | `NeverOverrun` | without `HeldUp`, `TxSpec => []IrqHasData` |
| | `RoomIsThere` | without `HeldUp`, `TxSpec => []PromiseKept`: writes that `availableForWrite()` had room for do not wait |
| | `NothingLost` | without `HeldUp`, `TxSpec => TxIsAChannel`: the transmitter implements `ByteChannel!Lossless` |
| | `RxTypeCorrect` | `RxSpec => []RxTypeOK` |
| | `ReadIsFifo` | `RxSpec => []RxInOrder` |
| | `PromisesKept` | `RxSpec => []PromisesHold` |
| | `ReceivedInOrder` | `RxSpec => RxIsAChannel`: the receiver implements `ByteChannel!Spec` |
| | `DropsAreForced` | `RxSpec => DropsOnlyWhenFull` |
| | `HalvesKept` | `Spec => TxSpec /\ RxSpec` |
| | `EndedIsQuiet` | `Spec => []EndIsQuiet` |
| | `ObjectImplements` | without `HeldUp`, `Spec => ImplementsHalves /\ TxIsAChannel` |
| `WireProofs` | `HeldForCalls` | without `HeldUp`, `TwiSpec => []HeldOnly` |
| | `ReadsItsOwn` | without `HeldUp`, `TwiSpec => []ReadIsFresh` |
| | `GivesWhatItAcked` | without `HeldUp`, `TwiSpec => []AckedIsGiven` |
| | `TellsWhatWasSent` | without `HeldUp`, `WireSpec => []SentIsWanted` |
| | `ReadsWhatIsDue` | without `HeldUp`, `WireSpec => []ReadIsDue` |
| `DhcpLeaseProofs` | `LeaseTypeCorrect` | `LeaseSpec => []LeaseTypeOK`: no counter underflows |
| | `CountersExact` | `LeaseSpec => []NoDrift` |
| | `RenewedInTime` | `LeaseSpec => []RenewInTime` |
| | `ReboundInTime` | if `T1Named`, `LeaseSpec => []RebindInTime` |
| `TimersProofs` | `LeaseKept` | if `T1Named`, `TimersSpec => []LeaseInTime` |
| | `EventsHold` | if no event is to run no times, `TimersSpec => EventsKept` |
| | `ClockHolds` | `TimersSpec => []ClockKept` |
| | `TonesHold` | `TimersSpec => []TonePulses` |
| | `PulsesHold` | `TimersSpec => PulsesKept` |
| `EthernetProofs` | `LeaseIsOwn` | `DhcpSpec => []LeaseFromServer` |
| | `EthernetInvariant` | `EthernetSpec => []EthernetInv` |
| | `SocketsAreNotLost` | `EthernetSpec => []NoSocketLost` |
| | `ReadsOwnConnection` | `EthernetSpec => []OwnConnection` |
| | `DatagramsAreKept` | `EthernetSpec => []DatagramsKept`: frames, and the address of an answer that is not cut off |
| `SdCardProofs` | `InterruptsKept` | `SdCardSpec => []TransactionsHold` |
| | `NeverHalfAPointer` | `SdCardSpec => []CalledWhole` |
| | `CardIsKept` | `SdCardSpec => []CardKept` |
| `PartsProofs` | `FlashIsMemory` | `DataflashSpec => Memory!MemSpec`: the library's calls and the chip's decoder implement `FlashMemory` |
| | `PinsHold` | if `TimersApart`, `PinsSpec => []PinsKept` |
| | `TextFinds` | `TextSpec => []FindsFirst` |
| `BoardProofs` | `PortHolds` | `PortSpec => []PortKept` |
| | `TextShows` | `LcdSpec => []LcdShows` |
| | `ObjectsComeBack` | `EepromSpec => [](CellsKept /\ ObjectComesBack)` |
| | `PulsesAndDelays` | if `ClockOutlastsTimeouts`, `PulseSpec => [](PulseMeasured /\ DelayIsAsked)` |
| | `PinsAndWaitsHold` | if `ClockOutlastsTimeouts` and `TimersApart`, `BoardSpec => []PinsAndWaits`: pins, pulses, delays that count to within four cycles, and searches |
| | `BoardShares` | `BoardSpec => [](PortKept /\ LcdShows)` |
| | `StoresHold` | `BoardSpec => StoresKept`: the dataflash implements `FlashMemory`, and objects come back from the EEPROM |

The inductive invariants and why each is needed:

- *Transmit.* `NothingCut` is not inductive: whether the loop of `flush()` may end is read from
  UDRIE and TXC, so `FlagInv` carries what these say at every step: UDRIE off means an empty
  ring but for the moment `w_udrie`, and TXC on means empty registers but for `w_txc`.
  `NeverOverrun` needs `RingInv`: UDRIE on means a byte in the ring, and (`OneOnly`) inside the
  window of `write()` one of two bytes stays until UDRIE is set, which is where the assumption that
  nothing is held up for a frame is used. `RoomInv` adds that what was promised is at most what is free.
- *The channel.* `StoredInv` says what the slots between tail and head hold: the last bytes written,
  in order. With it the bytes in flight, registers first and then the ring, are the contents of
  `ByteChannel`, and each step accepts one, delivers one or stutters. The lemmas on the ring (`RingStore`,
  `RingEmpty`, `HeldIs`) are stated for constants, so that they serve both sides of a step.
- *Receive.* `FifoInv` ties the two histories to the slots between tail and head, and
  (`ReadInv`) the byte that `read()` has loaded to the slot it has not released yet. The arithmetic of the ring (`RxInc`, `Distance`)
  is stated in lemmas about `%`. `DropsAreForced` and `ReceivedInOrder` follow from the same invariant.
- *The object.* A step of `HardwareSerial` is a step of each half or leaves it alone
  (`TxSimulated`, `RxSimulated`), so that all theorems about the halves hold of the object.
- *Two-wire.* `ControlInv` ties what the unit does to what the main line waits for: the status that waits for the
  handler fits `mode` (`StatusTells`), the unit is master, or told to send a start condition, only in
  a call or to hold the bus (`MasterInCall`, `StartInCall`), and between the claim and the start only this node's address
  can have been served (`Claimed`). Here `HeldUp` matters: a whole foreign message in that
  window would end the wait of the call and leave the start condition behind it.
  `ReadInv` is what makes a read its own: `Counted` and `Copied` say that the buffer holds what the slave
  has sent but for a byte that waits for the handler, and `Room` that the acknowledge, given a byte
  ahead, leaves room for the byte it asks for. `Stored` says the same of `twi_rxBuffer`.
- *TwoWire.* The lemmas about the driver are stated for any caller's bytes and length (`AnyStep`), so
  a step of `Wire` is one of the driver or leaves it alone (`WireStepIsAny`), and all of the above holds of it. To this
  `WriteInv` adds that a sketch that writes is alone on the bus (`Alone`), which is
  what `quiet` bounds; that the buffers hold what it wrote (`Prepared`, `Loaded`); and how far the slave has come: the bytes up to the index,
  but for one that is in flight or waits for the handler (`Progress`), until `twi_error` says why it ended (`Ended`). `KeptInv` says where what is to be read lies: in the driver's buffer and
  its copy until the indices are set (`Fetched`), which needs that no event waits at that moment (`Calm`), and then in `rxBuffer` (`Kept`).
- *Lease.* `LeaseInv` adds to the type invariant (`AddsUp`) that the counters and the remainder
  add up to the age also in the middle of `checkLease()`, that the remainder is less than a
  second longer than the time since the last call, and that a lease that runs has a second left;
  `RenewInTime` follows because that call was at most `MaxGap` ticks ago. For `RebindInTime`, `Terminated` says that T1 and T2
  are those of the lease time the client holds, and `Overdue` how old a lease can be whose renewal has failed; the
  first fails when a reply names a lease time alone (section 5), hence `T1Named`.
- *What keeps time.* A step of `Timers` is a step of one part or leaves it alone (`PartsSimulated`). For the events,
  `AtRest` says that an event which is not being updated has run, aged and toggled as its count tells, and
  `InRun` that one whose callback runs has run once more; an event that took the slot of a running one is
  held to its limit only, which is what the properties except. For the clock, `CountInv` carries the number of
  overflows since reset and how often `timer0_millis` went over, because exactness modulo a width is not
  inductive without the quotient; `ReadsInv` says that an overflow between the reads of `micros()`
  is the one `Uncounted` adds, and `DelayInv` what `start` has fallen behind. For tones, `ToneCount` says what is stored of
  the number at each step of the call, and `TonePin` which pin can be high. For servos, `OneUp` says that a pulse is that of the
  channel at work, `PulseTimed` that the compare value lies as far from the count as the pulse still has to go, or how late the interrupt is,
  modulo a turn of the timer, and `ServoCall` that the timer is set to zero only while no servo is active; `Refreshed` bounds the
  count by the time since the first channel, so that the compare value, if it did not wrap, is a whole refresh interval away.
- *DHCP.* `DhcpInv` carries the origin of every address: `MessageInv` and `NetInv` say that each message
  in the network is one that the client or a server can have sent, so that an address in a reply
  is the one its server gives; `ClientInv` says that the address and the server a client remembers come from
  one reply, at each place of the loop. Loss and repetition need no case of their own, because
  the network is a set that only grows while a call lasts.
- *Sockets.* None of the three properties is inductive, because a call finds in the chip what other
  calls and the peers left there. `SocketsHeld` strengthens `NoSocketLost`: it does not count the server's variable
  for a guest, which `available()` overwrites. `SocketsOwned` says that an object's socket is still the one
  it got, in a state in which the connection goes on, or that the connection is over, which is why whatever finds a
  socket free may take it. `CallKnows` says what the call at work may rely on: a call that will close a socket by
  force closes nobody's but that of a connection that is over. `UdpOwned` and
  `Frames` hold until a call has crossed into another's socket; `Framed` says where each datagram begins and ends in the
  memory, so that the rest of one is followed by the header of the next. That a datagram which has begun is there as a whole
  (`FramedWhole`) is an induction over its units, made without a rule of induction: the set of units for which it
  fails would have a least element (`LeastOf`).
- *The bus.* `BusInv` holds as long as the sketch keeps to the library's rules. `DepthInv` says how many
  transactions are open, from the select pin and from what is left of the call (`Shaped` lists the forms this can have);
  `MaskInv` says whose flag is in `interruptSave`, and `PointerInv` that INT0 is off in the window in
  which the pointer is stored, and that a handler which uses the bus is one that
  `usingInterrupt()` knows. That the handler cannot overwrite what is saved follows from the
  last two: in an open transaction it is masked.
- *The card.* `CardInv` lists the forms of what is left of a call of the driver (`CallForm`): one that releases the card at its
  end, whatever failed before, or the one that opens a block and leaves it to `readEnd()`. `BlockOpen` says that an open block has the card
  selected and as far as `offset_` says, also while a call that will end it first is about to begin; `BlockShut` that otherwise all bytes of the last block
  have been taken; `ReadFits` that the block at work is the one the call asked for and that it has not gone past the offset asked
  for, and `StreamOpen` that a multiple block write which waits for its next call has the card selected and no block open.
  `CardIsKept` needs `BusInv` too: a released card is a transaction that is over. That the bus is clocked in a transaction only
  is `ChainInv`: the steps of a call follow one another so that after one that may have released the card none clocks the bus
  before it is selected again (`Linked`), and with no transaction open none does at its head, unless the call came late.
- *The dataflash.* That a step of `Dataflash` maps to one of `FlashMemory` needs `FlashInv`, which says what a call may find (`Rests`): the chip
  deselected with nothing left of a command; or selected, with no command begun, with the status register being read, or at a place
  in a buffer or a page (`AtPlace`). A command whose address is complete and that would be carried out when the chip is next
  deselected is not among these, because every call that sends one deselects the chip itself (`DF_reset()`); this is why the reset of the next
  call has no effect but to end what was read or written (`Resets`). `Send` is a recursive function over the bytes of a
  call, at most eight of them, so no induction is needed: its values are a chain of states of the chip (`Goes`), which
  exists for every length because a least length without one would contradict its predecessor (`ChainsExist`), and each call's
  chain is followed byte by byte. The refinement mapping `Place` turns address and byte count into page and offset: carrying over the end of a
  page, and of the last page, is a lemma about `%` and `\div` for any `PageSize` up to 512, the 9 bits of an offset in an address.
- *Ports in software.* `PortInv` lists what can be left of a call that changes the listener, because whose pin is
  unmasked (`MaskFits`) and whose bytes the ring holds (`Whose`, `RingHeld`) depend on how far it has come:
  the two halves of `active_object` are stored one after the other, and the ring is emptied while the new object's pin is masked still.
  `MissedSays` ties the overflow flag to what was dropped.
- *The LCD.* `LcdShows` speaks of a call that is over; the interrupt may come anywhere before. `RingDue` says of every place of the text that it
  is right or that the last store left to it makes it so, for which the lists of stores a call consists of are described by
  the last store to each place (`Leaves`) and by their end (`Ends`): start, end, count, flag. In this order the
  frame that may come between the start and the end moves the start by one at most (`Indices`); after the end, start and end fit the text, and
  an interrupt that has seen the flag shows it (`DisplayShows`). That one frame at most comes in a call is what the model assumes of its time.
- *The EEPROM.* What power that fails leaves behind is in `CellsKept` already: the cell that was being written is the only
  one of which `due` says `Lost`. `EepromInv` adds where a transfer may be (`Access`), so that no pass writes or reads beyond the object,
  and that the bytes which `get()` has passed are what is due in their cells (`ReadSoFar`).
- *Pulses and delays.* `PulseInv` says where in the line of polls the call is, and ties the count of `countPulseASM()`
  to the polls it has made in each of its three loops (`Counted`), and the clock of `pulseInLong()` to them
  modulo a turn (`PulseClocked`). A difference of two readings is the time between them only if the time is less than a turn:
  `ClockOutlastsTimeouts` says that a timeout is at least four polls less than that. It cannot be weaker: with a timeout of
  `2 ^ ClockBits - 3` TLC finds a call in which the timeout passes unseen. The code's clock turns over in 71 minutes, and
  a timeout is an `unsigned long` of the same width, so that only timeouts within four polls of the greatest are excluded.
  `DelayIsAsked` is arithmetic on the requests, each rate of the processor by itself. It does not say that a delay never ends
  early: one that counts may be four cycles short, and of one that returns without counting it is only said that no more than 25
  cycles were asked for.
- `PinsInv`: the registers are shared, so each pin is followed by itself. `Viewed` is what a pin has of them (the duty only
  while the timer drives it), `By` how an access changes a view, and `GoesTo` says that what is left of the sketch's call
  takes each of its pins from its view to what the calls promised; an access for other pins leaves a view alone
  (`OthersUntouched`), which is what a handler's call does to all views but that of its own pin. A list of accesses is
  replaced by the chain of views along it (`Runs`), because what a fold over a list makes cannot be proved. What the
  sketch read of a timer's register and has not written back is still what the register holds: this needs `TimersApart`,
  that no timer of a sketch's pin drives one of the handler's. Without it the register is written back as it was before
  the handler's call (the experiment with pins 13 and 14 below).
- `TextInv`: of each target the search knows the longest start with which the characters that it took end
  (`LongestStart`), and that the whole target did not come (`NotYet`). When a character breaks the start off, `WalkIs`
  finds among the shorter starts the longest that the character continues, by a greatest counterexample
  (`GreatestBelow`), and `Overlap` shows that the characters of the stream and the target's own agree there, which is why
  the library can go back in the target instead of the stream.

Only model-checked are

- liveness (`CallsReturn`, `Served`, `BootEnds`, `EthernetReturns`) and ENABLED, which are outside the prover's reach;
- the modules that compute recursively, for which the prover has no backend: `SdVolume`, `SdFile` and `SD`;
- `ConversionsHold`: that the bits shifted or received make the byte (`ShiftedWhole`, `FrameIsByte`), the digits the number
  (`NumbersSurvive`) and the characters the text (`StringIsText`, `StringFits`, `StringAnswers`) are inductions over the
  data, and the thermometer's table (`ScalesAgree`) is compared entry by entry;
- `Boot`: `FlashIsSent` is true only of an image in which no byte can be taken for the end of a command (`EOP`): the
  protocol has no checksum, so that after a lost byte one of the image may stand where the end is expected. That the
  image of the run has none is a fact about it, not of every image.

## 5. Where the code does not keep its word

Two disagreements between code and comment are runs of their own:

- `dhcp_stuck`: `request_DHCP_lease()` returns with `_dhcp_state` still REREQUEST if no socket
  is free (Dhcp.cpp:46), or in DISCOVER or REQUEST if the deadline passes outside a response
  timeout (Dhcp.cpp:119). `checkLease()` acts on LEASED and START only, so nothing is ever
  tried again; Ethernet.cpp:97 says "it will retry though".
- `string_replace`: a growing `replace()` counts places from the start but replaces from the end. If
  places overlap ("aa" in "aaa") it counts one, replaces two, and the text outgrows the
  buffer that it reserved.

The passing runs are bounded so that they stay clear of the following, or name them as an
exception in the property. Each can be seen by changing what the first column names:

| Change | What fails | Why |
|---|---|---|
| `Uart.cfg`, `HeldUp = TRUE` | `IrqHasData` | held up between the store of the head and of UDRIE, `write()` enables the interrupt over a ring that the handler has already drained (HardwareSerial.cpp:243-245; line 83 assumes it cannot) |
| the same | `CallsReturn` | a frame that ends between the store to UDR and the clearing of TXC loses its completion, and `flush()` waits for ever (HardwareSerial.cpp:221-222) |
| `Wire`, sending with other masters | `SentIsWanted` | a slave event ends the wait of `twi_writeTo()`, which returns 0, "success" (twi.c:204, 262); and `onRequestService()` empties the transmit buffer that is being filled (Wire.cpp:309) |
| `Twi`, without `Len(rx) = BufferLength` | `AckedIsGiven` | the byte that finds the buffer full has been acknowledged (twi.c:473; line 478 "otherwise nack") |
| `Twi`, without `Deaf` | `CallsReturn` | after SR_DATA_NACK the unit reports no stop and TWEA is off, so `twi_state` stays TWI_SRX and the next call waits for ever (twi.c:220, 494) |
| `Wire`, a `requestFrom()` of 0 bytes | `ReadIsDue` | `length-1` is 255 and the bytes run past the buffer (twi.c:151) |
| `Wire.cfg`, `HeldUp = TRUE` | `ReadIsDue` | a slave message between the copy and the indices of `requestFrom()` overwrites it (Wire.cpp:114; line 282 "don't bother if rx buffer is in use") |
| `Timers.cfg`, `T1Named = FALSE` | `LeaseInTime` | T1 and T2 of an earlier reply are kept although the lease time has changed (Dhcp.cpp:98-103) |
| `TimerEvents`, without `taken` | `EventsKept` | an event that a callback starts in the slot of its own event is counted as having run (Event.cpp:54) |
| `PinLeft`, with `OverBy("pulse") => Toggle /\ ~Current.toggled` added | `EventsKept` | `pulse()` is `oscillate()` once, two transitions, so that the pin ends at the starting value; Timer.cpp:86 and Timer.h:48 say "The Pin will be left in !startingValue" (`PinLeft` claims nothing of `pulse()`) |
| `Board.cfg`, `SketchPins = {11, 14}`, `DataPin = 14`, `HandlerPins = {13}` | `PinsAndWaits` | `turnOffPWM()` and `analogWrite()` read, change and write TCCR1A while a handler's `digitalWrite()` turns off the PWM of its own pin on the same timer |

Other observations from the source, met while modelling and not in a run; the models either
exclude the case or show it as the code does:

- **Wire.** The main line writes TWCR with TWEA while the last byte of a slave answer is sent
  (twi.c:259; line 521 "otherwise nack"). `requestFrom()` discards what is unread of a message handed to the callback
  (Wire.cpp:113-116): `onReceiveService()` spares what a `requestFrom()` left, but not the other way round. A reply written in `onRequest` while a transmission is being
  prepared goes into that transmission (Wire.cpp:194). With other masters `endTransmission()` can return 0 although the
  node was addressed as a slave meanwhile.
- **SPI and the card.** A nested transaction leaves INT0 masked for ever; a detach within an open one is undone
  by `endTransaction()`; attaching over another function without a detach can call half of each
  pointer. `init()` during a partial read keeps `chip_select_asserted`; `writeBlock(0)` or
  `readData()` past the end of a block during one releases the card but leaves `inBlock_`. All of these set `misused`.
  After a `writeData()` that failed, which releases the card, a further `writeData()` or the `writeStop()` that ends the
  sequence clocks the bus without a transaction and with no card selected (Sd2Card.cpp:604-612, 695-706); `ClockedInside`
  names it as its exception. A `writeStart()` of block 0 fails and releases the card (Sd2Card.cpp:664-671).
- **SD.** `mkdir()` that fails half-way leaves a plain file, for which a later `mkdir()` reports success;
  opening "A/B" with A an empty plain file makes an entry in A; `addDirCluster()` links a
  cluster before it is zeroed; `SD.open()` ignores a failed `seekSet()`; when `getParentDir()` fails, `pathidx`
  is not set; `rmdir()` failing mid-way leaves a directory whose cluster is free; a whole-block
  `write()` over a block of which a part is in the cache forgets its number but not that it is dirty
  (SdFile.cpp:1181-1183): every later flush then writes to block 0xFFFFFFFF and fails, on a card that works, where
  the comment of `sync()` knows of I/O errors only (SdFile.cpp:956-963). `ReadBack` names this state, `Frozen`, as its exception; a read or write repeated after a refused
  transfer skips a cluster; a write that fails in its second block leaves `curPosition_` beyond
  `fileSize_`; `remove()` of a file of size 0 that a full disk left with a cluster does not free it; a second `SD.begin()` fails;
  `truncate()` frees the chain before the entry is written.
- **Ethernet.** `connect()` to address 0 leaves its socket in INIT for ever, and never returns if the peer accepts
  and closes between two looks. `parsePacket()` may go round for ever, and a call on a stale handle reaches another's socket;
  `client.read()` and `parsePacket()` without a socket address a fifth one. `write()` reports its argument although
  `send()` cuts it at SSIZE. A client that takes a socket does not clear `_server_port`
  (EthernetClient.cpp:44), so the server may hand that connection out as a guest. `write()` waits for room without a
  timeout while the connection stands (socket.cpp:128-141), so a peer that keeps its window closed holds it. Any first datagram ends the
  wait of `getHostByName()`; `ProcessResponse()` does not look at what its reads return, so an answer that ends before its records
  leaves the address to chance, or keeps the call in the loops that skip a name (Dns.cpp:300-312, 330-360); its ids, 16 bits of `millis()`, are taken to be unique.
- **Dataflash.** `FlashMemory` differs from two comments, as the code does: a read enabled by `ContFlashReadEnable()` goes on
  into the next page, where ButterflyDataflash.cpp:441-442 says "continue reading back at the beginning of the same page" (the opcode
  is 0x68, the continuous read); and `PageBufferCompare()` returns 64 for a difference, bit 6 of the status, where line 705
  says "1 if mismatch".
  Entering and leaving deep power-down do not reset the command decoder, and calls leave
  the chip selected.
- **Tone.** An interrupt in the middle of the store of the count may give a count that was never asked for; after a
  tone ends by itself, `tone()` on another pin is ignored until `noTone()` of the first;
  `2*frequency` overflows above 32767, frequency 0 divides by zero, and OCR1A set below TCNT1 waits a round.
- **Servo.** `detach()` in mid-pulse leaves the pin high; INVALID_SERVO is an index outside the array; attaching to another
  pin without detaching leaves the old one as it is.
- **SoftwareSerial.** An interrupt that was pending when the mask was taken off puts it on again; `begin()` while
  listening runs with delays of 0 for a moment; frames that arrive during `write()` are lost or garbled.
- **LCD.** `print()` of LCD_TEXTBUFFER_SIZE characters writes the terminator past the buffer
  (ButterflyLCD.h:105, ButterflyLCD.cpp:152-157); `showColons()` moves a short text by one; `clear()` neither resets
  `ScrollFlags` nor waits; `write()` before `begin()` starts at index 249. At most one frame interrupt
  is taken to come while one call stores.
- **Strings.** A move from an invalid string copies from address 0; `s += s` and a replacement by itself read a
  buffer that was moved; `startsWith()` with an offset beyond the end reads past the text; `concat(float)` overflows its
  array for large values; a `replace()` without memory does nothing and says nothing; a moved-from string keeps
  a buffer of length 0.
- **Text.** `parseFloat()` of more than nine digits overflows its long; "--5" parses as 0; `fromString()` accepts
  "1..2.3" and "1.2.3.", and one that fails has changed some bytes.
- **Pins.** `digitalPinHasPWM()` says that pins 3 to 5 have PWM (pins_arduino.h:43; a comment at 111 for pin 5), but
  `digital_pin_to_timer_PGM` has no timer for them (235-237), so that `analogWrite()` gives a level; pin 12 has PWM only because
  TIMER0 and TIMER0A are one number (Arduino.h:196-197). `digitalRead()` of a PWM pin stops its PWM; `portMode()` to input leaves the output register; pin numbers
  beyond the last read past the table.
- **Pulse.** A pulse that only one look sees measures 0, as if the time were over: one of less than 32 cycles may, which
  at 8 MHz is 4 microseconds, though wiring_pulse.c:27 says "from 2-3 microseconds" (`PulseMeasured` names this); a timeout below 16 cycles is no timeout; `delayMicroseconds()`
  wraps for products of 2^16 and more; at 1 MHz requests up to 25 return after 14 to 17 cycles.
- **Temp.** `mapToF()` reads one word past its table, `mapToC()` up to index 99 of 61 and 25 of 15 entries: readings
  outside 188..923 give whatever lies in flash, or 0, and readings 800..810 give 0.
- **Bootloader.** After a restart in mid-page it may answer OK to data that looks like a command, so that only
  comparison proves anything; an odd length fills until the watchdog bites, and length 0 means 256.
  `optiboot_writePage()` fills at odd addresses although optiboot.h:34 says "must be even number";
  erasing after filling loses the buffer; page 0 wraps; `optiboot_readPage()` turns bytes 0 and 255 into blanks.
- **EEPROM.** An object that is being put when power fails is part old and part new, and the cell in
  progress may hold anything.

## 6. What is not modelled

`PROJECT.json` lists every component with its status. Not compiled for these chips: USBCore, CDC,
PluggableUSB and HardwareSerial1 to 3. Nothing to interleave and nothing to get wrong over several
steps: `main.cpp`, `hooks.c`, `new.cpp`, the interfaces, `init()`, `twi_setAddress()`, `setClock()`, baud rates, the
choice of a prescaler, iterators of EEPROM, WMath. Left out of parts that are modelled: in the SD
library listings, time stamps, 8.3 names, printing, `peek()` and the root directory of
FAT32; in Ethernet the layout of packets, `inet_aton()`, register access of w5100, and `sendto()`,
`recvfrom()` and `igmpsend()`, which nothing calls; in String `toInt()` and `toFloat()`; in Print nan, inf
and the rounding of doubles; in the pins `portMode()` with constant arguments (no `cli()` there), the TEMP byte of OCR1A,
`analogReference()` and a handler that converts during another's conversion; in the bootloader its EEPROM commands, the software UART
and the virtual boot partition; handlers that use the EEPROM inside `eeprom_write_byte()`; callbacks
of Timer that call `update()`; the shapes of the LCD's letters.

## 7. What would come next

an abstract file system that `SD` implements; and DNS with its packet layout.
