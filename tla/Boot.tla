-------------------------------- MODULE Boot --------------------------------
(***************************************************************************)
(* The Optiboot bootloader in an ATmega169 (no RAMPZ, no virtual boot      *)
(* section, no EEPROM), the host that programs the application through it  *)
(* and verifies it, and the application, which writes a page of its own    *)
(* with do_spm().  Serial bytes and replies may be lost, one may be        *)
(* garbled, power may fail at any moment.                                  *)
(*                                                                         *)
(* The host is external: it sends a command, waits for the whole reply and *)
(* starts over with a reset if there is none.  So is the flash as SPM      *)
(* drives it: a temporary page of words, each written once, which          *)
(* RWWSRE, a page write and a reset empty; reads give 255 until RWWSRE.    *)
(***************************************************************************)
EXTENDS Integers, Sequences

CONSTANTS
    Image,          \* of the host: the bytes of each page, page 0 first
    Own,            \* what the application writes into its last page
    PageBytes,      \* SPM_PAGESIZE
    MaxSessions,    \* bound: times that the host tries
    MaxFaults       \* bound: bytes and replies lost or garbled, and power failures

ASSUME BootAssumption ==
    /\ PageBytes \in {2 * n : n \in 1 .. 127}
    /\ \A s \in {Image[n] : n \in DOMAIN Image} \union {Own} : Len(s) = PageBytes
    /\ Image # <<>>

VARIABLES
    mode,       \* "off" (before the UART and the watchdog are set up), "boot", "spm", "hung", "app"
    uart,       \* the byte on its way, and whether it arrives without a framing error
    received,      \* the bytes of a command that the bootloader has
    job,        \* do_spm() calls still to do, by the bootloader or the application
    tbuf,       \* the temporary page
    flash, rww, \* pages of words; may they be read
    address,    \* of the bootloader
    dog,        \* the watchdog: "idle", "reset" lately, "due"
    host,       \* [session, step, sent, replies]
    due,        \* what each page must hold, or Unknown
    faults,
    disturbed   \* a byte of this session was garbled, or the chip started again

bootVars == <<mode, uart, received, job, tbuf, flash, rww, address, dog, host, due, faults, disturbed>>

\* the bytes of stk500.h; 0 stands for what only pads, 255 is an erased byte
GetParameter == 65
SetDevice == 66
SetDeviceExt == 69
LeaveProgmode == 81
LoadAddress == 85
Universal == 86
ProgPage == 100
ReadPage == 116
ReadSign == 117
GetSync == 48
EOP == 32
InSync == 20
Ok == 16
Eeprom == 69
Signature == <<30, 148, 5>>
Flash == 70

FlashPages == 0 .. Len(Image) - 1
Words == 0 .. (PageBytes \div 2) - 1
Erased == [w \in Words |-> <<255, 255>>]
Unknown == <<>>
AsWords(bytes) == [w \in Words |-> <<bytes[2 * w + 1], bytes[2 * w + 2]>>]
FlashPageOf(a) == a \div PageBytes
WordOf(a) == (a % PageBytes) \div 2

\* What the host does: every page, then every page again to compare.
Pad(n) == [i \in 1 .. n |-> 0]
LoadOf(p) == <<LoadAddress, (p * PageBytes) \div 2, 0, EOP>>
ProgramPage(p) == <<ProgPage, 0, PageBytes, Flash>> \o Image[p + 1] \o <<EOP>>
VerifyPage(p) == <<ReadPage, 0, PageBytes, Flash, EOP>>
Commands ==
    <<<<GetSync, EOP>>, <<GetParameter, 129, EOP>>, <<SetDevice>> \o Pad(20) \o <<EOP>>,
      <<SetDeviceExt>> \o Pad(5) \o <<EOP>>, <<Universal>> \o Pad(4) \o <<EOP>>,
      <<ReadSign, EOP>>>>
    \o [n \in 1 .. 2 * Len(Image) |->
           IF n % 2 = 1 THEN LoadOf((n - 1) \div 2) ELSE ProgramPage((n - 1) \div 2)]
    \o [n \in 1 .. 2 * Len(Image) |->
           IF n % 2 = 1 THEN LoadOf((n - 1) \div 2) ELSE VerifyPage((n - 1) \div 2)]
    \o <<<<LeaveProgmode, EOP>>>>
Command == Commands[host.step]
PageMeant == ((host.step - 7) \div 2) % Len(Image)    \* of the command, if it is about a page
Expected(c) == CASE c[1] = ReadPage -> <<InSync>> \o Image[PageMeant + 1] \o <<Ok>>
                 [] c[1] = Universal -> <<InSync, 0, Ok>>
                 [] c[1] = ReadSign -> <<InSync>> \o Signature \o <<Ok>>
                 [] c[1] = GetParameter -> <<InSync, 6, Ok>>
                 [] OTHER -> <<InSync, Ok>>

BootInit ==
    /\ mode = "app" /\ uart = <<>> /\ received = <<>> /\ job = <<>> /\ tbuf = Erased /\ rww = TRUE /\ address = 0 /\ dog = "idle"
    /\ flash = [p \in FlashPages |-> Erased]
    /\ host = [session |-> 0, step |-> 1, sent |-> 0, replies |-> <<>>]
    /\ due = [p \in FlashPages |-> Erased]
    /\ faults = 0 /\ disturbed = FALSE

------------------------------------------------------------------------------
\* Forms an error could give the operators below; no action uses them.
AlwaysFed(clean) == dog' = "reset"
AfterAFill(call) == call.data = <<0, 0>>

\* How many bytes of a command come before its terminator.  A page's length is
\* eight bits wide, and do ... while (--length) makes 256 of none.
PageLength(c) == IF c[3] = 0 THEN 256 ELSE c[3]
Arguments(c) ==
    CASE c[1] = GetParameter -> 1
      [] c[1] = SetDevice -> 20
      [] c[1] = SetDeviceExt -> 5
      [] c[1] = LoadAddress -> 2
      [] c[1] = Universal -> 4
      [] c[1] = ProgPage -> IF Len(c) < 4 THEN 3 ELSE 3 + PageLength(c)
      [] c[1] = ReadPage -> 3
      [] OTHER -> 0

\* do_spm(): RWWSRE follows an erase or a write that says so with no data
Enables(call) == call.command # "fill" /\ call.data = <<0, 0>>

\* writebuffer(): the page is erased, filled word by word and written.  The
\* count goes by two: an odd one never meets zero, and fills until the watchdog.
WriteBuffer(bytes) ==
    <<[command |-> "erase", at |-> address, data |-> <<0, 0>>]>>
    \o [i \in 1 .. Len(bytes) \div 2 |->
           [command |-> "fill", at |-> address + 2 * i - 2, data |-> <<bytes[2 * i - 1], bytes[2 * i]>>]]
    \o <<[command |-> IF Len(bytes) % 2 = 0 THEN "write" ELSE "endless", at |-> address, data |-> <<0, 0>>]>>

\* optiboot_writePage() of the application, with interrupts off in each call
WritePage(p, bytes) ==
    <<[command |-> "erase", at |-> p * PageBytes, data |-> <<0, 0>>]>>
    \o [i \in 1 .. Len(bytes) \div 2 |->
           [command |-> "fill", at |-> p * PageBytes + 2 * i - 1, data |-> <<bytes[2 * i - 1], bytes[2 * i]>>]]
    \o <<[command |-> "write", at |-> p * PageBytes, data |-> <<0, 0>>]>>

\* read_mem(): bytes from the address on; there is nothing behind the last page
ByteAt(a) == IF rww /\ FlashPageOf(a) \in FlashPages THEN flash[FlashPageOf(a)][WordOf(a)][1 + (a % 2)] ELSE 255
ReadMem(n) == [i \in 1 .. n |-> ByteAt(address + i - 1)]

Over == host.session = 0 \/ host.step > Len(Commands)

\* a reply goes to the host, or gets lost
Reply(bytes) ==
    \/ host' = (IF Over THEN host ELSE [host EXCEPT !.replies = @ \o bytes]) /\ UNCHANGED faults
    \/ faults < MaxFaults /\ ~Over /\ faults' = faults + 1 /\ UNCHANGED host

\* getch(): only a byte without a framing error feeds the watchdog
Fed(clean) == IF clean THEN dog' = "reset" ELSE UNCHANGED dog

------------------------------------------------------------------------------
\* The command is complete, its terminator too.  (The host does not tell the
\* INSYNC before a page is written from the one after it.)
Writes(c) ==
    /\ c[1] = ProgPage
    /\ IF c[4] = Eeprom THEN mode' = "hung" /\ UNCHANGED job
       ELSE mode' = "spm" /\ job' = WriteBuffer(SubSeq(c, 5, 4 + PageLength(c)))
    /\ UNCHANGED <<host, faults>>

Answers(c) ==
    /\ c[1] # ProgPage
    /\ Reply(<<InSync>> \o (CASE c[1] = ReadPage -> ReadMem(PageLength(c))
                             [] c[1] = Universal -> <<0>>
                             [] c[1] = ReadSign -> Signature
                             [] c[1] = GetParameter -> <<IF c[2] = 129 THEN 6 ELSE 3>>
                             [] OTHER -> <<>>) \o <<Ok>>)
    /\ UNCHANGED <<mode, job>>

\* getch(), and verifySpace() where one is due: any other byte ends in the watchdog
BootHears ==
    /\ mode = "boot" /\ uart # <<>>
    /\ uart' = <<>> /\ Fed(uart[2])
    /\ LET b == uart[1]
       IN CASE received = <<>> \/ Len(received) <= Arguments(received) ->
                   received' = Append(received, b) /\ UNCHANGED <<mode, job, address, host, faults>>
            [] OTHER ->
                   /\ received' = <<>>
                   /\ IF b # EOP THEN mode' = "hung" /\ UNCHANGED <<job, address, host, faults>>
                      ELSE /\ address' = IF received[1] = LoadAddress THEN (2 * (received[2] + 256 * received[3])) % 65536
                                         ELSE address
                           /\ Writes(received) \/ Answers(received)
    /\ UNCHANGED <<tbuf, flash, rww, due, disturbed>>

\* One do_spm(); the application is told by its return, the host by a reply.
Programmed(old, new) == IF old = <<255, 255>> THEN new ELSE IF new = <<255, 255>> THEN old ELSE <<0, 0>>

Spm ==
    /\ job # <<>>
    /\ LET call == Head(job)
           p == FlashPageOf(call.at)
           stored == CASE call.command = "erase" -> Erased
                       [] call.command = "write" -> [w \in Words |-> Programmed(flash[p][w], tbuf[w])]
       IN /\ job' = Tail(job)
          /\ flash' = IF call.command \in {"erase", "write"} /\ p \in FlashPages THEN [flash EXCEPT ![p] = stored] ELSE flash
          /\ tbuf' = IF call.command = "write" \/ Enables(call) THEN Erased
                     ELSE IF call.command = "fill" /\ tbuf[WordOf(call.at)] = <<255, 255>>
                          THEN [tbuf EXCEPT ![WordOf(call.at)] = call.data]
                     ELSE tbuf
          /\ rww' = IF call.command \in {"erase", "write"} THEN Enables(call) ELSE rww
          /\ IF mode = "spm" /\ call.command = "endless" THEN mode' = "hung" /\ UNCHANGED <<host, faults, due>>
             ELSE IF mode = "spm" /\ Len(job) = 1 THEN mode' = "boot" /\ Reply(<<InSync, Ok>>) /\ UNCHANGED due
             ELSE /\ due' = IF mode = "app" /\ Len(job) = 1 THEN [due EXCEPT ![p] = AsWords(Own)] ELSE due
                  /\ UNCHANGED <<mode, host, faults>>
    /\ UNCHANGED <<uart, received, address, dog, disturbed>>

------------------------------------------------------------------------------
\* Resets.  Only one from outside leaves the bootloader running; appStart() runs
\* an erased page 0 up to the bootloader, with no reset flag set.
ResetTo(m) ==
    /\ mode' = m /\ received' = <<>> /\ job' = <<>> /\ tbuf' = Erased /\ rww' = TRUE /\ dog' = "idle"
    /\ address' = 0 /\ UNCHANGED <<flash, faults>>

PowerFails == ResetTo("app") /\ uart' = <<>> /\ disturbed' = TRUE /\ UNCHANGED <<host, due>>
DogTicks ==
    /\ dog = "reset" /\ mode # "spm" /\ dog' = "due"
    /\ UNCHANGED <<mode, uart, received, job, tbuf, flash, rww, address, host, due, faults, disturbed>>
DogFires == dog = "due" /\ ResetTo("app") /\ disturbed' = TRUE /\ UNCHANGED <<uart, host, due>>

Slides == mode = "app" /\ flash[0] = Erased /\ ResetTo("off") /\ UNCHANGED <<uart, host, due, disturbed>>
SessionStarts ==
    /\ mode = "off" /\ mode' = "boot" /\ dog' = "reset"
    /\ UNCHANGED <<uart, received, job, tbuf, flash, rww, address, host, due, faults, disturbed>>

\* not while a host is at it, which has its answers long before the watchdog
AppWrites ==
    /\ mode = "app" /\ Over /\ job = <<>> /\ flash[0] # Erased
    /\ LET p == Len(Image) - 1
       IN job' = WritePage(p, Own) /\ due' = [due EXCEPT ![p] = Unknown]
    /\ UNCHANGED <<mode, uart, received, tbuf, flash, rww, address, dog, host, faults, disturbed>>

------------------------------------------------------------------------------
\* The host.
HostResets ==
    /\ Over /\ host.session < MaxSessions
    /\ host' = [session |-> host.session + 1, step |-> 1, sent |-> 0, replies |-> <<>>]
    /\ ResetTo("off") /\ uart' = <<>> /\ disturbed' = FALSE /\ UNCHANGED due

HostSends ==
    /\ ~Over /\ uart = <<>> /\ host.sent < Len(Command)
    /\ host' = [host EXCEPT !.sent = @ + 1]
    /\ LET begins == IF host.sent = 0 /\ Command[1] = ProgPage THEN [due EXCEPT ![PageMeant] = Unknown] ELSE due
       IN \/ uart' = <<Command[host.sent + 1], TRUE>> /\ due' = begins /\ UNCHANGED <<faults, disturbed>>
          \/ /\ faults < MaxFaults /\ faults' = faults + 1
             /\ \/ due' = begins /\ UNCHANGED <<uart, disturbed>>
                \/ /\ ~disturbed /\ disturbed' = TRUE
                   /\ due' = [p \in FlashPages |-> Unknown]
                   /\ \E b \in {EOP, 0, 7, Eeprom} : uart' = <<b, FALSE>>
    /\ UNCHANGED <<mode, received, job, tbuf, flash, rww, address, dog>>

\* the whole reply is there: the next command, or the end
HostReads ==
    /\ ~Over /\ host.sent = Len(Command) /\ Len(host.replies) >= Len(Expected(Command))
    /\ IF host.replies = Expected(Command)
       THEN /\ host' = [host EXCEPT !.step = @ + 1, !.sent = 0, !.replies = <<>>]
            /\ due' = IF Command[1] = ReadPage \/ (Command[1] = ProgPage /\ ~disturbed)
                      THEN [due EXCEPT ![PageMeant] = AsWords(Image[PageMeant + 1])] ELSE due
       ELSE host' = [host EXCEPT !.step = Len(Commands) + 1] /\ UNCHANGED due
    /\ UNCHANGED <<mode, uart, received, job, tbuf, flash, rww, address, dog, faults, disturbed>>

HostGivesUp ==
    /\ ~Over /\ host.sent = Len(Command) /\ uart = <<>> /\ mode # "spm"
    /\ Len(host.replies) < Len(Expected(Command))
    /\ host' = [host EXCEPT !.step = Len(Commands) + 1]
    /\ UNCHANGED <<mode, uart, received, job, tbuf, flash, rww, address, dog, due, faults, disturbed>>

\* nobody listens, or somebody else talks, at another rate
WireIdles ==
    /\ uart # <<>> /\ mode # "boot" /\ uart' = <<>>
    /\ UNCHANGED <<mode, received, job, tbuf, flash, rww, address, dog, host, due, faults, disturbed>>
Noise ==
    /\ Over /\ uart = <<>> /\ mode = "boot" /\ uart' = <<EOP, FALSE>>
    /\ UNCHANGED <<mode, received, job, tbuf, flash, rww, address, dog, host, due, faults, disturbed>>

BootNext ==
    \/ BootHears \/ Spm \/ PowerFails \/ DogTicks \/ DogFires \/ Slides \/ SessionStarts \/ AppWrites
    \/ HostResets \/ HostSends \/ HostReads \/ HostGivesUp \/ WireIdles \/ Noise

BootFairness == WF_bootVars(BootHears) /\ WF_bootVars(Spm) /\ WF_bootVars(DogTicks) /\ WF_bootVars(DogFires) /\ WF_bootVars(SessionStarts)

BootSpec == BootInit /\ [][BootNext]_bootVars /\ BootFairness

------------------------------------------------------------------------------
(* A page of which the host has an OK, that it compared, or that the         *)
(* application was told it wrote holds just that, whatever is lost or fails  *)
(* then, in another page's commands or between two calls of do_spm().        *)
FlashIsSent == \A p \in FlashPages : due[p] # Unknown => flash[p] = due[p]

(* Whoever stops talking, or talks at another rate, leaves the application   *)
(* running again: "This should cause the bootloader to abort and run the     *)
(* application soon, if it keeps happening" (optiboot_flash.c:775).          *)
BootEnds == mode # "app" ~> mode = "app"
=============================================================================
