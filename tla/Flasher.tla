------------------------------ MODULE Flasher -------------------------------
(***************************************************************************)
(* The bootloader commands of the CLI (cli/src/main.rs, target.rs) and     *)
(* their engine (crates/flasher): `tower flash`, `erase`, `chip`,          *)
(* `protect` and `unprotect`, over the UART bootloader of an r2 board or   *)
(* the USB DFU bootloader of an r1.                                        *)
(*                                                                         *)
(* One command runs against one board.  An exchange with the bootloader    *)
(* may go wrong on the line, each way at most once: the command byte or    *)
(* its payload is refused, the request or the answer is lost, a cell does  *)
(* not take its value.  The board may lose power at any step, in the       *)
(* middle of an erase or of a write too.  A page is the unit of erase and  *)
(* the block of a Write Memory, which is programmed a part at a time, the  *)
(* first words first.                                                      *)
(***************************************************************************)
EXTENDS Integers, FiniteSets

CONSTANTS
  FamilyPages,      (* pages of the largest part: MAX_FLASH_SIZE           *)
  Densities,        (* FLASH_DENSITIES_PAGES                               *)
  EraseChunk,       (* ERASE_CHUNK                                         *)
  Images,           (* image lengths in pages                              *)
  ConnectAttempts,  (* CONNECT_ATTEMPTS, DFU_ATTEMPTS                      *)
  FlashFaults         (* bound: faults of one command                        *)

\* The densities are so far apart that a stray refusal, which ends an erase a page short of a
\* list, never ends it where another part ends: no list crosses two of them, and none but the
\* largest is a page short of a list's end.
ASSUME FlashAssumption ==
  /\ FamilyPages \in Densities /\ Densities \subseteq Nat \ {0} /\ \A d \in Densities : d <= FamilyPages
  /\ EraseChunk \in Nat \ {0} /\ EraseChunk < FamilyPages
  /\ ConnectAttempts \in Nat \ {0} /\ Images \subseteq Nat
  /\ \A q \in 0 .. FamilyPages : \A d, e \in Densities :
       {d, e} \subseteq q * EraseChunk .. q * EraseChunk + EraseChunk - 1 => d = e
  /\ \A q \in 0 .. FamilyPages : \A d \in Densities \ {FamilyPages} : d + 1 # q * EraseChunk

VARIABLES
  dev,     (* the board: what runs, its flash, EEPROM, protection          *)
  flashJob,     (* the command: what was asked, where it is, what it said       *)
  faults   (* history: the faults met                                      *)

flVars == <<dev, flashJob, faults>>

Pages == 0 .. dev.density - 1
flashMap(v) == [p \in Pages |-> v]

-----------------------------------------------------------------------------
(* The board *)

\* What a reset with BOOT0 low runs.  After level 1 was set through the bootloader user code
\* waits for a power-down.
Booted(d) == [d EXCEPT !.at = IF d.fresh THEN "waits" ELSE IF d.pages[0] = "blank" THEN "nothing" ELSE "app"]

Settled(d) == IF d.at = "boot" THEN d ELSE Booted(d)

\* The bootloader erases in list order and refuses a whole list with one page out of range or
\* write-protected.
Erased(d, ps) == [d EXCEPT !.pages = [p \in DOMAIN d.pages |-> IF p \in ps THEN "blank" ELSE d.pages[p]]]
inRange(ps) == ps \subseteq Pages \ dev.wrp

\* Flash that was not erased first is spoilt.
Written(d, p, good) == [d EXCEPT !.pages[p] = IF good /\ d.pages[p] = "blank" THEN "new" ELSE "bad"]

\* A block of which the power left only the beginning.
Torn(d, p) == [d EXCEPT !.pages[p] = "torn"]

\* The option byte changes; going back to level 0 mass-erases flash and data EEPROM.
Levelled(d, on) ==
  IF on THEN [d EXCEPT !.rdp = TRUE, !.fresh = TRUE, !.at = "waits"]
  ELSE [d EXCEPT !.rdp = FALSE, !.pages = [p \in DOMAIN d.pages |-> "blank"], !.eeprom = "erased", !.at = "nothing"]

-----------------------------------------------------------------------------
(* One exchange *)

\* ok, refused at the command byte or at the payload, the request lost, the answer lost.
Answers == {"ok", "command", "payload", "lost", "late"}
Meets(a) ==
  /\ a # "ok" => a \notin faults /\ Cardinality(faults) < FlashFaults
  /\ faults' = faults \cup ({a} \ {"ok"})
served(a) == a \in {"ok", "late"}

\* Read Memory, Write Memory, the erase commands and Readout Protect are refused at level 1.
answer(a) == IF dev.rdp THEN "command" ELSE a

FlashSays(s) == flashJob' = [flashJob EXCEPT !.step = "done", !.said = s]
Step(s) == flashJob' = [flashJob EXCEPT !.step = s, !.k = 0, !.try = 1, !.began = @ \/ s \in {"erase", "write", "level"}]

\* An error before anything was changed: the application is put back (UART); a DFU board stays.
Restore(d) == IF flashJob.via = "uart" THEN Booted(d) ELSE d
Refuse(s) == FlashSays(s) /\ dev' = Restore(dev)
\* An error once the flash was changed: the board is left in its bootloader.
Leave(s) == FlashSays(s) /\ UNCHANGED dev

-----------------------------------------------------------------------------
(* Choosing the board and entering its bootloader *)

\* A raw image whose stack pointer and reset vector fit; not an ELF or HEX file, not a stub.
validate(kind) == kind = "raw"
check_firmware_len(n) == n > 0 /\ n <= FamilyPages

\* protect and unprotect ask first, and never go over USB DFU.
confirmation_gate == flashJob.yes /\ dev.board # "r1"

\* load and validate the image; confirm a protection change; pick the target.
Pick ==
  /\ flashJob.step = "start" /\ UNCHANGED faults
  /\ IF \/ flashJob.op = "flash" /\ ~(validate(flashJob.kind) /\ check_firmware_len(flashJob.len))
        \/ flashJob.op \in {"protect", "unprotect"} /\ ~confirmation_gate
        \/ flashJob.op = "info" /\ dev.board = "r1" /\ dev.at # "boot"
     THEN FlashSays("refused") /\ UNCHANGED dev
     ELSE IF dev.board = "r1"
     THEN /\ flashJob' = [flashJob EXCEPT !.step = IF dev.at = "boot" THEN "open" ELSE "enter_dfu", !.via = "dfu"]
          /\ UNCHANGED dev
     ELSE Step("connect") /\ UNCHANGED dev

\* The r1 console is asked to reboot into DFU, which erases the start of its application first;
\* the request may be missed, and is made again.
enter_dfu(heard) ==
  /\ flashJob.step = "enter_dfu"
  /\ heard => dev.at = "app"
  /\ IF heard THEN /\ dev' = [Erased(dev, {0}) EXCEPT !.at = "boot"] /\ Step("open") /\ UNCHANGED faults
     ELSE /\ Meets(IF "lost" \in faults THEN "late" ELSE "lost")
          /\ IF flashJob.try = ConnectAttempts THEN Leave("no bootloader")
             ELSE flashJob' = [flashJob EXCEPT !.try = @ + 1] /\ UNCHANGED dev

\* BOOT0 is held over the reset, longer at each attempt: a board whose NRST ramps slowly is
\* reached at a later one.
reset_into_bootloader(d, attempt) == [d EXCEPT !.at = IF d.slow <= attempt THEN "boot" ELSE Booted(d).at]

\* The reset sequence, then 0x7F; giving up puts the application back.
connect(a) ==
  /\ flashJob.step = "connect" /\ Meets(a)
  /\ LET d == reset_into_bootloader(dev, flashJob.try) IN
     IF d.at = "boot" /\ a = "ok" THEN dev' = d /\ Step(IF flashJob.sent THEN "probe" ELSE "id")
     ELSE IF flashJob.try < ConnectAttempts THEN dev' = d /\ flashJob' = [flashJob EXCEPT !.try = @ + 1]
     ELSE dev' = Booted(d) /\ FlashSays(IF flashJob.unsure THEN "unconfirmed" ELSE "no bootloader")

\* Get ID, then whether the command fits the part.
get_id(a) ==
  /\ flashJob.step = "id" /\ Meets(a)
  /\ IF a # "ok" THEN Refuse("error")
     ELSE IF flashJob.op \in {"flash", "erase"} /\ ~dev.known THEN Refuse("unknown chip")
     ELSE IF flashJob.op = "flash" /\ flashJob.len > dev.family THEN Refuse("too large")
     ELSE Step("probe") /\ UNCHANGED dev

-----------------------------------------------------------------------------
(* Readout protection *)

\* `tower chip` only reads, and puts the application back.
info(p) == dev' = Restore(dev) /\ FlashSays(IF p THEN "on" ELSE "off")

\* What the probe's answer means for the command.
Probed(p) ==
  IF flashJob.op \in {"flash", "erase"}
  THEN IF p THEN Refuse("protected")
       ELSE Step(IF flashJob.op = "erase" \/ flashJob.erase THEN "erase" ELSE "write") /\ UNCHANGED dev
  ELSE IF flashJob.op = "info" THEN info(p)
  ELSE IF flashJob.sent
  THEN /\ dev' = Restore(dev)
       /\ FlashSays(IF flashJob.unsure THEN IF p THEN "unconfirmed on" ELSE "unconfirmed off"
                    ELSE IF p # (flashJob.op = "protect") THEN "unchanged" ELSE IF p THEN "on" ELSE "off")
  ELSE IF p = (flashJob.op = "protect") THEN dev' = Restore(dev) /\ FlashSays(IF p THEN "on" ELSE "off")
  ELSE Step("level") /\ UNCHANGED dev

\* Read Memory at the flash base: a refusal of the command byte counts only if Get ID is
\* answered after it, twice.
probe(a, b) ==
  /\ flashJob.step = "probe" /\ flashJob.via = "uart"
  /\ a = "ok" \/ b = "ok"
  /\ Meets(IF a = "ok" THEN b ELSE a)
  /\ IF answer(a) = "ok" THEN b = "ok" /\ Probed(FALSE)
     ELSE IF answer(a) = "command" /\ b = "ok"
     THEN IF flashJob.try = 2 THEN Probed(TRUE) ELSE flashJob' = [flashJob EXCEPT !.try = 2] /\ UNCHANGED dev
     ELSE Refuse(IF flashJob.unsure THEN "unconfirmed" ELSE "error")

\* The layout string must describe one contiguous, readable, erasable and writable run of pages
\* at the flash base, no larger than the family allows.
Layouts == {"main", "unparsed", "elsewhere", "gaps", "read-only", "oversize", "short transfers"}
check_main_flash(l) == l = "main"

\* DFU: the bootloader comes back to dfuIDLE whatever an
\* earlier session left; a stalled upload with errVENDOR names the protection.
dfu_open(a) ==
  /\ flashJob.step = "open" /\ Meets(a)
  /\ IF a # "ok" \/ ~check_main_flash(dev.layout) THEN Leave("error")
     ELSE IF flashJob.op = "flash" /\ flashJob.len > dev.density THEN Leave("too large")
     ELSE Step("probe") /\ UNCHANGED dev
readout_protected(a) ==
  /\ flashJob.step = "probe" /\ flashJob.via = "dfu" /\ Meets(a)
  /\ IF a # "ok" THEN Leave("error") ELSE Probed(dev.rdp)

\* Readout Protect and Unprotect: the first ACK says the command is accepted, the second that
\* the option bytes are written, and the device resets itself.  With the second lost the state
\* is read back and reported with the error.
set_level(a, b) ==
  /\ flashJob.step = "level"
  /\ a = "ok" \/ b = "ok"
  /\ Meets(IF a = "ok" THEN b ELSE a)
  /\ LET changed == a \in {"ok", "late"} /\ b \in {"ok", "late", "lost"}
         d == IF changed THEN Levelled(dev, flashJob.op = "protect") ELSE dev IN
     IF a # "ok" \/ b \in {"command", "payload"} THEN dev' = Booted(d) /\ FlashSays("error")
     ELSE /\ dev' = d
          /\ flashJob' = [flashJob EXCEPT !.step = "connect", !.try = 1, !.sent = TRUE, !.unsure = (b # "ok")]

-----------------------------------------------------------------------------
(* Erasing *)

chunkEnd(n) == IF flashJob.k + EraseChunk < n THEN flashJob.k + EraseChunk ELSE n
Erase(ps, a) == IF a \in {"ok", "late"} THEN Erased(dev, ps) ELSE dev

\* Pages k to end - 1 of n in one request.
ErasePages(end, n, a) ==
  LET ps == flashJob.k .. end - 1
      got == IF a # "command" /\ ~inRange(ps) THEN "payload" ELSE a IN
  /\ dev' = Erase(ps, got)
  /\ IF got # "ok" THEN FlashSays("error")
     ELSE IF end < n THEN flashJob' = [flashJob EXCEPT !.k = end]
     ELSE IF flashJob.op = "flash" THEN Step("write") ELSE FlashSays("ok")

\* The pages the image spans, a chunk at a time.
erase_pages(a) ==
  /\ flashJob.step = "erase" /\ flashJob.op = "flash" /\ flashJob.via = "uart" /\ Meets(a)
  /\ ErasePages(chunkEnd(flashJob.len), flashJob.len, a)

\* DFU: a page at a time, of the image or of the layout.
erase_span(a) ==
  /\ flashJob.step = "erase" /\ flashJob.via = "dfu" /\ Meets(a)
  /\ ErasePages(flashJob.k + 1, IF flashJob.op = "erase" THEN dev.density ELSE flashJob.len, a)

\* The whole device, without knowing its size: upwards until a page list is refused.
erase_chip(a) ==
  /\ flashJob.step = "erase" /\ flashJob.op = "erase" /\ flashJob.via = "uart" /\ Meets(a)
  /\ LET end == chunkEnd(FamilyPages)
         ps == flashJob.k .. end - 1
         got == IF a # "command" /\ ~inRange(ps) THEN "payload" ELSE a IN
     /\ dev' = IF got = "ok" /\ end = FamilyPages THEN Booted(Erase(ps, got)) ELSE Erase(ps, got)
     /\ IF got = "ok" THEN IF end < FamilyPages THEN flashJob' = [flashJob EXCEPT !.k = end]
                           ELSE flashJob' = [flashJob EXCEPT !.step = "done", !.said = "ok", !.k = end]
        ELSE IF got = "payload" /\ flashJob.k > 0
        THEN flashJob' = [flashJob EXCEPT !.step = "bisect", !.good = 0, !.bad = end - flashJob.k]
        ELSE FlashSays("error")

\* The refused chunk is narrowed down to the first page refused, everything below it erased.
bisect_erase_boundary(a) ==
  /\ flashJob.step = "bisect" /\ flashJob.bad - flashJob.good > 1 /\ Meets(a)
  /\ LET mid == flashJob.good + (flashJob.bad - flashJob.good) \div 2
         ps == flashJob.k .. flashJob.k + mid - 1
         got == IF a # "command" /\ ~inRange(ps) THEN "payload" ELSE a IN
     /\ dev' = Erase(ps, got)
     /\ flashJob' = CASE got = "ok" -> [flashJob EXCEPT !.good = mid]
                 [] got = "payload" -> [flashJob EXCEPT !.bad = mid]
                 [] OTHER -> [flashJob EXCEPT !.step = "done", !.said = "error"]

\* The stop may also be a write-protected page: it must be a density of the family that fits
\* the identified part.
boundary(page) == IF page \in Densities /\ page <= dev.family THEN "ok" ELSE "partial"

EraseEnds(a) ==
  /\ flashJob.step = "bisect" /\ flashJob.bad - flashJob.good <= 1 /\ (flashJob.good = 0 => a = "ok") /\ Meets(a)
  /\ LET page == flashJob.k + flashJob.good
         d == Erase(flashJob.k .. page - 1, a) IN
     IF a # "ok" THEN dev' = d /\ FlashSays("error")
     ELSE /\ flashJob' = [flashJob EXCEPT !.step = "done", !.said = boundary(page), !.k = page]
          /\ dev' = IF boundary(page) = "ok" THEN Booted(d) ELSE d

-----------------------------------------------------------------------------
(* Writing *)

\* Slip: in address order.
Fault_order(i) == i

\* The blocks in the order they are written: the vector table last.
order(i) == IF i < flashJob.len - 1 THEN i + 1 ELSE 0

\* Read-back of what was written so far, from block lo to block hi.
mismatch(lo, hi) == \E p \in lo .. hi : dev.pages[p] # "new"

\* Before the last block, the vector table, the others are read back.
ReadBackFails ==
  flashJob.verify /\ flashJob.k = flashJob.len - 1 /\ flashJob.len > 1 /\ mismatch(1, flashJob.len - 1)

\* Block k of the order.
WriteBlock(a, good) ==
  LET page == order(flashJob.k)
      can == page \in Pages \ dev.wrp IN
  /\ Meets(IF good THEN a ELSE "worn") /\ (~good => a = "ok")
  /\ IF ReadBackFails
     THEN a = "ok" /\ good /\ Leave("mismatch")
     ELSE /\ dev' = IF served(a) /\ can THEN Written(dev, page, good) ELSE dev
          /\ IF a # "ok" \/ ~can THEN FlashSays("error")
             ELSE IF flashJob.k < flashJob.len - 1 THEN flashJob' = [flashJob EXCEPT !.k = @ + 1]
             ELSE Step("verify")

write_image(a, good) == flashJob.step = "write" /\ flashJob.via = "uart" /\ WriteBlock(a, good)
dfu_write(a, good) == flashJob.step = "write" /\ flashJob.via = "dfu" /\ WriteBlock(a, good)

\* The first block read back; then the application is started by a reset or Go.
Verified(a) == ~flashJob.verify \/ (a = "ok" /\ ~mismatch(0, 0))
Finish(a) ==
  /\ flashJob.step = "verify" /\ flashJob.via = "uart" /\ Meets(a)
  /\ IF ~Verified(a) THEN Leave(IF a = "ok" THEN "mismatch" ELSE "error")
     ELSE IF ~flashJob.run THEN a = "ok" /\ Leave("ok")
     ELSE dev' = (IF served(a) THEN Booted(dev) ELSE dev) /\ FlashSays(IF a = "ok" THEN "ok" ELSE "error")

\* DFU is left by an empty download: done once the bootloader is off the bus.
leave(a) ==
  /\ flashJob.step = "verify" /\ flashJob.via = "dfu" /\ Meets(a)
  /\ IF ~Verified(a) THEN Leave(IF a = "ok" THEN "mismatch" ELSE "error")
     ELSE IF ~flashJob.run THEN a = "ok" /\ Leave("ok")
     ELSE dev' = (IF served(a) THEN Booted(dev) ELSE dev) /\ FlashSays(IF served(a) THEN "ok" ELSE "error")

-----------------------------------------------------------------------------
\* A command the power went away under has nothing to say.
Gone == flashJob' = [flashJob EXCEPT !.step = "done", !.said = IF flashJob.step = "done" THEN @ ELSE "gone", !.cycled = TRUE]

\* The cable is pulled and plugged again, in the middle of a command or after it.  A list being
\* erased when the power goes is erased in part, from its start.
FlashPowerCycle(n) ==
  /\ flashJob.step # "start" /\ ~flashJob.cycled
  /\ LET ps == IF flashJob.step \in {"erase", "bisect"}
               THEN (flashJob.k .. flashJob.k + n - 1) \cap (Pages \ dev.wrp) ELSE {} IN
     dev' = Booted([Erased(dev, ps) EXCEPT !.fresh = FALSE])
  /\ Gone /\ UNCHANGED faults

\* The power goes in the middle of a Write Memory.
TornWrite ==
  /\ flashJob.step = "write" /\ ~flashJob.cycled /\ ~ReadBackFails
  /\ order(flashJob.k) \in Pages \ dev.wrp
  /\ dev' = Booted(Torn(dev, order(flashJob.k)))
  /\ Gone /\ UNCHANGED faults

FlashOps ==
  {[op |-> "flash", len |-> n, erase |-> e, verify |-> v, run |-> r, kind |-> "raw", yes |-> TRUE]
     : n \in Images, e \in BOOLEAN, v \in BOOLEAN, r \in BOOLEAN}
  \cup {[op |-> "flash", len |-> 1, erase |-> TRUE, verify |-> TRUE, run |-> TRUE, kind |-> k, yes |-> TRUE]
          : k \in {"elf", "hex", "short", "stack", "vector"}}
OtherOps ==
  {[op |-> o, len |-> 0, erase |-> TRUE, verify |-> TRUE, run |-> TRUE, kind |-> "raw", yes |-> y]
     : o \in {"erase", "info", "protect", "unprotect"}, y \in BOOLEAN}

Boards ==
  {[at |-> t, board |-> b, density |-> n, family |-> f, known |-> k, pages |-> [p \in 0 .. n - 1 |-> c],
    eeprom |-> "kept", rdp |-> r, fresh |-> FALSE, wrp |-> w, slow |-> s, layout |-> l]
   : t \in {"app", "boot"}, b \in {"r1", "r2"}, n \in Densities, f \in Densities, k \in BOOLEAN, c \in {"old", "blank"},
     r \in BOOLEAN, w \in {{}, {EraseChunk + 2}}, s \in {1, 2}, l \in Layouts}

\* A part no larger than its family; one oddity at a time.
FlInit ==
  /\ \E d \in Boards :
       /\ d.density <= d.family /\ d.wrp \subseteq 0 .. d.density - 1
       /\ (d.at = "boot" => d.board = "r1") /\ (d.pages[0] = "blank" => d.board = "r2" \/ d.at = "boot")
       /\ (d.wrp # {} \/ ~d.known \/ d.slow = 2 => ~d.rdp /\ d.board = "r2")
       /\ Cardinality({x \in {"wrp", "known", "slow"} : CASE x = "wrp" -> d.wrp # {} [] x = "known" -> ~d.known [] OTHER -> d.slow = 2}) <= 1
       /\ (d.layout # "main" => d.board = "r1" /\ d.at = "boot" /\ d.pages[0] = "old" /\ d.density = FamilyPages /\ ~d.rdp)
       /\ dev = Settled(d)
  /\ \E o \in FlashOps \cup OtherOps :
       flashJob = [op |-> o.op, len |-> o.len, erase |-> o.erase, verify |-> o.verify, run |-> o.run, kind |-> o.kind,
              yes |-> o.yes, via |-> "uart", step |-> "start", try |-> 1, k |-> 0, good |-> 0, bad |-> 0,
              began |-> FALSE, sent |-> FALSE, unsure |-> FALSE, said |-> "", cycled |-> FALSE]
  /\ faults = {}

FlNext ==
  \/ Pick
  \/ \E h \in BOOLEAN : enter_dfu(h)
  \/ \E a \in Answers : connect(a) \/ get_id(a) \/ dfu_open(a) \/ readout_protected(a) \/ erase_pages(a)
                        \/ erase_span(a) \/ erase_chip(a) \/ bisect_erase_boundary(a) \/ EraseEnds(a)
                        \/ Finish(a) \/ leave(a)
  \/ \E a, b \in Answers : probe(a, b) \/ set_level(a, b)
  \/ \E a \in Answers, good \in BOOLEAN : write_image(a, good) \/ dfu_write(a, good)
  \/ \E n \in 0 .. EraseChunk - 1 : FlashPowerCycle(n)
  \/ TornWrite

-----------------------------------------------------------------------------
(* Properties *)

flashRan == flashJob.said # ""

(* Whatever was interrupted, a write or an erase in the middle too, an     *)
(* application never runs in front of a part of its image: with any of the *)
(* new image's vector table in place, every other block is of the new      *)
(* image, and was read back; one of the old stands in front of an          *)
(* untouched flash (write_image writes the first block last).  What runs   *)
(* may lack the end of the first block itself, when the power went in that *)
(* write.  Without the erase the caller answers for blank pages.           *)
NeverTruncated ==
  dev.at = "app" /\ (flashJob.op = "flash" => flashJob.erase) =>
    /\ dev.pages[0] = "old" => \A p \in Pages : dev.pages[p] = "old"
    /\ dev.pages[0] \notin {"old", "blank"} => \A p \in 1 .. flashJob.len - 1 :
         dev.pages[p] \in {"new"} \cup (IF flashJob.verify THEN {} ELSE {"bad"})

(* A command that ends well has done what it says: the verified image is   *)
(* in the flash and runs; an erased part without protected pages is blank; *)
(* the readout state reported is the chip's.                               *)
OkIsDone ==
  ~flashJob.cycled =>
    /\ flashJob.op = "flash" /\ flashJob.said = "ok" /\ flashJob.verify =>
         /\ \A p \in 0 .. flashJob.len - 1 : dev.pages[p] = "new"
         /\ dev.at = IF flashJob.run THEN "app" ELSE "boot"
    /\ flashJob.op = "erase" /\ flashJob.said = "ok" /\ dev.wrp = {} => \A p \in Pages : dev.pages[p] = "blank"
    /\ flashJob.said \in {"on", "unconfirmed on"} => dev.rdp
    /\ flashJob.said \in {"off", "unconfirmed off"} => ~dev.rdp

(* A command refused or failed before its first change leaves a UART      *)
(* board running what it ran, its flash untouched.                         *)
IntactRuns ==
  flashRan /\ ~flashJob.cycled /\ ~flashJob.began /\ dev.board = "r2" =>
    dev = Booted(dev) /\ \E c \in {"old", "blank"} : dev.pages = flashMap(c)

(* The data EEPROM (keys, counters) survives every command but unprotect.  *)
EepromKept == dev.eeprom = "erased" => flashJob.op = "unprotect" /\ flashJob.yes

FlashSound == NeverTruncated /\ OkIsDone /\ IntactRuns /\ EepromKept
=============================================================================
