----------------------------- MODULE HostProofs -----------------------------
(***************************************************************************)
(* Proofs about the host's programs that MCHost puts side by side, for     *)
(* every value of their constants that the named assumptions allow:        *)
(*   Flasher      FlasherIsSound                                           *)
(*   CliClient    ClientIsHonest                                           *)
(* A step of MCHost is a step of one part and leaves the others alone, so  *)
(* each part has its own inductive invariant, shown of its own steps.      *)
(***************************************************************************)
EXTENDS MCHost, NaturalsInduction, FiniteSetTheorems, SequenceTheorems, TLAPS

-----------------------------------------------------------------------------
(***************************************************************************)
(* The flasher: the inductive invariant                                    *)
(***************************************************************************)

Cells == {"old", "blank", "new", "bad", "torn"}
DevRecs ==
  [at : {"app", "boot", "nothing", "waits"}, board : {"r1", "r2"}, density : Densities,
   family : Densities, known : BOOLEAN, pages : UNION {[0 .. n - 1 -> Cells] : n \in Densities},
   eeprom : {"kept", "erased"}, rdp : BOOLEAN, fresh : BOOLEAN, wrp : SUBSET Nat, slow : {1, 2},
   layout : Layouts]
JobOps == {"flash", "erase", "info", "protect", "unprotect"}
JobSteps == {"start", "enter_dfu", "connect", "id", "open", "probe", "level", "erase", "bisect",
             "write", "verify", "done"}
OnSays == {"on", "unconfirmed on"}
OffSays == {"off", "unconfirmed off"}
BadSays == {"refused", "no bootloader", "unconfirmed", "error", "unknown chip", "too large",
            "protected", "unchanged", "partial", "mismatch", "gone"}
JobRecs ==
  [op : JobOps, len : Nat, erase : BOOLEAN, verify : BOOLEAN, run : BOOLEAN,
   kind : {"raw", "elf", "hex", "short", "stack", "vector"}, yes : BOOLEAN, via : {"uart", "dfu"},
   step : JobSteps, try : Nat, k : Nat, good : Nat, bad : Nat, began : BOOLEAN, sent : BOOLEAN,
   unsure : BOOLEAN, said : {"", "ok"} \cup OnSays \cup OffSays \cup BadSays, cycled : BOOLEAN]

PagesOf(d) == 0 .. d.density - 1
DevOk(d) == d \in DevRecs /\ d.pages \in [PagesOf(d) -> Cells] /\ 0 \notin d.wrp

\* The board runs what a reset would run.
Rests(d) == d.at = Booted(d).at

\* Where the command is, on which board.
InBoot == {"id", "probe", "open", "level", "erase", "bisect", "write", "verify"}
Changing == {"erase", "write", "verify", "bisect", "level"}
Levels == {"protect", "unprotect"}
CommandInv(d, j) ==
  /\ j.via = "dfu" => d.board = "r1"
  /\ j.step \in {"enter_dfu", "open"} => j.via = "dfu"
  /\ j.step \in InBoot => d.at = "boot"
  /\ d.fresh => j.op = "protect"
  /\ j.step # "done" => j.said = ""
  /\ j.step \in Changing => j.began
  /\ j.sent => j.op \in Levels /\ j.began
  /\ j.step \notin {"start", "done"} => (j.op \in Levels => j.yes) /\ (j.op = "flash" => j.len > 0)
  /\ j.step = "level" => j.op \in Levels
  /\ j.step = "erase" => j.op \in {"flash", "erase"} /\ (j.op = "flash" => j.erase)
  /\ j.step = "bisect" => j.op = "erase" /\ j.via = "uart"
  /\ j.step \in {"write", "verify"} => j.op = "flash"
  /\ d.eeprom = "erased" => j.op = "unprotect" /\ j.yes

\* What a UART board has as long as nothing was changed.
IntactInv(d, j) ==
  d.board = "r2" =>
    /\ ~j.began => \E c \in {"old", "blank"} : \A p \in PagesOf(d) : d.pages[p] = c
    /\ j.step = "start" \/ (j.said # "" /\ ~j.cycled /\ ~j.began) => Rests(d)

\* The image: nothing is written before the pages are erased, the first page is
\* erased first and written last, and the others are read back before it is.
ImageInv(d, j) ==
  /\ j.step \notin {"write", "verify", "done"} \/ j.op # "flash" =>
       \A p \in PagesOf(d) : d.pages[p] \in {"old", "blank"}
  /\ (j.op = "flash" => j.erase) /\ d.pages[0] = "old" => \A p \in PagesOf(d) : d.pages[p] = "old"
  /\ j.op = "flash" /\ j.erase /\ d.pages[0] \notin {"old", "blank"} =>
       \A p \in 1 .. j.len - 1 : d.pages[p] = "new" \/ (~j.verify /\ d.pages[p] = "bad")
  /\ j.step = "write" =>
       /\ j.k < j.len /\ j.k < d.density
       /\ j.erase => d.pages[0] = "blank" /\ \A p \in 1 .. j.k : d.pages[p] \in {"new", "bad"}
  /\ j.step = "verify" /\ j.verify => \A p \in 1 .. j.len - 1 : d.pages[p] = "new"
  /\ j.op = "flash" /\ j.said = "ok" /\ j.verify =>
       /\ \A p \in 0 .. j.len - 1 : d.pages[p] = "new"
       /\ ~j.cycled => d.at = IF j.run THEN "app" ELSE "boot"

\* The end of the list that begins at page k in an erase of the whole device.
ListEnd(k) == IF k + EraseChunk < FamilyPages THEN k + EraseChunk ELSE FamilyPages
OnList(k) == \E q \in 0 .. k : k = q * EraseChunk
BlankBelow(d, n) == n <= d.density /\ \A p \in 0 .. n - 1 : d.pages[p] = "blank"
Span(d, j) == IF j.op = "flash" THEN j.len ELSE IF j.via = "dfu" THEN d.density ELSE FamilyPages

\* Erasing: what was asked for so far is blank; a refused list that lies in the flash
\* of a part without protected pages was refused by a fault of the line, which is spent.
EraseInv(d, j, fs) ==
  /\ j.step = "erase" =>
       /\ BlankBelow(d, j.k) /\ j.k < Span(d, j)
       /\ j.op = "erase" /\ j.via = "uart" => OnList(j.k)
  /\ j.step = "bisect" =>
       /\ OnList(j.k) /\ j.good < j.bad /\ j.k + j.bad <= ListEnd(j.k)
       /\ BlankBelow(d, j.k + j.good)
       /\ d.wrp = {} /\ ListEnd(j.k) <= d.density => "payload" \in fs /\ j.k + j.bad = ListEnd(j.k)
  /\ j.op = "erase" /\ j.said = "ok" /\ d.wrp = {} => BlankBelow(d, d.density)

\* The readout state: of two refusals in a row one is the chip's.
LevelInv(d, j, fs) ==
  /\ j.step = "probe" /\ j.via = "uart" /\ j.try = 2 => d.rdp \/ "command" \in fs
  /\ j.said \in OnSays => d.rdp
  /\ j.said \in OffSays => ~d.rdp

FlashInvOf(d, j, fs) ==
  /\ DevOk(d) /\ j \in JobRecs
  /\ CommandInv(d, j) /\ IntactInv(d, j) /\ ImageInv(d, j) /\ EraseInv(d, j, fs) /\ LevelInv(d, j, fs)

FlashInv == FlashInvOf(dev, flashJob, faults)

-----------------------------------------------------------------------------
(***************************************************************************)
(* The flasher: the board                                                  *)
(***************************************************************************)

\* Two boards that differ in what runs only.
Kept(d, e) ==
  /\ e.board = d.board /\ e.density = d.density /\ e.family = d.family /\ e.known = d.known
  /\ e.pages = d.pages /\ e.eeprom = d.eeprom /\ e.rdp = d.rdp /\ e.fresh = d.fresh
  /\ e.wrp = d.wrp /\ e.slow = d.slow /\ e.layout = d.layout

LEMMA AtIs ==
  ASSUME NEW d, DevOk(d), NEW t \in {"app", "boot", "nothing", "waits"}
  PROVE  /\ DevOk([d EXCEPT !.at = t]) /\ Kept(d, [d EXCEPT !.at = t]) /\ [d EXCEPT !.at = t].at = t
<1>1. PICK e : e = [d EXCEPT !.at = t]
  OBVIOUS
<1>2. d \in DevRecs BY DEF DevOk
<1>3. e \in DevRecs /\ e.at = t BY <1>1, <1>2 DEF DevRecs
<1>4. Kept(d, e) BY <1>1, <1>2 DEF DevRecs, Kept
<1>5. DevOk(e) BY <1>3, <1>4 DEF DevOk, Kept, PagesOf
<1> QED BY <1>1, <1>3, <1>4, <1>5

\* What a reset runs.
LEMMA BootedIs ==
  ASSUME NEW d, DevOk(d)
  PROVE  /\ DevOk(Booted(d)) /\ Kept(d, Booted(d)) /\ Rests(Booted(d))
         /\ Booted(d).at = IF d.fresh THEN "waits" ELSE IF d.pages[0] = "blank" THEN "nothing" ELSE "app"
<1>1. PICK t : t = IF d.fresh THEN "waits" ELSE IF d.pages[0] = "blank" THEN "nothing" ELSE "app"
  OBVIOUS
<1>2. t \in {"app", "boot", "nothing", "waits"} BY <1>1
<1>3. Booted(d) = [d EXCEPT !.at = t] BY <1>1 DEF Booted
<1>4. DevOk(Booted(d)) /\ Kept(d, Booted(d)) /\ Booted(d).at = t BY <1>2, <1>3, AtIs, ZenonT(30)
<1>5. PICK e : e = Booted(d)
  OBVIOUS
<1>6. e.fresh = d.fresh /\ e.pages = d.pages BY <1>4, <1>5 DEF Kept
<1>7. Booted(e) = [e EXCEPT !.at = t] BY <1>1, <1>6 DEF Booted
<1>8. Booted(e).at = t BY <1>2, <1>4, <1>5, <1>7, AtIs
<1> QED BY <1>1, <1>4, <1>5, <1>8 DEF Rests

\* A board that rests is as a reset leaves it.
LEMMA RestingIs ==
  ASSUME NEW d, DevOk(d), Rests(d)
  PROVE  d = Booted(d)
<1>1. PICK t : t = IF d.fresh THEN "waits" ELSE IF d.pages[0] = "blank" THEN "nothing" ELSE "app"
  OBVIOUS
<1>2. Booted(d) = [d EXCEPT !.at = t] /\ d.at = t BY <1>1, BootedIs DEF Booted, Rests
<1>3. d \in DevRecs BY DEF DevOk
<1> QED BY <1>2, <1>3 DEF DevRecs

\* Erased pages.
LEMMA ErasedIs ==
  ASSUME NEW d, DevOk(d), NEW ps
  PROVE  /\ DevOk(Erased(d, ps))
         /\ Erased(d, ps).at = d.at /\ Erased(d, ps).board = d.board /\ Erased(d, ps).density = d.density
         /\ Erased(d, ps).eeprom = d.eeprom /\ Erased(d, ps).rdp = d.rdp /\ Erased(d, ps).fresh = d.fresh
         /\ Erased(d, ps).wrp = d.wrp
         /\ \A p \in PagesOf(d) : Erased(d, ps).pages[p] = IF p \in ps THEN "blank" ELSE d.pages[p]
<1>1. PICK g : g = [p \in DOMAIN d.pages |-> IF p \in ps THEN "blank" ELSE d.pages[p]]
  OBVIOUS
<1>2. d \in DevRecs /\ d.pages \in [PagesOf(d) -> Cells] /\ 0 \notin d.wrp BY DEF DevOk
<1>3. DOMAIN d.pages = PagesOf(d) BY <1>2
<1>4. g \in [PagesOf(d) -> Cells] /\ \A p \in PagesOf(d) : g[p] = IF p \in ps THEN "blank" ELSE d.pages[p]
  BY <1>1, <1>2, <1>3 DEF Cells
<1>5. d.density \in Densities BY <1>2 DEF DevRecs
<1>6. g \in UNION {[0 .. n - 1 -> Cells] : n \in Densities} BY <1>4, <1>5 DEF PagesOf
<1>7. PICK e : e = [d EXCEPT !.pages = g]
  OBVIOUS
<1>8. Erased(d, ps) = e BY <1>1, <1>7 DEF Erased
<1>9. e \in DevRecs BY <1>2, <1>6, <1>7 DEF DevRecs
<1>10. /\ e.pages = g /\ e.at = d.at /\ e.board = d.board /\ e.density = d.density
       /\ e.eeprom = d.eeprom /\ e.rdp = d.rdp /\ e.fresh = d.fresh /\ e.wrp = d.wrp
  BY <1>2, <1>7 DEF DevRecs
<1>11. DevOk(e) BY <1>2, <1>4, <1>9, <1>10 DEF DevOk, PagesOf
<1> QED BY <1>4, <1>8, <1>10, <1>11

\* A written page.
LEMMA WrittenIs ==
  ASSUME NEW d, DevOk(d), NEW x \in PagesOf(d), NEW good \in BOOLEAN
  PROVE  /\ DevOk(Written(d, x, good))
         /\ Written(d, x, good).at = d.at /\ Written(d, x, good).board = d.board
         /\ Written(d, x, good).density = d.density
         /\ Written(d, x, good).eeprom = d.eeprom /\ Written(d, x, good).rdp = d.rdp
         /\ Written(d, x, good).fresh = d.fresh /\ Written(d, x, good).wrp = d.wrp
         /\ Written(d, x, good).pages[x] \in {"new", "bad"}
         /\ \A p \in PagesOf(d) \ {x} : Written(d, x, good).pages[p] = d.pages[p]
<1>0. PICK c : c = IF good /\ d.pages[x] = "blank" THEN "new" ELSE "bad"
  OBVIOUS
<1>1. PICK g : g = [d.pages EXCEPT ![x] = c]
  OBVIOUS
<1>2. d \in DevRecs /\ d.pages \in [PagesOf(d) -> Cells] /\ 0 \notin d.wrp BY DEF DevOk
<1>3. c \in {"new", "bad"} /\ c \in Cells BY <1>0 DEF Cells
<1>4. g \in [PagesOf(d) -> Cells] /\ g[x] = c /\ \A p \in PagesOf(d) \ {x} : g[p] = d.pages[p]
  BY <1>1, <1>2, <1>3
<1>5. d.density \in Densities BY <1>2 DEF DevRecs
<1>6. g \in UNION {[0 .. n - 1 -> Cells] : n \in Densities} BY <1>4, <1>5 DEF PagesOf
<1>7. PICK e : e = [d EXCEPT !.pages = g]
  OBVIOUS
<1>8. Written(d, x, good) = e
  <2>1. Written(d, x, good) = [d EXCEPT !.pages[x] = c] BY <1>0 DEF Written
  <2>2. [d EXCEPT !.pages[x] = c] = [d EXCEPT !.pages = [d.pages EXCEPT ![x] = c]] BY <1>2 DEF DevRecs
  <2> QED BY <1>1, <1>7, <2>1, <2>2
<1>9. e \in DevRecs BY <1>2, <1>6, <1>7 DEF DevRecs
<1>10. /\ e.pages = g /\ e.at = d.at /\ e.board = d.board /\ e.density = d.density
       /\ e.eeprom = d.eeprom /\ e.rdp = d.rdp /\ e.fresh = d.fresh /\ e.wrp = d.wrp
  BY <1>2, <1>7 DEF DevRecs
<1>11. DevOk(e) BY <1>2, <1>4, <1>9, <1>10 DEF DevOk, PagesOf
<1> QED BY <1>3, <1>4, <1>8, <1>10, <1>11

\* The option byte is set or cleared; the latter erases.
LEMMA LevelledIs ==
  ASSUME NEW d, DevOk(d), NEW on \in BOOLEAN
  PROVE  /\ DevOk(Levelled(d, on))
         /\ Levelled(d, on).board = d.board /\ Levelled(d, on).density = d.density /\ Levelled(d, on).wrp = d.wrp
         /\ on => /\ Levelled(d, on).eeprom = d.eeprom /\ Levelled(d, on).pages = d.pages
         /\ ~on => /\ Levelled(d, on).fresh = d.fresh
                   /\ \A p \in PagesOf(d) : Levelled(d, on).pages[p] = "blank"
<1>2. d \in DevRecs /\ d.pages \in [PagesOf(d) -> Cells] /\ 0 \notin d.wrp BY DEF DevOk
<1>3. CASE on
  <2>1. PICK e : e = [d EXCEPT !.rdp = TRUE, !.fresh = TRUE, !.at = "waits"]
    OBVIOUS
  <2>2. e \in DevRecs BY <1>2, <2>1 DEF DevRecs
  <2>3. /\ e.board = d.board /\ e.density = d.density /\ e.wrp = d.wrp /\ e.eeprom = d.eeprom
        /\ e.pages = d.pages
    BY <1>2, <2>1 DEF DevRecs
  <2>4. DevOk(e) BY <1>2, <2>2, <2>3 DEF DevOk, PagesOf
  <2> QED BY <1>3, <2>1, <2>3, <2>4 DEF Levelled
<1>4. CASE ~on
  <2>1. PICK g : g = [p \in DOMAIN d.pages |-> "blank"]
    OBVIOUS
  <2>2. DOMAIN d.pages = PagesOf(d) BY <1>2
  <2>3. g \in [PagesOf(d) -> Cells] /\ \A p \in PagesOf(d) : g[p] = "blank" BY <2>1, <2>2 DEF Cells
  <2>4. d.density \in Densities BY <1>2 DEF DevRecs
  <2>5. g \in UNION {[0 .. n - 1 -> Cells] : n \in Densities} BY <2>3, <2>4 DEF PagesOf
  <2>6. PICK e : e = [d EXCEPT !.rdp = FALSE, !.pages = g, !.eeprom = "erased", !.at = "nothing"]
    OBVIOUS
  <2>7. e \in DevRecs BY <1>2, <2>5, <2>6 DEF DevRecs
  <2>8. /\ e.board = d.board /\ e.density = d.density /\ e.wrp = d.wrp /\ e.fresh = d.fresh /\ e.pages = g
    BY <1>2, <2>6 DEF DevRecs
  <2>9. DevOk(e) BY <1>2, <2>3, <2>7, <2>8 DEF DevOk, PagesOf
  <2>10. Levelled(d, on) = e BY <1>4, <2>1, <2>6 DEF Levelled
  <2> QED BY <1>4, <2>3, <2>8, <2>9, <2>10
<1> QED BY <1>3, <1>4

-----------------------------------------------------------------------------
(***************************************************************************)
(* The flasher: the ends of a command and its next step                    *)
(***************************************************************************)

\* The fields of a command that no step changes.
SameTask(i, j) ==
  /\ i.op = j.op /\ i.len = j.len /\ i.erase = j.erase /\ i.verify = j.verify /\ i.run = j.run
  /\ i.kind = j.kind /\ i.yes = j.yes /\ i.cycled = j.cycled

\* A command that ends with s.
Saying(j, s) == [j EXCEPT !.step = "done", !.said = s]
LEMMA SayingIs ==
  ASSUME NEW j \in JobRecs, NEW s \in {"", "ok"} \cup OnSays \cup OffSays \cup BadSays
  PROVE  /\ Saying(j, s) \in JobRecs /\ SameTask(Saying(j, s), j) /\ Saying(j, s).step = "done"
         /\ Saying(j, s).said = s /\ Saying(j, s).via = j.via /\ Saying(j, s).began = j.began
         /\ Saying(j, s).sent = j.sent
<1>1. PICK i : i = [j EXCEPT !.step = "done", !.said = s]
  OBVIOUS
<1>2. i \in JobRecs BY <1>1 DEF JobRecs, JobSteps
<1>3. i.step = "done" /\ i.said = s /\ i.via = j.via /\ i.began = j.began /\ i.sent = j.sent
  BY <1>1 DEF JobRecs
<1>4. SameTask(i, j) BY <1>1 DEF JobRecs, SameTask
<1> QED BY <1>1, <1>2, <1>3, <1>4 DEF Saying

\* A command that ends without having done what it was to do, on a board as it was or reset.
LEMMA EndsBadly ==
  ASSUME NEW d, NEW j, NEW fs, FlashInvOf(d, j, fs),
         NEW e, DevOk(e), Kept(d, e), NEW gs,
         NEW s \in OnSays \cup OffSays \cup BadSays, s \in OnSays => d.rdp, s \in OffSays => ~d.rdp,
         d.board = "r2" /\ ~j.began => Rests(e)
  PROVE  FlashInvOf(e, Saying(j, s), gs)
<1>0. PICK i : i = Saying(j, s)
  OBVIOUS
<1>1. /\ i \in JobRecs /\ SameTask(i, j) /\ i.step = "done" /\ i.said = s /\ i.via = j.via
      /\ i.began = j.began /\ i.sent = j.sent
  BY <1>0, SayingIs DEF FlashInvOf
<1>2. s # "ok" BY DEF OnSays, OffSays, BadSays
<1>3. CommandInv(e, i) BY <1>1 DEF FlashInvOf, CommandInv, Kept, SameTask, InBoot, Changing
<1>4. IntactInv(e, i) BY <1>1 DEF FlashInvOf, IntactInv, Kept, SameTask, PagesOf
<1>5. ImageInv(e, i) BY <1>1, <1>2 DEF FlashInvOf, ImageInv, Kept, SameTask, PagesOf
<1>6. EraseInv(e, i, gs) BY <1>1, <1>2 DEF EraseInv
<1>7. LevelInv(e, i, gs) BY <1>1 DEF LevelInv, Kept
<1> QED BY <1>0, <1>1, <1>3, <1>4, <1>5, <1>6, <1>7 DEF FlashInvOf

\* The next step of a command.
Onward(j, s) == [j EXCEPT !.step = s, !.k = 0, !.try = 1, !.began = @ \/ s \in {"erase", "write", "level"}]
LEMMA OnwardIs ==
  ASSUME NEW j \in JobRecs, NEW s \in JobSteps
  PROVE  /\ Onward(j, s) \in JobRecs /\ SameTask(Onward(j, s), j) /\ Onward(j, s).step = s
         /\ Onward(j, s).k = 0 /\ Onward(j, s).try = 1 /\ Onward(j, s).said = j.said
         /\ Onward(j, s).via = j.via /\ Onward(j, s).sent = j.sent
         /\ Onward(j, s).began <=> (j.began \/ s \in {"erase", "write", "level"})
         /\ Onward(j, s).began \in BOOLEAN
<1>0. PICK b \in BOOLEAN : b <=> (j.began \/ s \in {"erase", "write", "level"}) BY Zenon
<1>1. PICK i : i = [j EXCEPT !.step = s, !.k = 0, !.try = 1, !.began = b]
  OBVIOUS
<1>2. i \in JobRecs BY <1>1 DEF JobRecs
<1>3. /\ i.step = s /\ i.said = j.said /\ i.via = j.via /\ i.began = b /\ i.sent = j.sent
      /\ i.k = 0 /\ i.try = 1
  BY <1>1 DEF JobRecs
<1>4. SameTask(i, j) BY <1>1 DEF JobRecs, SameTask
<1>5. j.began \in BOOLEAN BY DEF JobRecs
<1>6. b = (j.began \/ s \in {"erase", "write", "level"}) BY <1>0, <1>5
<1>7. Onward(j, s) = i BY <1>1, <1>6 DEF Onward
<1> QED BY <1>2, <1>3, <1>4, <1>6, <1>7

\* A step on the way to the first change.
LEMMA Proceeds ==
  ASSUME NEW d, NEW j, NEW fs, FlashInvOf(d, j, fs), j.step \notin {"write", "verify", "done"},
         NEW e, DevOk(e), Kept(d, e), NEW gs,
         NEW i \in JobRecs, SameTask(i, j), i.said = j.said, i.began = j.began, i.sent = j.sent,
         i.step \in {"id", "probe", "open", "enter_dfu", "connect"},
         i.via = "dfu" => d.board = "r1", i.step \in {"enter_dfu", "open"} => i.via = "dfu",
         i.step \in {"id", "probe", "open"} => e.at = "boot",
         i.op \in Levels => i.yes, i.op = "flash" => i.len > 0,
         i.step = "probe" /\ i.via = "uart" /\ i.try = 2 => d.rdp \/ "command" \in gs
  PROVE  FlashInvOf(e, i, gs)
<1>1. j.said = "" BY DEF FlashInvOf, CommandInv
<1>2. i.step \notin {"write", "verify", "done"} /\ i.step # "write" /\ i.step # "verify" /\ i.step # "start"
  OBVIOUS
<1>3. i.said = "" /\ i.said # "ok" /\ i.said \notin OnSays /\ i.said \notin OffSays
  BY <1>1 DEF OnSays, OffSays
<1>4. i.op = j.op /\ i.erase = j.erase /\ i.len = j.len /\ i.verify = j.verify /\ i.yes = j.yes
  BY DEF SameTask
<1>5. j.step \notin {"write", "verify", "done"}
  OBVIOUS
<1>6. e.pages = d.pages /\ PagesOf(e) = PagesOf(d) /\ ImageInv(d, j) BY DEF Kept, PagesOf, FlashInvOf
<1>7. ImageInv(e, i)
  <2>1. i.step # "write" /\ i.step # "verify" /\ i.said # "ok" BY <1>2, <1>3
  <2>2. \A p \in PagesOf(e) : e.pages[p] \in {"old", "blank"} BY <1>5, <1>6 DEF ImageInv
  <2>3. /\ (i.op = "flash" => i.erase) /\ e.pages[0] = "old" => \A p \in PagesOf(e) : e.pages[p] = "old"
        /\ i.op = "flash" /\ i.erase /\ e.pages[0] \notin {"old", "blank"} =>
             \A p \in 1 .. i.len - 1 : e.pages[p] = "new" \/ (~i.verify /\ e.pages[p] = "bad")
    BY <1>4, <1>6 DEF ImageInv
  <2> QED BY <2>1, <2>2, <2>3, Zenon DEF ImageInv
<1>8. CommandInv(e, i) BY <1>3, <1>4 DEF FlashInvOf, CommandInv, Kept, Changing, InBoot
<1>9. IntactInv(e, i) BY <1>2, <1>3, <1>6, ZenonT(30) DEF FlashInvOf, IntactInv, Kept
<1>10. EraseInv(e, i, gs) BY <1>3 DEF EraseInv
<1>11. e.rdp = d.rdp BY DEF Kept
<1>12. LevelInv(e, i, gs) BY <1>3, <1>11, Zenon DEF LevelInv
<1> QED BY <1>7, <1>8, <1>9, <1>10, <1>12 DEF FlashInvOf

\* Every part has a first page.
LEMMA FirstPage ==
  ASSUME NEW d, DevOk(d)
  PROVE  /\ 0 \in PagesOf(d) /\ d.density \in Nat \ {0} /\ d.density \in Densities
         /\ d.density <= FamilyPages
<1>1. d.density \in Densities BY DEF DevOk, DevRecs
<1>2. d.density \in Nat \ {0} /\ d.density <= FamilyPages BY <1>1, FlashAssumption
<1> QED BY <1>1, <1>2 DEF PagesOf

LEMMA FirstAbove == ASSUME NEW d, DevOk(d) PROVE 0 < d.density
  BY FirstPage

LEMMA KeptItself == \A d : Kept(d, d)
  BY DEF Kept

\* What the invariant says, by name.
LEMMA FlashParts ==
  ASSUME FlashInv
  PROVE  /\ FlashInvOf(dev, flashJob, faults) /\ DevOk(dev) /\ flashJob \in JobRecs
         /\ CommandInv(dev, flashJob) /\ IntactInv(dev, flashJob) /\ ImageInv(dev, flashJob)
         /\ EraseInv(dev, flashJob, faults) /\ LevelInv(dev, flashJob, faults)
  BY DEF FlashInv, FlashInvOf

-----------------------------------------------------------------------------
(***************************************************************************)
(* The flasher: the steps before the first change                          *)
(***************************************************************************)

LEMMA PickStep ==
  ASSUME FlashInv, Pick
  PROVE  FlashInv'
<1> DEFINE d == dev  j == flashJob
<1>1. /\ FlashInvOf(d, j, faults) /\ DevOk(d) /\ j \in JobRecs /\ CommandInv(d, j) /\ IntactInv(d, j)
  BY FlashParts
<1>2. j.step = "start" /\ faults' = faults BY DEF Pick
<1>3. ASSUME FlashSays("refused"), UNCHANGED dev
      PROVE  FlashInv'
  <2>1. flashJob' = Saying(j, "refused") BY <1>3 DEF FlashSays, Saying
  <2>2. d.board = "r2" /\ ~j.began => Rests(d) BY <1>1, <1>2 DEF IntactInv
  <2>3. "refused" \in OnSays \cup OffSays \cup BadSays /\ "refused" \notin OnSays /\ "refused" \notin OffSays
    BY DEF OnSays, OffSays, BadSays
  <2>4. FlashInvOf(d, Saying(j, "refused"), faults) BY <1>1, <2>2, <2>3, EndsBadly, KeptItself
  <2> QED BY <1>2, <1>3, <2>1, <2>4 DEF FlashInv
<1>4. ASSUME UNCHANGED dev, SameTask(flashJob', j), flashJob' \in JobRecs, flashJob'.said = j.said,
             flashJob'.began = j.began, flashJob'.sent = j.sent,
             flashJob'.step \in {"open", "enter_dfu", "connect"},
             flashJob'.via = "dfu" => d.board = "r1",
             flashJob'.step \in {"enter_dfu", "open"} => flashJob'.via = "dfu",
             flashJob'.step = "open" => d.at = "boot",
             j.op \in Levels => j.yes, j.op = "flash" => j.len > 0
      PROVE  FlashInv'
  <2>1. PICK i : i = flashJob'
    OBVIOUS
  <2>2. i.op = j.op /\ i.yes = j.yes /\ i.len = j.len BY <1>4, <2>1 DEF SameTask
  <2>3. /\ i.op \in Levels => i.yes
        /\ i.op = "flash" => i.len > 0
        /\ i.step \in {"id", "probe", "open", "enter_dfu", "connect"}
        /\ i.step \in {"id", "probe", "open"} => d.at = "boot"
        /\ ~(i.step = "probe" /\ i.via = "uart" /\ i.try = 2)
        /\ j.step \notin {"write", "verify", "done"}
    BY <1>2, <1>4, <2>1, <2>2
  <2>4. FlashInvOf(d, i, faults) BY <1>1, <1>4, <2>1, <2>3, Proceeds, KeptItself
  <2> QED BY <1>2, <1>4, <2>1, <2>4 DEF FlashInv
<1>5. CASE \/ j.op = "flash" /\ ~(validate(j.kind) /\ check_firmware_len(j.len))
           \/ j.op \in Levels /\ ~confirmation_gate
           \/ j.op = "info" /\ d.board = "r1" /\ d.at # "boot"
  BY <1>3, <1>5 DEF Pick, Levels
<1>6. CASE /\ ~(j.op = "flash" /\ ~(validate(j.kind) /\ check_firmware_len(j.len)))
           /\ ~(j.op \in Levels /\ ~confirmation_gate)
           /\ ~(j.op = "info" /\ d.board = "r1" /\ d.at # "boot")
  <2>1. (j.op \in Levels => j.yes) /\ (j.op = "flash" => j.len > 0)
    BY <1>6 DEF check_firmware_len, confirmation_gate
  <2>2. CASE d.board = "r1"
    <3>1. PICK s : s = IF d.at = "boot" THEN "open" ELSE "enter_dfu"
      OBVIOUS
    <3>2. flashJob' = [j EXCEPT !.step = s, !.via = "dfu"] /\ UNCHANGED dev
      BY <1>6, <2>2, <3>1 DEF Pick, Levels
    <3>3. PICK i : i = flashJob'
      OBVIOUS
    <3>4. s \in {"open", "enter_dfu"} /\ (s = "open" => d.at = "boot") BY <3>1
    <3>5. i \in JobRecs BY <1>1, <3>2, <3>3, <3>4 DEF JobRecs, JobSteps
    <3>6. i.said = j.said /\ i.began = j.began /\ i.sent = j.sent /\ i.step = s /\ i.via = "dfu"
      BY <1>1, <3>2, <3>3 DEF JobRecs
    <3>7. SameTask(i, j) BY <1>1, <3>2, <3>3 DEF JobRecs, SameTask
    <3> QED BY <1>4, <2>1, <2>2, <3>2, <3>3, <3>4, <3>5, <3>6, <3>7
  <2>4. CASE d.board # "r1"
    <3>1. flashJob' = Onward(j, "connect") /\ UNCHANGED dev BY <1>6, <2>4 DEF Pick, Levels, Step, Onward
    <3>2. PICK i : i = flashJob'
      OBVIOUS
    <3>3. "connect" \in JobSteps /\ "connect" \notin {"erase", "write", "level"} BY DEF JobSteps
    <3>4. /\ i \in JobRecs /\ SameTask(i, j) /\ i.step = "connect" /\ i.said = j.said /\ i.via = j.via
          /\ i.sent = j.sent /\ (i.began <=> (j.began \/ "connect" \in {"erase", "write", "level"}))
          /\ i.began \in BOOLEAN
      BY <1>1, <3>1, <3>2, <3>3, OnwardIs
    <3>5. j.began \in BOOLEAN /\ j.via # "dfu" BY <1>1, <2>4 DEF JobRecs, CommandInv
    <3>6. i.began = j.began BY <3>3, <3>4, <3>5
    <3> QED BY <1>4, <2>1, <3>1, <3>2, <3>4, <3>5, <3>6
  <2> QED BY <2>2, <2>4
<1> QED BY <1>5, <1>6

\* The command ends on a board put back to what it ran, or left as it is.
LEMMA RefuseStep ==
  ASSUME FlashInv, NEW s \in OnSays \cup OffSays \cup BadSays, s \in OnSays => dev.rdp, s \in OffSays => ~dev.rdp,
         FlashSays(s), dev' = Restore(dev)
  PROVE  FlashInv'
<1>1. FlashInvOf(dev, flashJob, faults) /\ DevOk(dev) /\ CommandInv(dev, flashJob) /\ flashJob \in JobRecs
  BY FlashParts
<1>2. flashJob' = Saying(flashJob, s) BY DEF FlashSays, Saying
<1>3. PICK e : e = Restore(dev)
  OBVIOUS
<1>4. DevOk(e) /\ Kept(dev, e) /\ (flashJob.via = "uart" => Rests(e))
  BY <1>1, <1>3, BootedIs, KeptItself DEF Restore
<1>5. dev.board = "r2" => flashJob.via = "uart" BY <1>1 DEF CommandInv, JobRecs
<1>6. FlashInvOf(e, Saying(flashJob, s), faults') BY <1>1, <1>4, <1>5, EndsBadly
<1> QED BY <1>2, <1>3, <1>6 DEF FlashInv

LEMMA LeaveStep ==
  ASSUME FlashInv, NEW s \in BadSays, Leave(s), flashJob.began \/ flashJob.via = "dfu"
  PROVE  FlashInv'
<1>1. FlashInvOf(dev, flashJob, faults) /\ DevOk(dev) /\ CommandInv(dev, flashJob) BY FlashParts
<1>2. flashJob' = Saying(flashJob, s) /\ dev' = dev BY DEF Leave, FlashSays, Saying
<1>3. s \notin OnSays /\ s \notin OffSays BY DEF OnSays, OffSays, BadSays
<1>4. ~(dev.board = "r2" /\ ~flashJob.began) BY <1>1 DEF CommandInv
<1>5. FlashInvOf(dev, Saying(flashJob, s), faults') BY <1>1, <1>3, <1>4, KeptItself, EndsBadly
<1> QED BY <1>2, <1>5 DEF FlashInv

\* Another attempt of the same step.
LEMMA AgainIs ==
  ASSUME NEW j \in JobRecs, NEW n \in Nat, NEW i, i = [j EXCEPT !.try = n]
  PROVE  /\ i \in JobRecs /\ SameTask(i, j) /\ i.step = j.step /\ i.said = j.said /\ i.via = j.via
         /\ i.began = j.began /\ i.sent = j.sent /\ i.try = n
<1>1. i \in JobRecs BY DEF JobRecs
<1>2. /\ i.step = j.step /\ i.said = j.said /\ i.via = j.via
      /\ i.began = j.began /\ i.sent = j.sent /\ i.try = n
  BY DEF JobRecs
<1>3. SameTask(i, j) BY DEF JobRecs, SameTask
<1> QED BY <1>1, <1>2, <1>3

LEMMA AgainStep ==
  ASSUME FlashInv, flashJob.step \in {"enter_dfu", "connect"}, NEW e, DevOk(e), Kept(dev, e), dev' = e,
         flashJob' = [flashJob EXCEPT !.try = @ + 1]
  PROVE  FlashInv'
<1> DEFINE j == flashJob
<1>1. FlashInvOf(dev, j, faults) /\ DevOk(dev) /\ CommandInv(dev, j) /\ j \in JobRecs BY FlashParts
<1>a. j.try \in Nat BY <1>1 DEF JobRecs
<1>2. PICK n \in Nat : n = j.try + 1 BY <1>a
<1>3. PICK i : i = flashJob' /\ i = [j EXCEPT !.try = n] BY <1>2
<1>4. /\ i \in JobRecs /\ SameTask(i, j) /\ i.step = j.step /\ i.said = j.said /\ i.via = j.via
      /\ i.began = j.began /\ i.sent = j.sent
  BY <1>1, <1>3, AgainIs
<1>5. i.op = j.op /\ i.yes = j.yes /\ i.len = j.len BY <1>4 DEF SameTask
<1>6. /\ i.op \in Levels => i.yes
      /\ i.op = "flash" => i.len > 0
      /\ i.via = "dfu" => dev.board = "r1"
      /\ i.step \in {"enter_dfu", "open"} => i.via = "dfu"
  BY <1>1, <1>4, <1>5 DEF CommandInv
<1>7. /\ i.step \in {"id", "probe", "open", "enter_dfu", "connect"}
      /\ i.step \notin {"id", "probe", "open"} /\ i.step # "probe"
      /\ j.step \notin {"write", "verify", "done"}
  BY <1>4
<1>8. FlashInvOf(e, i, faults') BY <1>1, <1>4, <1>6, <1>7, Proceeds
<1> QED BY <1>3, <1>8 DEF FlashInv

\* The next step, in the bootloader.
LEMMA OnwardStep ==
  ASSUME FlashInv, flashJob.step \notin {"start", "write", "verify", "done"},
         NEW e, DevOk(e), Kept(dev, e), e.at = "boot", dev' = e, NEW s \in {"id", "probe"}, Step(s)
  PROVE  FlashInv'
<1> DEFINE j == flashJob
<1>1. FlashInvOf(dev, j, faults) /\ DevOk(dev) /\ CommandInv(dev, j) /\ j \in JobRecs BY FlashParts
<1>2. PICK i : i = flashJob' /\ i = Onward(j, s) BY DEF Step, Onward
<1>3. s \in JobSteps /\ s \notin {"erase", "write", "level"} BY DEF JobSteps
<1>4. /\ i \in JobRecs /\ SameTask(i, j) /\ i.step = s /\ i.said = j.said /\ i.via = j.via
      /\ i.sent = j.sent /\ i.try = 1 /\ (i.began <=> (j.began \/ s \in {"erase", "write", "level"}))
      /\ i.began \in BOOLEAN
  BY <1>1, <1>2, <1>3, OnwardIs
<1>5. j.began \in BOOLEAN BY <1>1 DEF JobRecs
<1>6. i.began = j.began BY <1>3, <1>4, <1>5
<1>7. i.op = j.op /\ i.yes = j.yes /\ i.len = j.len BY <1>4 DEF SameTask
<1>8. /\ i.op \in Levels => i.yes
      /\ i.op = "flash" => i.len > 0
      /\ i.via = "dfu" => dev.board = "r1"
  BY <1>1, <1>4, <1>7 DEF CommandInv
<1>9. /\ i.step \in {"id", "probe", "open", "enter_dfu", "connect"}
      /\ i.step \notin {"enter_dfu", "open"}
      /\ j.step \notin {"write", "verify", "done"}
  BY <1>4
<1>10. i.try # 2 BY <1>4
<1>11. FlashInvOf(e, i, faults') BY <1>1, <1>4, <1>6, <1>8, <1>9, <1>10, Proceeds
<1> QED BY <1>2, <1>11 DEF FlashInv

LEMMA ConnectStep ==
  ASSUME FlashInv, NEW a, connect(a)
  PROVE  FlashInv'
<1>1. FlashInvOf(dev, flashJob, faults) /\ DevOk(dev) /\ CommandInv(dev, flashJob) /\ flashJob \in JobRecs
  BY FlashParts
<1>2. PICK d : d = reset_into_bootloader(dev, flashJob.try)
  OBVIOUS
<1>3. PICK t : t = IF dev.slow <= flashJob.try THEN "boot" ELSE Booted(dev).at
  OBVIOUS
<1>4. t \in {"app", "boot", "nothing", "waits"} /\ d = [dev EXCEPT !.at = t]
  BY <1>1, <1>2, <1>3, BootedIs DEF reset_into_bootloader
<1>5. DevOk(d) /\ Kept(dev, d) BY <1>1, <1>4, AtIs
<1>6. flashJob.step = "connect" BY DEF connect
<1>7. CASE d.at = "boot" /\ a = "ok"
  <2>1. PICK s \in {"id", "probe"} : s = IF flashJob.sent THEN "probe" ELSE "id"
    OBVIOUS
  <2>2. dev' = d /\ Step(s) BY <1>2, <1>7, <2>1 DEF connect
  <2>3. flashJob.step \notin {"start", "write", "verify", "done"} BY <1>6
  <2> QED BY <1>5, <1>7, <2>2, <2>3, OnwardStep
<1>8. CASE ~(d.at = "boot" /\ a = "ok") /\ flashJob.try < ConnectAttempts
  <2>1. dev' = d /\ flashJob' = [flashJob EXCEPT !.try = @ + 1] BY <1>2, <1>8 DEF connect
  <2>2. flashJob.step \in {"enter_dfu", "connect"} BY <1>6
  <2> QED BY <1>5, <2>1, <2>2, AgainStep
<1>9. CASE ~(d.at = "boot" /\ a = "ok") /\ ~(flashJob.try < ConnectAttempts)
  <2>1. PICK s : s = IF flashJob.unsure THEN "unconfirmed" ELSE "no bootloader"
    OBVIOUS
  <2>2. dev' = Booted(d) /\ flashJob' = Saying(flashJob, s)
    BY <1>2, <1>9, <2>1 DEF connect, FlashSays, Saying
  <2>3. s \in OnSays \cup OffSays \cup BadSays /\ s \notin OnSays /\ s \notin OffSays
    BY <2>1 DEF OnSays, OffSays, BadSays
  <2>4. PICK e : e = Booted(d)
    OBVIOUS
  <2>5. DevOk(e) /\ Kept(d, e) /\ Rests(e) BY <1>5, <2>4, BootedIs
  <2>6. Kept(dev, e) BY <1>5, <2>5 DEF Kept
  <2>7. FlashInvOf(e, Saying(flashJob, s), faults') BY <1>1, <2>3, <2>5, <2>6, EndsBadly
  <2> QED BY <2>2, <2>4, <2>7 DEF FlashInv
<1> QED BY <1>7, <1>8, <1>9

LEMMA GetIdStep ==
  ASSUME FlashInv, NEW a, get_id(a)
  PROVE  FlashInv'
<1>1. DevOk(dev) /\ CommandInv(dev, flashJob) BY FlashParts
<1>2. flashJob.step = "id" BY DEF get_id
<1>3. dev.at = "boot" BY <1>1, <1>2 DEF CommandInv, InBoot
<1>4. \/ \E s \in {"error", "unknown chip", "too large"} : Refuse(s)
      \/ Step("probe") /\ UNCHANGED dev
  BY DEF get_id
<1>5. ASSUME NEW s \in {"error", "unknown chip", "too large"}, Refuse(s)
      PROVE  FlashInv'
  <2>1. s \in OnSays \cup OffSays \cup BadSays /\ s \notin OnSays /\ s \notin OffSays
    BY DEF OnSays, OffSays, BadSays
  <2> QED BY <1>5, <2>1, RefuseStep DEF Refuse
<1>6. CASE Step("probe") /\ UNCHANGED dev
  <2>1. flashJob.step \notin {"start", "write", "verify", "done"} BY <1>2
  <2> QED BY <1>1, <1>3, <1>6, <2>1, KeptItself, OnwardStep
<1> QED BY <1>4, <1>5, <1>6

LEMMA DfuOpenStep ==
  ASSUME FlashInv, NEW a, dfu_open(a)
  PROVE  FlashInv'
<1>1. DevOk(dev) /\ CommandInv(dev, flashJob) BY FlashParts
<1>2. flashJob.step = "open" BY DEF dfu_open
<1>3. dev.at = "boot" /\ flashJob.via = "dfu" BY <1>1, <1>2 DEF CommandInv, InBoot
<1>4. \/ \E s \in {"error", "too large"} : Leave(s)
      \/ Step("probe") /\ UNCHANGED dev
  BY DEF dfu_open
<1>5. ASSUME NEW s \in {"error", "too large"}, Leave(s)
      PROVE  FlashInv'
  <2>1. s \in BadSays BY DEF BadSays
  <2> QED BY <1>3, <1>5, <2>1, LeaveStep
<1>6. CASE Step("probe") /\ UNCHANGED dev
  <2>1. flashJob.step \notin {"start", "write", "verify", "done"} BY <1>2
  <2> QED BY <1>1, <1>3, <1>6, <2>1, KeptItself, OnwardStep
<1> QED BY <1>4, <1>5, <1>6

\* The console of an r1 board erases the first page on its way into the bootloader.
LEMMA EnterDfuStep ==
  ASSUME FlashInv, NEW heard \in BOOLEAN, enter_dfu(heard)
  PROVE  FlashInv'
<1> DEFINE j == flashJob
<1>1. /\ FlashInvOf(dev, j, faults) /\ DevOk(dev) /\ CommandInv(dev, j) /\ j \in JobRecs
      /\ ImageInv(dev, j)
  BY FlashParts
<1>2. j.step = "enter_dfu" BY DEF enter_dfu
<1>3. j.via = "dfu" /\ dev.board = "r1" /\ j.said = "" BY <1>1, <1>2 DEF CommandInv
<1>4. CASE heard
  <2>0. PICK ps : ps = {0}
    OBVIOUS
  <2>1. PICK d : d = Erased(dev, ps)
    OBVIOUS
  <2>2. PICK e : e = [d EXCEPT !.at = "boot"]
    OBVIOUS
  <2>3. dev' = e /\ Step("open") /\ faults' = faults BY <1>4, <2>0, <2>1, <2>2 DEF enter_dfu
  <2>4. /\ DevOk(d) /\ d.board = "r1" /\ d.density = dev.density /\ d.eeprom = dev.eeprom /\ d.fresh = dev.fresh
        /\ \A p \in PagesOf(dev) : d.pages[p] = IF p \in ps THEN "blank" ELSE dev.pages[p]
    <3>1. /\ DevOk(d) /\ d.board = dev.board /\ d.density = dev.density /\ d.eeprom = dev.eeprom
          /\ d.fresh = dev.fresh
      BY <1>1, <2>1, ErasedIs
    <3>2. \A p \in PagesOf(dev) : d.pages[p] = IF p \in ps THEN "blank" ELSE dev.pages[p]
      BY <1>1, <2>1, ErasedIs
    <3> QED BY <1>3, <3>1, <3>2
  <2>5. DevOk(e) /\ Kept(d, e) /\ e.at = "boot" BY <2>2, <2>4, AtIs
  <2>6. /\ e.board = "r1" /\ e.density = dev.density /\ e.eeprom = dev.eeprom /\ e.fresh = dev.fresh
        /\ e.pages = d.pages /\ PagesOf(e) = PagesOf(dev)
    BY <2>4, <2>5 DEF Kept, PagesOf
  <2>7. PICK i : i = flashJob' /\ i = Onward(j, "open") BY <2>3 DEF Step, Onward
  <2>8. "open" \in JobSteps BY DEF JobSteps
  <2>9. /\ i \in JobRecs /\ SameTask(i, j) /\ i.step = "open" /\ i.said = j.said /\ i.via = j.via
        /\ i.sent = j.sent /\ (j.began => i.began)
    BY <1>1, <2>7, <2>8, OnwardIs
  <2>10. i.op = j.op /\ i.yes = j.yes /\ i.len = j.len /\ i.erase = j.erase BY <2>9 DEF SameTask
  <2>11. CommandInv(e, i) BY <1>1, <1>2, <1>3, <2>5, <2>6, <2>9, <2>10 DEF CommandInv, Changing
  <2>12. IntactInv(e, i) BY <2>6 DEF IntactInv
  <2>13. 0 \in PagesOf(dev) BY <1>1, FirstPage
  <2>14. e.pages[0] = "blank" /\ \A p \in PagesOf(e) : e.pages[p] \in {"old", "blank"}
    <3>1. \A p \in PagesOf(dev) : dev.pages[p] \in {"old", "blank"} BY <1>1, <1>2 DEF ImageInv
    <3> QED BY <2>0, <2>4, <2>6, <2>13, <3>1
  <2>15. i.said # "ok" /\ i.said \notin OnSays /\ i.said \notin OffSays BY <1>3, <2>9 DEF OnSays, OffSays
  <2>16. ImageInv(e, i) BY <2>9, <2>14, <2>15 DEF ImageInv
  <2>17. EraseInv(e, i, faults) BY <2>9, <2>15 DEF EraseInv
  <2>18. LevelInv(e, i, faults) BY <2>9, <2>15 DEF LevelInv
  <2> QED BY <2>3, <2>5, <2>7, <2>9, <2>11, <2>12, <2>16, <2>17, <2>18 DEF FlashInv, FlashInvOf
<1>5. CASE ~heard
  <2>1. \/ Leave("no bootloader")
        \/ flashJob' = [flashJob EXCEPT !.try = @ + 1] /\ UNCHANGED dev
    BY <1>5 DEF enter_dfu
  <2>2. "no bootloader" \in BadSays /\ flashJob.step \in {"enter_dfu", "connect"} BY <1>2 DEF BadSays
  <2>3. CASE Leave("no bootloader") BY <1>3, <2>2, <2>3, LeaveStep
  <2>4. CASE flashJob' = [flashJob EXCEPT !.try = @ + 1] /\ UNCHANGED dev
    BY <1>1, <2>2, <2>4, AgainStep, KeptItself
  <2> QED BY <2>1, <2>3, <2>4
<1> QED BY <1>4, <1>5

-----------------------------------------------------------------------------
(***************************************************************************)
(* The flasher: readout protection                                         *)
(***************************************************************************)

\* The first change begins.
LEMMA BeginStep ==
  ASSUME FlashInv, flashJob.step = "probe", NEW s \in {"erase", "write", "level"}, Step(s), UNCHANGED dev,
         s = "erase" => flashJob.op = "erase" \/ (flashJob.op = "flash" /\ flashJob.erase),
         s = "write" => flashJob.op = "flash" /\ ~flashJob.erase,
         s = "level" => flashJob.op \in Levels
  PROVE  FlashInv'
<1> DEFINE j == flashJob
<1>1. /\ FlashInvOf(dev, j, faults) /\ DevOk(dev) /\ CommandInv(dev, j) /\ j \in JobRecs
      /\ ImageInv(dev, j) /\ IntactInv(dev, j)
  BY FlashParts
<1>2. PICK i : i = flashJob' /\ i = Onward(j, s) BY DEF Step, Onward
<1>3. s \in JobSteps BY DEF JobSteps
<1>4. /\ i \in JobRecs /\ SameTask(i, j) /\ i.step = s /\ i.said = j.said /\ i.via = j.via
      /\ i.sent = j.sent /\ i.k = 0 /\ (i.began <=> (j.began \/ s \in {"erase", "write", "level"}))
  BY <1>1, <1>2, <1>3, OnwardIs
<1>5. i.began BY <1>4
<1>6. /\ i.op = j.op /\ i.yes = j.yes /\ i.len = j.len /\ i.erase = j.erase /\ i.verify = j.verify
  BY <1>4 DEF SameTask
<1>7. /\ dev.at = "boot" /\ j.said = "" /\ (j.op \in Levels => j.yes) /\ (j.op = "flash" => j.len > 0)
  BY <1>1 DEF CommandInv, InBoot
<1>8. CommandInv(dev, i) BY <1>1, <1>4, <1>5, <1>6, <1>7 DEF CommandInv, Levels
<1>9. i.said # "ok" /\ i.said = "" /\ i.said \notin OnSays /\ i.said \notin OffSays
  BY <1>4, <1>7 DEF OnSays, OffSays
<1>10. IntactInv(dev, i) BY <1>4, <1>5, <1>9 DEF IntactInv
<1>11. \A p \in PagesOf(dev) : dev.pages[p] \in {"old", "blank"} BY <1>1 DEF ImageInv
<1>12. j.len \in Nat /\ 0 \in PagesOf(dev) /\ dev.density \in Nat \ {0} /\ FamilyPages \in Nat \ {0}
  BY <1>1, FirstPage, FlashAssumption DEF JobRecs
<1>13. ImageInv(dev, i)
  <2>1. i.step # "verify" /\ i.said # "ok" BY <1>4, <1>9
  <2>2. dev.pages[0] \in {"old", "blank"} BY <1>11, <1>12
  <2>3. (i.op = "flash" => i.erase) /\ dev.pages[0] = "old" => \A p \in PagesOf(dev) : dev.pages[p] = "old"
    BY <1>1, <1>6 DEF ImageInv
  <2>a. PICK n \in Nat : n = dev.density /\ 0 < n BY <1>12
  <2>b. i.step = "write" => 0 < i.len /\ ~i.erase BY <1>4, <1>6, <1>7, <1>12
  <2>4. i.step = "write" => i.k < i.len /\ i.k < dev.density /\ ~i.erase BY <1>4, <2>a, <2>b
  <2> QED BY <1>11, <2>1, <2>2, <2>3, <2>4, Zenon DEF ImageInv
<1>14. EraseInv(dev, i, faults')
  <2>1. i.step # "bisect" /\ i.said # "ok" BY <1>4, <1>9
  <2>2. BlankBelow(dev, i.k) BY <1>4, <1>12 DEF BlankBelow
  <2>3. OnList(i.k)
    <3>1. 0 = 0 * EraseChunk /\ 0 \in 0 .. 0 BY FlashAssumption
    <3> QED BY <1>4, <3>1 DEF OnList
  <2>4. i.step = "erase" => i.k < Span(dev, i)
    <3>1. i.op = "flash" => i.len > 0 BY <1>6, <1>7
    <3>2. i.len \in Nat BY <1>6, <1>12
    <3> QED BY <1>4, <1>12, <3>1, <3>2 DEF Span
  <2> QED BY <2>1, <2>2, <2>3, <2>4, Zenon DEF EraseInv
<1>15. LevelInv(dev, i, faults') BY <1>4, <1>9 DEF LevelInv
<1> QED BY <1>1, <1>2, <1>4, <1>8, <1>10, <1>13, <1>14, <1>15 DEF FlashInv, FlashInvOf

\* What the probe found is what the chip has.
LEMMA ProbedStep ==
  ASSUME FlashInv, flashJob.step = "probe", NEW p \in BOOLEAN, p <=> dev.rdp, Probed(p)
  PROVE  FlashInv'
<1> DEFINE j == flashJob
<1>1. /\ DevOk(dev) /\ CommandInv(dev, j) /\ j \in JobRecs BY FlashParts
<1>2. ASSUME NEW s \in OnSays \cup OffSays \cup BadSays, s \in OnSays => p, s \in OffSays => ~p,
             FlashSays(s), dev' = Restore(dev)
      PROVE  FlashInv'
  BY <1>2, RefuseStep
<1>3. CASE j.op \in {"flash", "erase"}
  <2>1. CASE p
    <3>1. Refuse("protected") BY <1>3, <2>1 DEF Probed
    <3>2. "protected" \in OnSays \cup OffSays \cup BadSays /\ "protected" \notin OnSays /\ "protected" \notin OffSays
      BY DEF OnSays, OffSays, BadSays
    <3> QED BY <1>2, <3>1, <3>2 DEF Refuse
  <2>2. CASE ~p
    <3>1. PICK s : s = IF j.op = "erase" \/ j.erase THEN "erase" ELSE "write"
      OBVIOUS
    <3>2. Step(s) /\ UNCHANGED dev BY <1>3, <2>2, <3>1 DEF Probed
    <3>3. /\ s \in {"erase", "write", "level"} /\ s # "level"
          /\ s = "erase" => j.op = "erase" \/ (j.op = "flash" /\ j.erase)
          /\ s = "write" => j.op = "flash" /\ ~j.erase
      BY <1>3, <3>1
    <3> QED BY <3>2, <3>3, BeginStep
  <2> QED BY <2>1, <2>2
<1>4. PICK o : o = IF p THEN "on" ELSE "off"
  OBVIOUS
<1>5. o \in OnSays \cup OffSays \cup BadSays /\ (o \in OnSays => p) /\ (o \in OffSays => ~p)
  BY <1>4 DEF OnSays, OffSays, BadSays
<1>6. CASE j.op = "info"
  <2>1. dev' = Restore(dev) /\ FlashSays(o) BY <1>4, <1>6 DEF Probed, info
  <2> QED BY <1>2, <1>5, <2>1
<1>7. CASE j.op \in Levels /\ j.sent
  <2>1. PICK s : s = IF j.unsure THEN IF p THEN "unconfirmed on" ELSE "unconfirmed off"
                     ELSE IF p # (j.op = "protect") THEN "unchanged" ELSE o
    OBVIOUS
  <2>2. dev' = Restore(dev) /\ FlashSays(s) BY <1>4, <1>7, <2>1 DEF Probed, Levels
  <2>3. s \in OnSays \cup OffSays \cup BadSays /\ (s \in OnSays => p) /\ (s \in OffSays => ~p)
    <3>1. CASE s = "unchanged" BY <3>1 DEF OnSays, OffSays, BadSays
    <3>2. CASE s = "unconfirmed on" /\ p BY <3>2 DEF OnSays, OffSays, BadSays
    <3>3. CASE s = "unconfirmed off" /\ ~p BY <3>3 DEF OnSays, OffSays, BadSays
    <3>4. CASE s = o BY <1>5, <3>4
    <3> QED BY <2>1, <3>1, <3>2, <3>3, <3>4
  <2> QED BY <1>2, <2>2, <2>3
<1>8. CASE j.op \in Levels /\ ~j.sent
  <2>1. \/ dev' = Restore(dev) /\ FlashSays(o)
        \/ Step("level") /\ UNCHANGED dev
    BY <1>4, <1>8 DEF Probed, Levels
  <2>2. CASE dev' = Restore(dev) /\ FlashSays(o) BY <1>2, <1>5, <2>2
  <2>3. CASE Step("level") /\ UNCHANGED dev BY <1>8, <2>3, BeginStep
  <2> QED BY <2>1, <2>2, <2>3
<1>9. j.op \in {"flash", "erase"} \/ j.op = "info" \/ j.op \in Levels BY <1>1 DEF JobRecs, JobOps, Levels
<1> QED BY <1>3, <1>6, <1>7, <1>8, <1>9

LEMMA ReadoutStep ==
  ASSUME FlashInv, NEW a, readout_protected(a)
  PROVE  FlashInv'
<1>1. DevOk(dev) /\ CommandInv(dev, flashJob) BY FlashParts
<1>2. flashJob.step = "probe" /\ flashJob.via = "dfu" BY DEF readout_protected
<1>3. Leave("error") \/ Probed(dev.rdp) BY DEF readout_protected
<1>4. CASE Leave("error")
  <2>1. "error" \in BadSays BY DEF BadSays
  <2> QED BY <1>2, <1>4, <2>1, LeaveStep
<1>5. CASE Probed(dev.rdp)
  <2>1. dev.rdp \in BOOLEAN BY <1>1 DEF DevOk, DevRecs
  <2>2. PICK p \in BOOLEAN : p = dev.rdp BY <2>1
  <2>3. Probed(p) BY <1>5, <2>2
  <2> QED BY <1>2, <2>2, <2>3, ProbedStep
<1> QED BY <1>3, <1>4, <1>5

LEMMA ProbeStep ==
  ASSUME FlashInv, NEW a, NEW b, probe(a, b)
  PROVE  FlashInv'
<1> DEFINE j == flashJob
<1>1. /\ FlashInvOf(dev, j, faults) /\ DevOk(dev) /\ CommandInv(dev, j) /\ j \in JobRecs
      /\ LevelInv(dev, j, faults)
  BY FlashParts
<1>2. j.step = "probe" /\ j.via = "uart" /\ (a = "ok" \/ b = "ok") BY DEF probe
<1>3. PICK m : m = IF a = "ok" THEN b ELSE a
  OBVIOUS
<1>4. Meets(m) BY <1>3 DEF probe
<1>5. CASE answer(a) = "ok"
  <2>1. Probed(FALSE) BY <1>5 DEF probe
  <2>2. ~dev.rdp BY <1>5 DEF answer
  <2> QED BY <1>2, <2>1, <2>2, ProbedStep
<1>6. CASE answer(a) = "command" /\ b = "ok"
  <2>1. ~dev.rdp => m = "command" BY <1>3, <1>6 DEF answer
  <2>2. ~dev.rdp => "command" \notin faults /\ "command" \in faults' BY <1>4, <2>1 DEF Meets
  <2>3. CASE j.try = 2
    <3>1. Probed(TRUE) BY <1>6, <2>3 DEF probe
    <3>2. dev.rdp BY <1>1, <1>2, <2>2, <2>3 DEF LevelInv
    <3> QED BY <1>2, <3>1, <3>2, ProbedStep
  <2>4. CASE j.try # 2
    <3>1. flashJob' = [j EXCEPT !.try = 2] /\ dev' = dev BY <1>6, <2>4 DEF probe
    <3>2. PICK i : i = flashJob'
      OBVIOUS
    <3>3. /\ i \in JobRecs /\ SameTask(i, j) /\ i.step = j.step /\ i.said = j.said /\ i.via = j.via
          /\ i.began = j.began /\ i.sent = j.sent
      BY <1>1, <3>1, <3>2, AgainIs
    <3>4. i.op = j.op /\ i.yes = j.yes /\ i.len = j.len BY <3>3 DEF SameTask
    <3>5. /\ i.op \in Levels => i.yes
          /\ i.op = "flash" => i.len > 0
          /\ i.via = "dfu" => dev.board = "r1"
          /\ dev.at = "boot"
      BY <1>1, <1>2, <3>3, <3>4 DEF CommandInv, InBoot
    <3>6. /\ i.step \in {"id", "probe", "open", "enter_dfu", "connect"}
          /\ i.step \notin {"enter_dfu", "open"}
          /\ j.step \notin {"write", "verify", "done"}
      BY <1>2, <3>3
    <3>7. FlashInvOf(dev, i, faults') BY <1>1, <2>2, <3>3, <3>5, <3>6, KeptItself, Proceeds
    <3> QED BY <3>1, <3>2, <3>7 DEF FlashInv
  <2> QED BY <2>3, <2>4
<1>7. CASE answer(a) # "ok" /\ ~(answer(a) = "command" /\ b = "ok")
  <2>1. PICK s : s = IF j.unsure THEN "unconfirmed" ELSE "error"
    OBVIOUS
  <2>2. Refuse(s) BY <1>7, <2>1 DEF probe
  <2>3. s \in OnSays \cup OffSays \cup BadSays /\ s \notin OnSays /\ s \notin OffSays
    BY <2>1 DEF OnSays, OffSays, BadSays
  <2> QED BY <2>2, <2>3, RefuseStep DEF Refuse
<1> QED BY <1>5, <1>6, <1>7

\* The level changes, or does not: the board resets.
LEMMA LevelChange ==
  ASSUME FlashInv, flashJob.step = "level",
         NEW d, d = dev \/ d = Levelled(dev, flashJob.op = "protect"),
         NEW e, DevOk(e), Kept(d, e),
         NEW i \in JobRecs, SameTask(i, flashJob), i.via = flashJob.via, i.began = flashJob.began,
         i.step \in {"done", "connect"}, i.said \in {"", "error"}, i.step = "connect" => i.said = "",
         NEW gs
  PROVE  FlashInvOf(e, i, gs)
<1> DEFINE j == flashJob
<1>1. /\ DevOk(dev) /\ CommandInv(dev, j) /\ j \in JobRecs /\ ImageInv(dev, j) BY FlashParts
<1>2. PICK on \in BOOLEAN : on <=> j.op = "protect" BY Zenon
<1>3. j.op \in Levels /\ j.yes /\ j.began BY <1>1 DEF CommandInv, Changing
<1>4. (j.op = "protect") = on BY <1>2
<1>5. /\ d.board = dev.board /\ d.density = dev.density
      /\ d.fresh => dev.fresh \/ on
      /\ d.eeprom = "erased" => dev.eeprom = "erased" \/ ~on
      /\ \/ d.pages = dev.pages
         \/ \A p \in PagesOf(dev) : d.pages[p] = "blank"
  <2>1. CASE d = dev BY <2>1
  <2>2. CASE d = Levelled(dev, on) /\ on BY <1>1, <2>2, LevelledIs
  <2>3. CASE d = Levelled(dev, on) /\ ~on BY <1>1, <2>3, LevelledIs, ZenonT(30)
  <2> QED BY <1>4, <2>1, <2>2, <2>3
<1>6. /\ e.board = dev.board /\ e.density = dev.density /\ e.fresh = d.fresh /\ e.eeprom = d.eeprom
      /\ e.pages = d.pages /\ PagesOf(e) = PagesOf(dev)
  BY <1>5 DEF Kept, PagesOf
<1>7. i.op = j.op /\ i.yes = j.yes /\ i.len = j.len /\ i.erase = j.erase BY DEF SameTask
<1>8. CommandInv(e, i)
  <2>1. e.fresh => i.op = "protect" BY <1>1, <1>2, <1>5, <1>6, <1>7 DEF CommandInv
  <2>2. e.eeprom = "erased" => i.op = "unprotect" /\ i.yes
    BY <1>1, <1>2, <1>3, <1>5, <1>6, <1>7 DEF CommandInv, Levels
  <2>3. i.via = "dfu" => e.board = "r1" BY <1>1, <1>6 DEF CommandInv
  <2>4. i.step \notin InBoot /\ i.step \notin Changing /\ i.step \notin {"enter_dfu", "open"}
    BY DEF InBoot, Changing
  <2>5. i.op # "flash" BY <1>3, <1>7 DEF Levels
  <2> QED BY <1>3, <1>7, <2>1, <2>2, <2>3, <2>4, <2>5 DEF CommandInv
<1>9. IntactInv(e, i) BY <1>3 DEF IntactInv
<1>10. i.op # "flash" /\ i.op # "erase" /\ i.said # "ok" /\ i.said \notin OnSays /\ i.said \notin OffSays
  BY <1>3, <1>7 DEF Levels, OnSays, OffSays
<1>11. ImageInv(e, i)
  <2>1. j.op # "flash" BY <1>3 DEF Levels
  <2>2. \A p \in PagesOf(dev) : dev.pages[p] \in {"old", "blank"} BY <1>1, <2>1 DEF ImageInv
  <2>3. \A p \in PagesOf(e) : e.pages[p] \in {"old", "blank"} BY <1>5, <1>6, <2>2
  <2>4. e.pages[0] = "old" => \A p \in PagesOf(e) : e.pages[p] = "old"
    <3>1. CASE d.pages = dev.pages BY <1>1, <1>6, <2>1, <3>1, ZenonT(30) DEF ImageInv
    <3>2. CASE \A p \in PagesOf(dev) : d.pages[p] = "blank" BY <1>1, <1>6, <3>2, FirstPage
    <3> QED BY <1>5, <3>1, <3>2
  <2>5. i.step # "write" /\ i.step # "verify"
    OBVIOUS
  <2> QED BY <1>10, <2>3, <2>4, <2>5, Zenon DEF ImageInv
<1>12. EraseInv(e, i, gs) BY <1>10 DEF EraseInv
<1>13. LevelInv(e, i, gs) BY <1>10 DEF LevelInv
<1> QED BY <1>8, <1>9, <1>11, <1>12, <1>13 DEF FlashInvOf

LEMMA SetLevelStep ==
  ASSUME FlashInv, NEW a, NEW b, set_level(a, b)
  PROVE  FlashInv'
<1> DEFINE j == flashJob
<1>1. /\ DevOk(dev) /\ CommandInv(dev, j) /\ j \in JobRecs BY FlashParts
<1>2. j.step = "level" BY DEF set_level
<1>3. j.said = "" BY <1>1, <1>2 DEF CommandInv
<1>4. PICK d : d = IF a \in {"ok", "late"} /\ b \in {"ok", "late", "lost"}
                   THEN Levelled(dev, j.op = "protect") ELSE dev
  OBVIOUS
<1>5. d = dev \/ d = Levelled(dev, j.op = "protect") BY <1>4
<1>6. DevOk(d)
  <2>1. PICK on \in BOOLEAN : on <=> j.op = "protect" BY Zenon
  <2>2. (j.op = "protect") = on BY <2>1
  <2> QED BY <1>1, <1>5, <2>2, LevelledIs
<1>7. \/ dev' = Booted(d) /\ FlashSays("error")
      \/ /\ dev' = d
         /\ flashJob' = [j EXCEPT !.step = "connect", !.try = 1, !.sent = TRUE, !.unsure = (b # "ok")]
  BY <1>4 DEF set_level
<1>8. CASE dev' = Booted(d) /\ FlashSays("error")
  <2>1. PICK e : e = Booted(d)
    OBVIOUS
  <2>2. DevOk(e) /\ Kept(d, e) BY <1>6, <2>1, BootedIs
  <2>3. PICK i : i = flashJob' /\ i = Saying(j, "error") BY <1>8 DEF FlashSays, Saying
  <2>4. "error" \in {"", "ok"} \cup OnSays \cup OffSays \cup BadSays BY DEF BadSays
  <2>5. i \in JobRecs /\ SameTask(i, j) /\ i.via = j.via /\ i.began = j.began /\ i.step = "done" /\ i.said = "error"
    <3>1. PICK s \in {"", "ok"} \cup OnSays \cup OffSays \cup BadSays : s = "error" BY <2>4
    <3>2. i = Saying(j, s) BY <2>3, <3>1
    <3> QED BY <1>1, <3>1, <3>2, SayingIs
  <2>6. FlashInvOf(e, i, faults') BY <1>2, <1>5, <2>2, <2>5, LevelChange
  <2> QED BY <1>8, <2>1, <2>3, <2>6 DEF FlashInv
<1>9. CASE /\ dev' = d
           /\ flashJob' = [j EXCEPT !.step = "connect", !.try = 1, !.sent = TRUE, !.unsure = (b # "ok")]
  <2>1. PICK u \in BOOLEAN : u <=> b # "ok" BY Zenon
  <2>2. PICK i : i = [j EXCEPT !.step = "connect", !.try = 1, !.sent = TRUE, !.unsure = u]
    OBVIOUS
  <2>3. flashJob' = i BY <1>9, <2>1, <2>2
  <2>4. i \in JobRecs BY <1>1, <2>2 DEF JobRecs, JobSteps
  <2>5. i.via = j.via /\ i.began = j.began /\ i.step = "connect" /\ i.said = j.said
    BY <1>1, <2>2 DEF JobRecs
  <2>6. SameTask(i, j) BY <1>1, <2>2 DEF JobRecs, SameTask
  <2>7. FlashInvOf(d, i, faults') BY <1>2, <1>3, <1>5, <1>6, <2>4, <2>5, <2>6, KeptItself, LevelChange
  <2> QED BY <1>9, <2>3, <2>7 DEF FlashInv
<1> QED BY <1>7, <1>8, <1>9

-----------------------------------------------------------------------------
(***************************************************************************)
(* The flasher: erasing                                                    *)
(***************************************************************************)

\* A board of which pages were erased, from the first on.
Blanked(d, e) ==
  /\ e.board = d.board /\ e.density = d.density /\ e.eeprom = d.eeprom /\ e.rdp = d.rdp
  /\ e.fresh = d.fresh /\ e.wrp = d.wrp
  /\ \A p \in PagesOf(d) : e.pages[p] \in {"blank", d.pages[p]}
  /\ e.pages[0] = "old" => \A p \in PagesOf(d) : e.pages[p] = d.pages[p]

LEMMA BlankedItself == ASSUME NEW d PROVE Blanked(d, d)
  BY DEF Blanked

\* What runs after it does not matter.
LEMMA BlankedBooted ==
  ASSUME NEW d, NEW e, DevOk(e), Blanked(d, e)
  PROVE  DevOk(Booted(e)) /\ Blanked(d, Booted(e)) /\ Booted(e).pages = e.pages
<1>1. PICK f : f = Booted(e)
  OBVIOUS
<1>2. DevOk(f) /\ Kept(e, f) BY <1>1, BootedIs
<1>3. Blanked(d, f) BY <1>2 DEF Blanked, Kept
<1> QED BY <1>1, <1>2, <1>3 DEF Kept

\* A list that begins where the blank pages end.
LEMMA ErasedFrom ==
  ASSUME NEW d, DevOk(d), NEW k \in Nat, BlankBelow(d, k), NEW ps,
         k = 0 /\ (\E p \in PagesOf(d) : p \in ps) => 0 \in ps
  PROVE  DevOk(Erased(d, ps)) /\ Blanked(d, Erased(d, ps)) /\ Erased(d, ps).at = d.at
<1>1. PICK e : e = Erased(d, ps)
  OBVIOUS
<1>2. /\ DevOk(e) /\ e.at = d.at /\ e.board = d.board /\ e.density = d.density /\ e.eeprom = d.eeprom
      /\ e.rdp = d.rdp /\ e.fresh = d.fresh /\ e.wrp = d.wrp
  BY <1>1, ErasedIs
<1>3. \A p \in PagesOf(d) : e.pages[p] = IF p \in ps THEN "blank" ELSE d.pages[p] BY <1>1, ErasedIs
<1>4. 0 \in PagesOf(d) BY FirstPage
<1>5. \A p \in PagesOf(d) : e.pages[p] \in {"blank", d.pages[p]} BY <1>3
<1>6. e.pages[0] = "old" => \A p \in PagesOf(d) : e.pages[p] = d.pages[p]
  <2>1. CASE k = 0 BY <1>3, <1>4, <2>1
  <2>2. CASE k > 0
    <3>1. d.pages[0] = "blank" BY <2>2 DEF BlankBelow
    <3> QED BY <1>3, <1>4, <3>1
  <2> QED BY <2>1, <2>2
<1>7. Blanked(d, e) BY <1>2, <1>5, <1>6 DEF Blanked
<1> QED BY <1>1, <1>2, <1>7

\* The list k to n - 1, in the flash.
LEMMA ErasedTo ==
  ASSUME NEW d, DevOk(d), NEW k \in Nat, NEW n \in Nat, BlankBelow(d, k), n <= d.density
  PROVE  BlankBelow(Erased(d, k .. n - 1), n)
<1>1. PICK e : e = Erased(d, k .. n - 1)
  OBVIOUS
<1>2. e.density = d.density BY <1>1, ErasedIs
<1>3. \A p \in PagesOf(d) : e.pages[p] = IF p \in k .. n - 1 THEN "blank" ELSE d.pages[p] BY <1>1, ErasedIs
<1>4. d.density \in Nat BY FirstPage
<1>5. ASSUME NEW p \in 0 .. n - 1
      PROVE  e.pages[p] = "blank"
  <2>1. p \in PagesOf(d) BY <1>4 DEF PagesOf
  <2>2. CASE p \in k .. n - 1 BY <1>3, <2>1, <2>2
  <2>3. CASE p \notin k .. n - 1
    <3>1. p \in 0 .. k - 1 BY <2>3
    <3>2. d.pages[p] = "blank" BY <3>1 DEF BlankBelow
    <3> QED BY <1>3, <2>1, <2>3, <3>2
  <2> QED BY <2>2, <2>3
<1> QED BY <1>1, <1>2, <1>5 DEF BlankBelow

\* One erase request of the pages k to n - 1.
LEMMA EraseIs ==
  ASSUME FlashInv, NEW k \in Nat, NEW n \in Nat, k < n, BlankBelow(dev, k), NEW got,
         got = "ok" => inRange(k .. n - 1), NEW e, e = Erase(k .. n - 1, got)
  PROVE  /\ DevOk(e) /\ Blanked(dev, e) /\ e.at = dev.at
         /\ got = "ok" => BlankBelow(e, n)
         /\ got \notin {"ok", "late"} => e = dev
<1>1. DevOk(dev) BY FlashParts
<1>2. CASE got \in {"ok", "late"}
  <2>1. e = Erased(dev, k .. n - 1) BY <1>2 DEF Erase
  <2>2. k = 0 => 0 \in k .. n - 1
    OBVIOUS
  <2>3. DevOk(e) /\ Blanked(dev, e) /\ e.at = dev.at BY <1>1, <2>1, <2>2, ErasedFrom
  <2>4. ASSUME got = "ok"
        PROVE  BlankBelow(e, n)
    <3>1. n - 1 \in Pages BY <2>4 DEF inRange
    <3>2. dev.density \in Nat BY <1>1, FirstPage
    <3>3. n <= dev.density BY <3>1, <3>2 DEF Pages
    <3> QED BY <1>1, <2>1, <3>3, ErasedTo
  <2> QED BY <1>2, <2>3, <2>4
<1>3. CASE got \notin {"ok", "late"} BY <1>1, <1>3, BlankedItself DEF Erase
<1> QED BY <1>2, <1>3

LEMMA NoneBelow == 1 .. 0 = {}
  OBVIOUS

\* A step of an erase, to another, to the write or to the end.
LEMMA EraseGoes ==
  ASSUME FlashInv, flashJob.step \in {"erase", "bisect"},
         NEW e, DevOk(e), Blanked(dev, e), NEW gs,
         NEW i \in JobRecs, SameTask(i, flashJob), i.via = flashJob.via, i.began = flashJob.began,
         i.sent = flashJob.sent, i.step \in {"erase", "bisect", "write", "done"},
         i.step # "done" => i.said = "" /\ e.at = "boot",
         i.step = "erase" => flashJob.step = "erase",
         i.step = "bisect" => i.op = "erase" /\ i.via = "uart",
         i.step = "write" => i.op = "flash" /\ i.k = 0 /\ e.pages[0] = "blank",
         i.step = "done" => i.said \in {"ok", "error", "partial"} /\ (i.said = "ok" => i.op = "erase"),
         EraseInv(e, i, gs)
  PROVE  FlashInvOf(e, i, gs)
<1> DEFINE j == flashJob
<1>1. /\ DevOk(dev) /\ CommandInv(dev, j) /\ j \in JobRecs /\ ImageInv(dev, j) BY FlashParts
<1>2. /\ i.op = j.op /\ i.yes = j.yes /\ i.len = j.len /\ i.erase = j.erase /\ i.verify = j.verify
  BY DEF SameTask
<1>3. /\ e.board = dev.board /\ e.density = dev.density /\ e.eeprom = dev.eeprom /\ e.fresh = dev.fresh
      /\ PagesOf(e) = PagesOf(dev)
  BY DEF Blanked, PagesOf
<1>4. j.op \in {"flash", "erase"} /\ j.began BY <1>1 DEF CommandInv, Changing
<1>5. (j.op = "flash" => j.erase /\ j.len > 0) /\ j.said = "" BY <1>1 DEF CommandInv
<1>6. CommandInv(e, i)
  <2>1. (i.via = "dfu" => e.board = "r1") /\ (e.fresh => i.op = "protect")
        /\ (e.eeprom = "erased" => i.op = "unprotect" /\ i.yes)
        /\ (i.sent => i.op \in Levels /\ i.began)
    BY <1>1, <1>2, <1>3 DEF CommandInv
  <2>2. i.step \notin {"enter_dfu", "open"} /\ i.step # "level"
    OBVIOUS
  <2>3. i.op \notin Levels BY <1>2, <1>4 DEF Levels
  <2>4. i.step = "erase" => i.op \in {"flash", "erase"} /\ (i.op = "flash" => i.erase) BY <1>2, <1>4, <1>5
  <2>5. i.step \in InBoot => e.at = "boot" BY DEF InBoot
  <2>6. i.step \in {"write", "verify"} => i.op = "flash"
    OBVIOUS
  <2>7. i.op = "flash" => i.len > 0 BY <1>2, <1>5
  <2> QED BY <1>4, <2>1, <2>2, <2>3, <2>4, <2>5, <2>6, <2>7 DEF CommandInv
<1>7. IntactInv(e, i) BY <1>4 DEF IntactInv
<1>8. ImageInv(e, i)
  <2>1. \A p \in PagesOf(dev) : dev.pages[p] \in {"old", "blank"} BY <1>1 DEF ImageInv
  <2>2. \A p \in PagesOf(e) : e.pages[p] \in {"old", "blank"} BY <1>3, <2>1 DEF Blanked
  <2>3. 0 \in PagesOf(dev) BY <1>1, FirstPage
  <2>4. (i.op = "flash" => i.erase) /\ e.pages[0] = "old" => \A p \in PagesOf(e) : e.pages[p] = "old"
    <3>1. SUFFICES ASSUME i.op = "flash" => i.erase, e.pages[0] = "old"
                   PROVE  \A p \in PagesOf(e) : e.pages[p] = "old"
      OBVIOUS
    <3>2. \A p \in PagesOf(dev) : e.pages[p] = dev.pages[p] BY <3>1 DEF Blanked
    <3>3. dev.pages[0] = "old" BY <2>3, <3>1, <3>2
    <3>4. \A p \in PagesOf(dev) : dev.pages[p] = "old" BY <1>1, <1>2, <3>1, <3>3 DEF ImageInv
    <3> QED BY <1>3, <3>2, <3>4
  <2>5. e.pages[0] \in {"old", "blank"} BY <1>3, <2>2, <2>3
  <2>6. i.step # "verify" /\ ~(i.op = "flash" /\ i.said = "ok") BY <1>2, <1>5
  <2>a. 0 < e.density BY FirstAbove
  <2>7. i.step = "write" => i.k < i.len /\ i.k < e.density /\ (i.erase => e.pages[0] = "blank" /\ \A p \in 1 .. i.k : e.pages[p] \in {"new", "bad"})
    <3>1. SUFFICES ASSUME i.step = "write"
                   PROVE  i.k < i.len /\ i.k < e.density /\ e.pages[0] = "blank" /\ \A p \in 1 .. i.k : e.pages[p] \in {"new", "bad"}
      OBVIOUS
    <3>2. i.k = 0 /\ e.pages[0] = "blank" /\ i.op = "flash" BY <3>1
    <3>3. 0 < i.len BY <1>2, <1>5, <3>2
    <3>4. i.k = 0 BY <3>2
    <3>5. 1 .. i.k = {} BY <3>4, NoneBelow
    <3>6. i.k < e.density BY <2>a, <3>4
    <3> QED BY <3>2, <3>3, <3>4, <3>5, <3>6
  <2> QED BY <2>2, <2>4, <2>5, <2>6, <2>7, Zenon DEF ImageInv
<1>9. LevelInv(e, i, gs) BY DEF LevelInv, OnSays, OffSays
<1> QED BY <1>6, <1>7, <1>8, <1>9 DEF FlashInvOf

\* A step that only moves the command on: its bounds, its step and what it said.
Moved(i, j) ==
  /\ SameTask(i, j) /\ i.via = j.via /\ i.began = j.began /\ i.sent = j.sent

LEMMA SayingMoved ==
  ASSUME NEW j \in JobRecs, NEW s \in {"ok"} \cup BadSays
  PROVE  /\ Saying(j, s) \in JobRecs /\ Moved(Saying(j, s), j) /\ Saying(j, s).step = "done"
         /\ Saying(j, s).said = s
<1>1. s \in {"", "ok"} \cup OnSays \cup OffSays \cup BadSays
  OBVIOUS
<1> QED BY <1>1, SayingIs DEF Moved

\* The next page or list.
LEMMA AtPage ==
  ASSUME NEW j \in JobRecs, NEW n \in Nat, NEW i, i = [j EXCEPT !.k = n]
  PROVE  i \in JobRecs /\ Moved(i, j) /\ i.step = j.step /\ i.said = j.said /\ i.k = n
<1>1. i \in JobRecs BY DEF JobRecs
<1>2. /\ i.step = j.step /\ i.said = j.said /\ i.via = j.via
      /\ i.began = j.began /\ i.sent = j.sent /\ i.k = n
  BY DEF JobRecs
<1>3. SameTask(i, j) BY DEF JobRecs, SameTask
<1> QED BY <1>1, <1>2, <1>3 DEF Moved

\* An erase that failed.
LEMMA EraseFails ==
  ASSUME FlashInv, flashJob.step \in {"erase", "bisect"}, NEW e, DevOk(e), Blanked(dev, e), dev' = e,
         NEW s \in {"error", "partial"}, NEW i, i = flashJob', i \in JobRecs, Moved(i, flashJob),
         i.step = "done", i.said = s
  PROVE  FlashInv'
<1>1. i.said # "ok" /\ i.said \in {"ok", "error", "partial"}
  OBVIOUS
<1>2. EraseInv(e, i, faults') BY <1>1 DEF EraseInv
<1>3. SameTask(i, flashJob) /\ i.via = flashJob.via /\ i.began = flashJob.began /\ i.sent = flashJob.sent
  BY DEF Moved
<1>4. i.step \in {"erase", "bisect", "write", "done"}
  OBVIOUS
<1>5. FlashInvOf(e, i, faults') BY <1>1, <1>2, <1>3, <1>4, EraseGoes
<1> QED BY <1>5 DEF FlashInv

\* The pages of an image or of a layout.
LEMMA ErasePagesStep ==
  ASSUME FlashInv, flashJob.step = "erase", ~(flashJob.op = "erase" /\ flashJob.via = "uart"),
         NEW end \in Nat, flashJob.k < end, end <= Span(dev, flashJob), NEW a,
         ErasePages(end, Span(dev, flashJob), a)
  PROVE  FlashInv'
<1> DEFINE j == flashJob
<1>1. /\ DevOk(dev) /\ CommandInv(dev, j) /\ j \in JobRecs /\ EraseInv(dev, j, faults) BY FlashParts
<1>2. j.k \in Nat /\ j.len \in Nat /\ j.op \in JobOps /\ j.via \in {"uart", "dfu"} BY <1>1 DEF JobRecs
<1>3. BlankBelow(dev, j.k) /\ dev.at = "boot" /\ j.said = "" BY <1>1 DEF EraseInv, CommandInv, InBoot
<1>4. dev.density \in Nat BY <1>1, FirstPage
<1>5. PICK n \in Nat : n = Span(dev, j) BY <1>2, <1>4, FlashAssumption DEF Span
<1>6. PICK got : got = IF a # "command" /\ ~inRange(j.k .. end - 1) THEN "payload" ELSE a
  OBVIOUS
<1>7. PICK e : e = Erase(j.k .. end - 1, got)
  OBVIOUS
<1>8. /\ dev' = e
      /\ IF got # "ok" THEN FlashSays("error")
         ELSE IF end < n THEN flashJob' = [j EXCEPT !.k = end]
         ELSE IF j.op = "flash" THEN Step("write") ELSE FlashSays("ok")
  BY <1>5, <1>6, <1>7 DEF ErasePages
<1>9. got = "ok" => inRange(j.k .. end - 1) BY <1>6
<1>10. /\ DevOk(e) /\ Blanked(dev, e) /\ e.at = "boot"
       /\ got = "ok" => BlankBelow(e, end)
  <2>1. PICK k \in Nat : k = j.k BY <1>2
  <2>2. k < end /\ BlankBelow(dev, k) /\ (got = "ok" => inRange(k .. end - 1)) /\ e = Erase(k .. end - 1, got)
    BY <1>3, <1>7, <1>9, <2>1
  <2>3. DevOk(e) /\ Blanked(dev, e) /\ e.at = dev.at /\ (got = "ok" => BlankBelow(e, end)) BY <2>2, EraseIs
  <2> QED BY <1>3, <2>3
<1>11. CASE got # "ok"
  <2>1. PICK s \in {"error", "partial"} : s = "error"
    OBVIOUS
  <2>2. s \in {"ok"} \cup BadSays BY <2>1 DEF BadSays
  <2>3. PICK i : i = flashJob' /\ i = Saying(j, s) BY <1>8, <1>11, <2>1 DEF FlashSays, Saying
  <2>4. i \in JobRecs /\ Moved(i, j) /\ i.step = "done" /\ i.said = s BY <1>1, <2>2, <2>3, SayingMoved
  <2> QED BY <1>8, <1>10, <2>3, <2>4, EraseFails
<1>12. CASE got = "ok" /\ end < n
  <2>1. PICK i : i = flashJob' /\ i = [j EXCEPT !.k = end] BY <1>8, <1>12
  <2>2. i \in JobRecs /\ Moved(i, j) /\ i.step = "erase" /\ i.said = "" /\ i.k = end
    <3>1. i = [j EXCEPT !.k = end] /\ j \in JobRecs BY <1>1, <2>1
    <3>2. i \in JobRecs /\ Moved(i, j) /\ i.step = j.step /\ i.said = j.said /\ i.k = end BY <3>1, AtPage
    <3> QED BY <1>3, <3>2
  <2>3. SameTask(i, j) /\ i.via = j.via /\ i.began = j.began /\ i.sent = j.sent BY <2>2 DEF Moved
  <2>4. i.op = j.op /\ i.len = j.len /\ e.density = dev.density BY <1>10, <2>3 DEF SameTask, Blanked
  <2>5. Span(e, i) = n BY <1>5, <2>3, <2>4 DEF Span
  <2>6. EraseInv(e, i, faults') BY <1>10, <1>12, <2>2, <2>3, <2>4, <2>5 DEF EraseInv
  <2>7. i.step \in {"erase", "bisect", "write", "done"} BY <2>2
  <2>8. FlashInvOf(e, i, faults') BY <1>10, <2>2, <2>3, <2>6, <2>7, EraseGoes
  <2> QED BY <1>8, <2>1, <2>8 DEF FlashInv
<1>13. CASE got = "ok" /\ ~(end < n) /\ j.op = "flash"
  <2>1. PICK i : i = flashJob' /\ i = Onward(j, "write") BY <1>8, <1>13 DEF Step, Onward
  <2>2. "write" \in JobSteps BY DEF JobSteps
  <2>3. /\ i \in JobRecs /\ SameTask(i, j) /\ i.step = "write" /\ i.k = 0 /\ i.said = "" /\ i.via = j.via
        /\ i.sent = j.sent /\ i.began
    <3>1. PICK s \in JobSteps : s = "write" BY <2>2
    <3>2. i = Onward(j, s) /\ j \in JobRecs BY <1>1, <2>1, <3>1
    <3>3. /\ i \in JobRecs /\ SameTask(i, j) /\ i.step = s /\ i.k = 0 /\ i.said = j.said /\ i.via = j.via
          /\ i.sent = j.sent /\ (i.began <=> (j.began \/ s \in {"erase", "write", "level"}))
      BY <3>2, OnwardIs
    <3> QED BY <1>3, <3>1, <3>3
  <2>4. i.began \in BOOLEAN /\ j.began \in BOOLEAN /\ j.began
    BY <1>1, <2>3 DEF JobRecs, CommandInv, Changing
  <2>5. i.began = j.began BY <2>3, <2>4
  <2>6. e.pages[0] = "blank" BY <1>2, <1>10, <1>13 DEF BlankBelow
  <2>7. EraseInv(e, i, faults') BY <2>3 DEF EraseInv
  <2>8. i.op = "flash" BY <1>13, <2>3 DEF SameTask
  <2>9. i.step \in {"erase", "bisect", "write", "done"} BY <2>3
  <2>10. FlashInvOf(e, i, faults') BY <1>10, <2>3, <2>5, <2>6, <2>7, <2>8, <2>9, EraseGoes
  <2> QED BY <1>8, <2>1, <2>10 DEF FlashInv
<1>14. CASE got = "ok" /\ ~(end < n) /\ j.op # "flash"
  <2>1. PICK s \in {"ok"} \cup BadSays : s = "ok"
    OBVIOUS
  <2>2. PICK i : i = flashJob' /\ i = Saying(j, s) BY <1>8, <1>14, <2>1 DEF FlashSays, Saying
  <2>3. i \in JobRecs /\ Moved(i, j) /\ i.step = "done" /\ i.said = "ok" BY <1>1, <2>1, <2>2, SayingMoved
  <2>4. SameTask(i, j) /\ i.via = j.via /\ i.began = j.began /\ i.sent = j.sent BY <2>3 DEF Moved
  <2>5. j.op = "erase" /\ j.via = "dfu" BY <1>1, <1>2, <1>14 DEF CommandInv
  <2>6. end = dev.density BY <1>4, <1>5, <1>14, <2>5 DEF Span
  <2>7. BlankBelow(e, e.density) BY <1>10, <1>14, <2>6 DEF Blanked
  <2>8. EraseInv(e, i, faults') BY <2>3, <2>7 DEF EraseInv
  <2>9. i.op = "erase" /\ i.step \in {"erase", "bisect", "write", "done"} /\ i.said \in {"ok", "error", "partial"}
    BY <2>3, <2>4, <2>5 DEF SameTask
  <2>10. FlashInvOf(e, i, faults') BY <1>10, <2>3, <2>4, <2>8, <2>9, EraseGoes
  <2> QED BY <1>8, <2>2, <2>10 DEF FlashInv
<1> QED BY <1>11, <1>12, <1>13, <1>14

LEMMA ErasePagesSteps ==
  ASSUME FlashInv, NEW a, erase_pages(a) \/ erase_span(a)
  PROVE  FlashInv'
<1> DEFINE j == flashJob
<1>1. /\ DevOk(dev) /\ CommandInv(dev, j) /\ j \in JobRecs /\ EraseInv(dev, j, faults) BY FlashParts
<1>2. j.k \in Nat /\ j.len \in Nat /\ j.via \in {"uart", "dfu"} BY <1>1 DEF JobRecs
<1>3. j.step = "erase" BY DEF erase_pages, erase_span
<1>4. j.k < Span(dev, j) /\ j.op \in {"flash", "erase"} BY <1>1, <1>3 DEF EraseInv, CommandInv
<1>5. CASE erase_pages(a)
  <2>1. j.op = "flash" /\ Span(dev, j) = j.len BY <1>5 DEF erase_pages, Span
  <2>2. PICK end : end = chunkEnd(j.len)
    OBVIOUS
  <2>3. end \in Nat /\ j.k < end /\ end <= j.len BY <1>2, <1>4, <2>1, <2>2, FlashAssumption DEF chunkEnd
  <2>4. ErasePages(end, Span(dev, j), a) BY <1>5, <2>1, <2>2 DEF erase_pages
  <2> QED BY <1>3, <2>1, <2>3, <2>4, ErasePagesStep
<1>6. CASE erase_span(a)
  <2>1. j.via = "dfu" BY <1>6 DEF erase_span
  <2>2. Span(dev, j) = IF j.op = "erase" THEN dev.density ELSE j.len BY <1>4, <2>1 DEF Span
  <2>3. dev.density \in Nat BY <1>1, FirstPage
  <2>4. PICK end : end = j.k + 1
    OBVIOUS
  <2>5. PICK n \in Nat : n = Span(dev, j) BY <1>2, <2>2, <2>3
  <2>6. end \in Nat /\ j.k < end /\ end <= n BY <1>2, <1>4, <2>4, <2>5
  <2>7. ErasePages(end, Span(dev, j), a) BY <1>6, <2>2, <2>4 DEF erase_span
  <2> QED BY <1>3, <2>1, <2>5, <2>6, <2>7, ErasePagesStep
<1> QED BY <1>5, <1>6

\* The lists of an erase of the whole device.
LEMMA ListEndIs ==
  ASSUME NEW k \in Nat, k < FamilyPages
  PROVE  ListEnd(k) \in Nat /\ k < ListEnd(k) /\ ListEnd(k) <= FamilyPages /\ ListEnd(k) <= k + EraseChunk
  BY FlashAssumption DEF ListEnd

LEMMA NextList ==
  ASSUME NEW k \in Nat, OnList(k)
  PROVE  OnList(k + EraseChunk)
<1>1. PICK q \in 0 .. k : k = q * EraseChunk BY DEF OnList
<1>2. EraseChunk \in Nat \ {0} BY FlashAssumption
<1>3. q + 1 \in 0 .. k + EraseChunk BY <1>2
<1>4. k + EraseChunk = (q + 1) * EraseChunk BY <1>1, <1>2
<1> QED BY <1>3, <1>4 DEF OnList

\* A fault met is remembered, and met once.
LEMMA MeetsIs ==
  ASSUME NEW a, Meets(a)
  PROVE  /\ \A f \in faults : f \in faults'
         /\ a # "ok" => a \notin faults /\ a \in faults'
  BY DEF Meets

LEMMA EraseChipStep ==
  ASSUME FlashInv, NEW a, erase_chip(a)
  PROVE  FlashInv'
<1> DEFINE j == flashJob
<1>1. /\ DevOk(dev) /\ CommandInv(dev, j) /\ j \in JobRecs /\ EraseInv(dev, j, faults) BY FlashParts
<1>2. j.step = "erase" /\ j.op = "erase" /\ j.via = "uart" /\ Meets(a) BY DEF erase_chip
<1>3. PICK k \in Nat : k = j.k BY <1>1 DEF JobRecs
<1>4. BlankBelow(dev, k) /\ k < FamilyPages /\ OnList(k) BY <1>1, <1>2, <1>3 DEF EraseInv, Span
<1>5. dev.at = "boot" /\ j.said = "" BY <1>1, <1>2 DEF CommandInv, InBoot
<1>6. PICK end : end = ListEnd(k)
  OBVIOUS
<1>7. end \in Nat /\ k < end /\ end <= FamilyPages /\ FamilyPages \in Nat /\ EraseChunk \in Nat
  BY <1>4, <1>6, ListEndIs, FlashAssumption
<1>8. chunkEnd(FamilyPages) = end BY <1>3, <1>6 DEF chunkEnd, ListEnd
<1>9. PICK got : got = IF a # "command" /\ ~inRange(k .. end - 1) THEN "payload" ELSE a
  OBVIOUS
<1>10. PICK e : e = Erase(k .. end - 1, got)
  OBVIOUS
<1>11. /\ dev' = IF got = "ok" /\ end = FamilyPages THEN Booted(e) ELSE e
       /\ IF got = "ok" THEN IF end < FamilyPages THEN flashJob' = [j EXCEPT !.k = end]
                             ELSE flashJob' = [j EXCEPT !.step = "done", !.said = "ok", !.k = end]
          ELSE IF got = "payload" /\ k > 0
          THEN flashJob' = [j EXCEPT !.step = "bisect", !.good = 0, !.bad = end - k]
          ELSE FlashSays("error")
  BY <1>3, <1>8, <1>9, <1>10 DEF erase_chip
<1>12. (got = "ok" => inRange(k .. end - 1)) /\ (inRange(k .. end - 1) => got = a) BY <1>9
<1>13. /\ DevOk(e) /\ Blanked(dev, e) /\ e.at = dev.at
       /\ got = "ok" => BlankBelow(e, end)
       /\ got \notin {"ok", "late"} => e = dev
  BY <1>4, <1>7, <1>10, <1>12, EraseIs
<1>14. dev.density \in Nat /\ dev.density <= FamilyPages BY <1>1, FirstPage
<1>15. CASE got = "ok" /\ end < FamilyPages
  <2>1. PICK i : i = flashJob' /\ i = [j EXCEPT !.k = end] BY <1>11, <1>15
  <2>a. i = [j EXCEPT !.k = end] /\ j \in JobRecs BY <1>1, <2>1
  <2>2. i \in JobRecs /\ Moved(i, j) /\ i.step = j.step /\ i.said = j.said /\ i.k = end
    BY <1>7, <2>a, AtPage
  <2>3. SameTask(i, j) /\ i.via = j.via /\ i.began = j.began /\ i.sent = j.sent BY <2>2 DEF Moved
  <2>4. i.op = "erase" BY <1>2, <2>3 DEF SameTask
  <2>5. Span(e, i) = FamilyPages BY <1>2, <2>3, <2>4 DEF Span
  <2>6. end = k + EraseChunk BY <1>6, <1>15 DEF ListEnd
  <2>7. OnList(end) BY <1>4, <2>6, NextList
  <2>8. i.step = "erase" /\ i.said = "" /\ e.at = "boot" /\ dev' = e
    <3>1. end # FamilyPages BY <1>7, <1>15
    <3>2. dev' = e BY <1>11, <3>1
    <3> QED BY <1>2, <1>5, <1>13, <2>2, <3>2
  <2>9. EraseInv(e, i, faults') BY <1>13, <1>15, <2>2, <2>5, <2>7, <2>8 DEF EraseInv
  <2>10. i.step \in {"erase", "bisect", "write", "done"} BY <2>8
  <2>11. FlashInvOf(e, i, faults') BY <1>2, <1>13, <2>2, <2>3, <2>8, <2>9, <2>10, EraseGoes
  <2> QED BY <2>1, <2>8, <2>11 DEF FlashInv
<1>16. CASE got = "ok" /\ ~(end < FamilyPages)
  <2>1. PICK i : i = flashJob' /\ i = [j EXCEPT !.step = "done", !.said = "ok", !.k = end] BY <1>11, <1>16
  <2>2. i \in JobRecs BY <1>1, <1>7, <2>1 DEF JobRecs, JobSteps
  <2>3. /\ i.via = j.via /\ i.began = j.began /\ i.sent = j.sent /\ i.step = "done" /\ i.said = "ok"
    BY <1>1, <2>1 DEF JobRecs
  <2>4. SameTask(i, j) BY <1>1, <2>1 DEF JobRecs, SameTask
  <2>5. end = FamilyPages BY <1>7, <1>16
  <2>6. PICK f : f = Booted(e) /\ dev' = f BY <1>11, <1>16, <2>5
  <2>7. DevOk(f) /\ Blanked(dev, f) /\ f.pages = e.pages BY <1>13, <2>6, BlankedBooted
  <2>8. e.density = dev.density /\ f.density = dev.density BY <1>13, <2>7 DEF Blanked
  <2>9. dev.density = end
    <3>1. end <= e.density BY <1>13, <1>16 DEF BlankBelow
    <3> QED BY <1>7, <1>14, <2>5, <2>8, <3>1
  <2>10. BlankBelow(f, f.density) BY <1>13, <1>16, <2>7, <2>8, <2>9 DEF BlankBelow
  <2>11. EraseInv(f, i, faults') BY <2>3, <2>10 DEF EraseInv
  <2>12. i.op = "erase" /\ i.step \in {"erase", "bisect", "write", "done"} /\ i.said \in {"ok", "error", "partial"}
    BY <1>2, <2>3, <2>4 DEF SameTask
  <2>13. FlashInvOf(f, i, faults') BY <1>2, <2>2, <2>3, <2>4, <2>7, <2>11, <2>12, EraseGoes
  <2> QED BY <2>1, <2>6, <2>13 DEF FlashInv
<1>17. CASE got = "payload" /\ k > 0
  <2>0. PICK b \in Nat : b = end - k BY <1>7
  <2>1. PICK i : i = flashJob' /\ i = [j EXCEPT !.step = "bisect", !.good = 0, !.bad = b]
    BY <1>11, <1>17, <2>0
  <2>2. i \in JobRecs
    <3>1. i = [j EXCEPT !.step = "bisect", !.good = 0, !.bad = b] /\ j \in JobRecs /\ 0 \in Nat
      BY <1>1, <2>1
    <3> QED BY <3>1 DEF JobRecs, JobSteps
  <2>3. /\ i.via = j.via /\ i.began = j.began /\ i.sent = j.sent /\ i.step = "bisect" /\ i.said = j.said
        /\ i.good = 0 /\ i.bad = b /\ i.k = j.k
    BY <1>1, <2>1 DEF JobRecs
  <2>4. SameTask(i, j) BY <1>1, <2>1 DEF JobRecs, SameTask
  <2>5. e = dev /\ dev' = e BY <1>11, <1>13, <1>17
  <2>6. ASSUME e.wrp = {}, ListEnd(i.k) <= e.density
        PROVE  "payload" \in faults'
    <3>1. end <= dev.density BY <1>3, <1>6, <2>3, <2>5, <2>6
    <3>2. k .. end - 1 \subseteq Pages BY <1>7, <1>14, <3>1 DEF Pages
    <3>3. inRange(k .. end - 1) BY <2>5, <2>6, <3>2 DEF inRange
    <3>4. a = "payload" BY <1>12, <1>17, <3>3
    <3> QED BY <1>2, <3>4, MeetsIs
  <2>7. i.k = k /\ 0 < b /\ k + b = ListEnd(k) BY <1>3, <1>6, <1>7, <2>0, <2>3
  <2>8. BlankBelow(e, i.k + i.good) BY <1>4, <2>3, <2>5, <2>7
  <2>9. EraseInv(e, i, faults')
    <3>1. i.step # "erase" /\ i.said # "ok" BY <1>5, <2>3
    <3>2. i.good < i.bad /\ i.k + i.bad <= ListEnd(i.k) /\ i.k + i.bad = ListEnd(i.k) /\ OnList(i.k)
      BY <1>4, <1>6, <1>7, <2>3, <2>7
    <3> QED BY <2>6, <2>8, <3>1, <3>2 DEF EraseInv
  <2>10. i.op = "erase" /\ i.via = "uart" /\ i.said = "" /\ e.at = "boot" /\ i.step \in {"erase", "bisect", "write", "done"}
    BY <1>2, <1>5, <2>3, <2>4, <2>5 DEF SameTask
  <2>11. FlashInvOf(e, i, faults') BY <1>2, <1>13, <2>2, <2>3, <2>4, <2>9, <2>10, EraseGoes
  <2> QED BY <2>1, <2>5, <2>11 DEF FlashInv
<1>18. CASE got # "ok" /\ ~(got = "payload" /\ k > 0)
  <2>1. PICK s \in {"error", "partial"} : s = "error"
    OBVIOUS
  <2>2. s \in {"ok"} \cup BadSays BY <2>1 DEF BadSays
  <2>3. PICK i : i = flashJob' /\ i = Saying(j, s) BY <1>11, <1>18, <2>1 DEF FlashSays, Saying
  <2>4. i \in JobRecs /\ Moved(i, j) /\ i.step = "done" /\ i.said = s BY <1>1, <2>2, <2>3, SayingMoved
  <2>5. dev' = e BY <1>11, <1>18
  <2> QED BY <1>2, <1>13, <2>3, <2>4, <2>5, EraseFails
<1> QED BY <1>15, <1>16, <1>17, <1>18

\* Which density an erase of the whole device ends at.
LEMMA DensityReached ==
  ASSUME NEW k \in Nat, OnList(k), k < FamilyPages, NEW n \in Nat, n \in Densities, NEW page \in Nat, page \in Densities,
         k <= page, page <= n, n <= FamilyPages, page < ListEnd(k),
         ListEnd(k) <= n => page + 1 = ListEnd(k)
  PROVE  page = n
<1>1. PICK q \in 0 .. k : k = q * EraseChunk BY DEF OnList
<1>2. EraseChunk \in Nat \ {0} /\ FamilyPages \in Nat /\ FamilyPages \in Densities BY FlashAssumption
<1>3. ListEnd(k) \in Nat /\ ListEnd(k) <= FamilyPages /\ ListEnd(k) <= k + EraseChunk
      /\ (ListEnd(k) = k + EraseChunk \/ ListEnd(k) = FamilyPages)
  BY <1>2 DEF ListEnd
<1>4. q \in 0 .. FamilyPages /\ q + 1 \in 0 .. FamilyPages BY <1>2
<1>5. \A d, e \in Densities : d \in k .. k + EraseChunk - 1 /\ e \in k .. k + EraseChunk - 1 => d = e
  BY <1>1, <1>4, FlashAssumption
<1>6. \A d \in Densities \ {FamilyPages} : d + 1 # k + EraseChunk
  <2>1. k + EraseChunk = (q + 1) * EraseChunk BY <1>1, <1>2
  <2> QED BY <1>4, <2>1, FlashAssumption
<1>7. page \in k .. k + EraseChunk - 1 BY <1>2, <1>3
<1>8. CASE n < ListEnd(k)
  <2>1. n \in k .. k + EraseChunk - 1 BY <1>2, <1>3, <1>8
  <2> QED BY <1>5, <1>7, <2>1
<1>9. CASE ListEnd(k) <= n
  <2>1. page + 1 = ListEnd(k) /\ page < FamilyPages BY <1>2, <1>3, <1>9
  <2>2. ListEnd(k) # k + EraseChunk BY <1>6, <2>1
  <2>3. ListEnd(k) = FamilyPages /\ FamilyPages \in k .. k + EraseChunk - 1 BY <1>2, <1>3, <2>2
  <2> QED BY <1>2, <1>5, <1>7, <2>1, <2>3
<1> QED BY <1>3, <1>8, <1>9

\* The refused list, narrowed down.
LEMMA BisectStep ==
  ASSUME FlashInv, NEW a, bisect_erase_boundary(a)
  PROVE  FlashInv'
<1> DEFINE j == flashJob
<1>1. /\ DevOk(dev) /\ CommandInv(dev, j) /\ j \in JobRecs /\ EraseInv(dev, j, faults) BY FlashParts
<1>2. j.step = "bisect" /\ Meets(a) BY DEF bisect_erase_boundary
<1>3. PICK k \in Nat, g \in Nat, b \in Nat : k = j.k /\ g = j.good /\ b = j.bad BY <1>1 DEF JobRecs
<1>4. /\ OnList(k) /\ g < b /\ k + b <= ListEnd(k) /\ BlankBelow(dev, k + g)
      /\ dev.wrp = {} /\ ListEnd(k) <= dev.density => "payload" \in faults /\ k + b = ListEnd(k)
  BY <1>1, <1>2, <1>3 DEF EraseInv
<1>5. dev.at = "boot" /\ j.said = "" /\ j.op = "erase" /\ j.via = "uart"
  BY <1>1, <1>2 DEF CommandInv, InBoot
<1>6. PICK mid \in Nat : mid = g + (b - g) \div 2 /\ g < mid /\ mid < b
  <2>1. b - g > 1 BY <1>3 DEF bisect_erase_boundary
  <2> QED BY <1>4, <2>1
<1>a. PICK n \in Nat : n = k + mid
  OBVIOUS
<1>7. PICK got : got = IF a # "command" /\ ~inRange(k .. n - 1) THEN "payload" ELSE a
  OBVIOUS
<1>8. PICK e : e = Erase(k .. n - 1, got)
  OBVIOUS
<1>9. /\ dev' = e
      /\ got = "ok" => flashJob' = [j EXCEPT !.good = mid]
      /\ got = "payload" => flashJob' = [j EXCEPT !.bad = mid]
      /\ got # "ok" /\ got # "payload" => FlashSays("error")
  <2>a. mid = j.good + (j.bad - j.good) \div 2 BY <1>3, <1>6
  <2>1. mid = j.good + (j.bad - j.good) \div 2 /\ k .. n - 1 = j.k .. j.k + mid - 1
    <3>1. n - 1 = k + mid - 1 BY <1>a
    <3>2. k .. n - 1 = k .. k + mid - 1 BY <3>1
    <3>3. k .. k + mid - 1 = j.k .. j.k + mid - 1 BY <1>3
    <3> QED BY <2>a, <3>2, <3>3
  <2>2. got = IF a # "command" /\ ~inRange(j.k .. j.k + mid - 1) THEN "payload" ELSE a BY <1>7, <2>1
  <2>3. /\ dev' = Erase(j.k .. j.k + mid - 1, got)
        /\ flashJob' = CASE got = "ok" -> [j EXCEPT !.good = mid]
                       [] got = "payload" -> [j EXCEPT !.bad = mid]
                       [] OTHER -> [j EXCEPT !.step = "done", !.said = "error"]
    BY <2>1, <2>2 DEF bisect_erase_boundary
  <2>4. dev' = e BY <1>8, <2>1, <2>3
  <2>5. CASE got = "ok" BY <2>3, <2>4, <2>5
  <2>6. CASE got = "payload" BY <2>3, <2>4, <2>6
  <2>7. CASE got # "ok" /\ got # "payload" BY <2>3, <2>4, <2>7 DEF FlashSays
  <2> QED BY <2>5, <2>6, <2>7
<1>10. (got = "ok" => inRange(k .. n - 1)) /\ (inRange(k .. n - 1) => got = a) BY <1>7
<1>b. dev.density \in Nat /\ ListEnd(k) \in Nat BY <1>1, FirstPage, FlashAssumption DEF ListEnd
<1>11. BlankBelow(dev, k) BY <1>4, <1>b DEF BlankBelow
<1>12. /\ DevOk(e) /\ Blanked(dev, e) /\ e.at = dev.at
       /\ got = "ok" => BlankBelow(e, n)
       /\ got \notin {"ok", "late"} => e = dev
  <2>1. k < n BY <1>6, <1>a
  <2> QED BY <1>8, <1>10, <1>11, <2>1, EraseIs
<1>13. e.wrp = dev.wrp /\ e.density = dev.density BY <1>12 DEF Blanked
<1>14. ASSUME NEW i, i = flashJob', i \in JobRecs, Moved(i, j), i.step = "bisect", i.said = "", i.k = k,
              i.good \in Nat, i.bad \in Nat, i.good < i.bad, i.bad <= b, BlankBelow(e, k + i.good),
              dev.wrp = {} /\ ListEnd(k) <= dev.density => i.bad = b
       PROVE  FlashInv'
  <2>1. SameTask(i, j) /\ i.via = j.via /\ i.began = j.began /\ i.sent = j.sent BY <1>14 DEF Moved
  <2>2. i.op = "erase" /\ i.via = "uart" /\ e.at = "boot" /\ i.step \in {"erase", "bisect", "write", "done"}
    BY <1>5, <1>12, <1>14, <2>1 DEF SameTask
  <2>3. i.k + i.bad <= ListEnd(i.k)
    <3>a. PICK x \in Nat, l \in Nat : x = i.bad /\ l = ListEnd(k) BY <1>14, <1>b
    <3>b. x <= b /\ k + b <= l BY <1>4, <1>14, <3>a
    <3>c. k + x <= l BY <3>b
    <3>1. k + i.bad <= ListEnd(k) BY <3>a, <3>c
    <3> QED BY <1>14, <3>1
  <2>4. e.wrp = {} /\ ListEnd(i.k) <= e.density => "payload" \in faults' /\ i.k + i.bad = ListEnd(i.k)
    BY <1>2, <1>4, <1>13, <1>14, MeetsIs
  <2>5. i.step # "erase" /\ i.said # "ok" BY <1>14
  <2>6. EraseInv(e, i, faults') BY <1>4, <1>14, <2>3, <2>4, <2>5 DEF EraseInv
  <2>7. FlashInvOf(e, i, faults') BY <1>2, <1>12, <1>14, <2>1, <2>2, <2>6, EraseGoes
  <2> QED BY <1>9, <1>14, <2>7 DEF FlashInv
<1>15. CASE got = "ok"
  <2>1. PICK i : i = flashJob' /\ i = [j EXCEPT !.good = mid] BY <1>9, <1>15
  <2>2. i \in JobRecs BY <1>1, <2>1 DEF JobRecs
  <2>3. /\ i.via = j.via /\ i.began = j.began /\ i.sent = j.sent /\ i.step = "bisect" /\ i.said = j.said
        /\ i.good = mid /\ i.bad = b /\ i.k = k
    BY <1>1, <1>2, <1>3, <2>1 DEF JobRecs
  <2>4. SameTask(i, j) BY <1>1, <2>1 DEF JobRecs, SameTask
  <2>5. BlankBelow(e, k + i.good) BY <1>a, <1>12, <1>15, <2>3
  <2>6. i.good < i.bad /\ i.bad <= b /\ i.bad = b /\ i.good \in Nat /\ i.bad \in Nat BY <1>6, <2>3
  <2>7. Moved(i, j) /\ i.said = "" BY <1>5, <2>3, <2>4 DEF Moved
  <2> QED BY <1>14, <2>1, <2>2, <2>3, <2>5, <2>6, <2>7
<1>16. CASE got = "payload"
  <2>1. PICK i : i = flashJob' /\ i = [j EXCEPT !.bad = mid] BY <1>9, <1>16
  <2>2. i \in JobRecs BY <1>1, <2>1 DEF JobRecs
  <2>3. /\ i.via = j.via /\ i.began = j.began /\ i.sent = j.sent /\ i.step = "bisect" /\ i.said = j.said
        /\ i.good = g /\ i.bad = mid /\ i.k = k
    BY <1>1, <1>2, <1>3, <2>1 DEF JobRecs
  <2>4. SameTask(i, j) BY <1>1, <2>1 DEF JobRecs, SameTask
  <2>5. e = dev BY <1>12, <1>16
  <2>6. ~(dev.wrp = {} /\ ListEnd(k) <= dev.density)
    <3>1. SUFFICES ASSUME dev.wrp = {}, ListEnd(k) <= dev.density PROVE FALSE
      OBVIOUS
    <3>2. n <= dev.density BY <1>4, <1>6, <1>a, <1>b, <3>1
    <3>3. k .. n - 1 \subseteq Pages BY <1>b, <3>2 DEF Pages
    <3>4. inRange(k .. n - 1) BY <3>1, <3>3 DEF inRange
    <3>5. a = "payload" BY <1>10, <1>16, <3>4
    <3> QED BY <1>2, <1>4, <3>1, <3>5, MeetsIs
  <2>7. i.good < i.bad /\ i.bad <= b /\ BlankBelow(e, k + i.good) BY <1>4, <1>6, <2>3, <2>5
  <2> QED BY <1>5, <1>14, <2>1, <2>2, <2>3, <2>4, <2>6, <2>7 DEF Moved
<1>17. CASE got # "ok" /\ got # "payload"
  <2>1. PICK s \in {"error", "partial"} : s = "error"
    OBVIOUS
  <2>2. s \in {"ok"} \cup BadSays BY <2>1 DEF BadSays
  <2>3. PICK i : i = flashJob' /\ i = Saying(j, s) BY <1>9, <1>17, <2>1 DEF FlashSays, Saying
  <2>4. i \in JobRecs /\ Moved(i, j) /\ i.step = "done" /\ i.said = s BY <1>1, <2>2, <2>3, SayingMoved
  <2> QED BY <1>2, <1>9, <1>12, <2>3, <2>4, EraseFails
<1> QED BY <1>15, <1>16, <1>17

\* The stop must be a density of the family.
LEMMA EraseEndsStep ==
  ASSUME FlashInv, NEW a, EraseEnds(a)
  PROVE  FlashInv'
<1> DEFINE j == flashJob
<1>1. /\ DevOk(dev) /\ CommandInv(dev, j) /\ j \in JobRecs /\ EraseInv(dev, j, faults) BY FlashParts
<1>2. j.step = "bisect" /\ Meets(a) BY DEF EraseEnds
<1>3. PICK k \in Nat, g \in Nat, b \in Nat : k = j.k /\ g = j.good /\ b = j.bad BY <1>1 DEF JobRecs
<1>4. /\ OnList(k) /\ g < b /\ k + b <= ListEnd(k) /\ BlankBelow(dev, k + g)
      /\ dev.wrp = {} /\ ListEnd(k) <= dev.density => "payload" \in faults /\ k + b = ListEnd(k)
  BY <1>1, <1>2, <1>3 DEF EraseInv
<1>5. dev.at = "boot" /\ j.said = "" /\ j.op = "erase" /\ j.via = "uart"
  BY <1>1, <1>2 DEF CommandInv, InBoot
<1>6. b = g + 1 BY <1>3, <1>4 DEF EraseEnds
<1>7. PICK page \in Nat : page = k + g
  OBVIOUS
<1>8. PICK d : d = Erase(k .. page - 1, a)
  OBVIOUS
<1>9. IF a # "ok" THEN dev' = d /\ FlashSays("error")
      ELSE /\ flashJob' = [j EXCEPT !.step = "done", !.said = boundary(page), !.k = page]
           /\ dev' = IF boundary(page) = "ok" THEN Booted(d) ELSE d
  BY <1>3, <1>7, <1>8 DEF EraseEnds
<1>b. dev.density \in Nat /\ dev.density <= FamilyPages /\ dev.density \in Densities /\ ListEnd(k) \in Nat
      /\ ListEnd(k) <= FamilyPages /\ FamilyPages \in Nat
  BY <1>1, FirstPage, FlashAssumption DEF ListEnd
<1>10. BlankBelow(dev, k) /\ BlankBelow(dev, page) /\ page <= dev.density BY <1>4, <1>7, <1>b DEF BlankBelow
<1>11. DevOk(d) /\ Blanked(dev, d) /\ BlankBelow(d, page)
  <2>1. CASE a \in {"ok", "late"}
    <3>1. d = Erased(dev, k .. page - 1) BY <1>8, <2>1 DEF Erase
    <3>2. k = 0 /\ (\E p \in PagesOf(dev) : p \in k .. page - 1) => 0 \in k .. page - 1
      OBVIOUS
    <3>3. DevOk(d) /\ Blanked(dev, d) BY <1>1, <1>10, <3>1, <3>2, ErasedFrom
    <3>4. BlankBelow(d, page) BY <1>1, <1>10, <3>1, ErasedTo
    <3> QED BY <3>3, <3>4
  <2>2. CASE a \notin {"ok", "late"} BY <1>1, <1>8, <1>10, <2>2, BlankedItself DEF Erase
  <2> QED BY <2>1, <2>2
<1>12. CASE a # "ok"
  <2>1. PICK s \in {"error", "partial"} : s = "error"
    OBVIOUS
  <2>2. s \in {"ok"} \cup BadSays BY <2>1 DEF BadSays
  <2>3. PICK i : i = flashJob' /\ i = Saying(j, s) BY <1>9, <1>12, <2>1 DEF FlashSays, Saying
  <2>4. i \in JobRecs /\ Moved(i, j) /\ i.step = "done" /\ i.said = s BY <1>1, <2>2, <2>3, SayingMoved
  <2>5. dev' = d BY <1>9, <1>12
  <2> QED BY <1>2, <1>11, <2>3, <2>4, <2>5, EraseFails
<1>13. CASE a = "ok"
  <2>1. PICK s : s = boundary(page)
    OBVIOUS
  <2>2. s \in {"ok", "partial"} /\ (s = "ok" => page \in Densities) BY <2>1 DEF boundary
  <2>3. PICK i : i = flashJob' /\ i = [j EXCEPT !.step = "done", !.said = s, !.k = page]
    BY <1>9, <1>13, <2>1
  <2>4. i \in JobRecs
    <3>1. s \in {"", "ok"} \cup OnSays \cup OffSays \cup BadSays BY <2>2 DEF BadSays
    <3> QED BY <1>1, <2>3, <3>1 DEF JobRecs, JobSteps
  <2>5. /\ i.via = j.via /\ i.began = j.began /\ i.sent = j.sent /\ i.step = "done" /\ i.said = s
    BY <1>1, <2>3 DEF JobRecs
  <2>6. SameTask(i, j) BY <1>1, <2>3 DEF JobRecs, SameTask
  <2>7. CASE s = "partial"
    <3>1. dev' = d BY <1>9, <1>13, <2>1, <2>7
    <3>2. Moved(i, j) BY <2>5, <2>6 DEF Moved
    <3>3. PICK t \in {"error", "partial"} : t = s BY <2>7
    <3>4. i.said = t BY <2>5, <3>3
    <3> QED BY <1>2, <1>11, <2>3, <2>4, <2>5, <3>1, <3>2, <3>4, EraseFails
  <2>8. CASE s = "ok"
    <3>1. PICK f : f = Booted(d) /\ dev' = f BY <1>9, <1>13, <2>1, <2>8
    <3>2. DevOk(f) /\ Blanked(dev, f) /\ f.pages = d.pages BY <1>11, <3>1, BlankedBooted
    <3>3. f.density = dev.density /\ f.wrp = dev.wrp /\ d.density = dev.density BY <1>11, <3>2 DEF Blanked
    <3>4. ASSUME f.wrp = {} PROVE BlankBelow(f, f.density)
      <4>1. ListEnd(k) <= dev.density => page + 1 = ListEnd(k) BY <1>4, <1>6, <1>7, <3>3, <3>4
      <4>2. page \in Densities /\ k <= page /\ page < ListEnd(k) /\ k < FamilyPages
        BY <1>4, <1>6, <1>7, <1>b, <2>2, <2>8
      <4>3. page = dev.density BY <1>4, <1>10, <1>b, <4>1, <4>2, DensityReached
      <4> QED BY <1>11, <3>2, <3>3, <4>3 DEF BlankBelow
    <3>5. EraseInv(f, i, faults') BY <2>5, <3>4 DEF EraseInv
    <3>6. i.op = "erase" /\ i.step \in {"erase", "bisect", "write", "done"} /\ i.said \in {"ok", "error", "partial"}
      BY <1>5, <2>5, <2>6, <2>8 DEF SameTask
    <3>7. FlashInvOf(f, i, faults') BY <1>2, <2>4, <2>5, <2>6, <3>2, <3>5, <3>6, EraseGoes
    <3> QED BY <2>3, <3>1, <3>7 DEF FlashInv
  <2> QED BY <2>2, <2>7, <2>8
<1> QED BY <1>12, <1>13

-----------------------------------------------------------------------------
(***************************************************************************)
(* The flasher: writing                                                    *)
(***************************************************************************)

\* Two boards that differ in their flash only.
SameBoard(d, e) ==
  /\ e.board = d.board /\ e.density = d.density /\ e.eeprom = d.eeprom /\ e.rdp = d.rdp
  /\ e.fresh = d.fresh /\ e.wrp = d.wrp

\* A torn block.
LEMMA TornIs ==
  ASSUME NEW d, DevOk(d), NEW x \in PagesOf(d)
  PROVE  /\ DevOk(Torn(d, x)) /\ SameBoard(d, Torn(d, x)) /\ Torn(d, x).pages[x] = "torn"
         /\ \A p \in PagesOf(d) \ {x} : Torn(d, x).pages[p] = d.pages[p]
<1>1. PICK g : g = [d.pages EXCEPT ![x] = "torn"]
  OBVIOUS
<1>2. d \in DevRecs /\ d.pages \in [PagesOf(d) -> Cells] /\ 0 \notin d.wrp BY DEF DevOk
<1>3. g \in [PagesOf(d) -> Cells] /\ g[x] = "torn" /\ \A p \in PagesOf(d) \ {x} : g[p] = d.pages[p]
  BY <1>1, <1>2 DEF Cells
<1>4. d.density \in Densities BY <1>2 DEF DevRecs
<1>5. g \in UNION {[0 .. n - 1 -> Cells] : n \in Densities} BY <1>3, <1>4 DEF PagesOf
<1>6. PICK e : e = [d EXCEPT !.pages = g]
  OBVIOUS
<1>7. Torn(d, x) = e BY <1>1, <1>2, <1>6 DEF Torn, DevRecs
<1>8. e \in DevRecs BY <1>2, <1>5, <1>6 DEF DevRecs
<1>9. /\ e.pages = g /\ SameBoard(d, e) /\ e.density = d.density /\ e.wrp = d.wrp
  BY <1>2, <1>6 DEF DevRecs, SameBoard
<1>10. DevOk(e) BY <1>2, <1>3, <1>8, <1>9 DEF DevOk, PagesOf
<1> QED BY <1>3, <1>7, <1>9, <1>10

LEMMA WriteGoes ==
  ASSUME FlashInv, flashJob.step \in {"write", "verify"},
         NEW e, DevOk(e), SameBoard(dev, e), NEW gs,
         NEW i \in JobRecs, Moved(i, flashJob), i.step \in {"write", "verify", "done"},
         i.step # "done" => i.said = "" /\ e.at = "boot", i.said \in {"", "ok"} \cup BadSays,
         ImageInv(e, i)
  PROVE  FlashInvOf(e, i, gs)
<1> DEFINE j == flashJob
<1>1. /\ CommandInv(dev, j) /\ j \in JobRecs BY FlashParts
<1>2. /\ SameTask(i, j) /\ i.via = j.via /\ i.began = j.began /\ i.sent = j.sent BY DEF Moved
<1>3. i.op = j.op /\ i.yes = j.yes /\ i.len = j.len /\ i.erase = j.erase BY <1>2 DEF SameTask
<1>4. j.op = "flash" /\ j.began /\ j.len > 0 BY <1>1 DEF CommandInv, Changing
<1>5. CommandInv(e, i)
  <2>1. (i.via = "dfu" => e.board = "r1") /\ (e.fresh => i.op = "protect")
        /\ (e.eeprom = "erased" => i.op = "unprotect" /\ i.yes)
        /\ (i.sent => i.op \in Levels /\ i.began)
    BY <1>1, <1>2, <1>3 DEF CommandInv, SameBoard
  <2>2. i.step \notin {"enter_dfu", "open"} /\ i.step # "level" /\ i.step # "erase" /\ i.step # "bisect"
    OBVIOUS
  <2>3. i.op \notin Levels /\ i.op = "flash" /\ i.len > 0 /\ i.began BY <1>2, <1>3, <1>4 DEF Levels
  <2>4. i.step \in InBoot => e.at = "boot" BY DEF InBoot
  <2> QED BY <2>1, <2>2, <2>3, <2>4 DEF CommandInv
<1>6. IntactInv(e, i) BY <1>2, <1>4 DEF IntactInv
<1>7. EraseInv(e, i, gs) BY <1>3, <1>4 DEF EraseInv
<1>8. i.said \notin OnSays /\ i.said \notin OffSays BY DEF OnSays, OffSays, BadSays
<1>9. LevelInv(e, i, gs) BY <1>8 DEF LevelInv
<1> QED BY <1>5, <1>6, <1>7, <1>9 DEF FlashInvOf

\* What the image is after a block is written: the first page is never of the old image, and is of
\* the new one when every other page is.
Fronted(e, j) ==
  /\ j.erase => e.pages[0] # "old"
  /\ j.erase /\ e.pages[0] \notin {"old", "blank"} =>
       \A p \in 1 .. j.len - 1 : e.pages[p] = "new" \/ (~j.verify /\ e.pages[p] = "bad")

LEMMA WriteFails ==
  ASSUME FlashInv, flashJob.step \in {"write", "verify"}, NEW e, DevOk(e), SameBoard(dev, e), dev' = e,
         Fronted(e, flashJob), FlashSays("error")
  PROVE  FlashInv'
<1> DEFINE j == flashJob
<1>1. /\ CommandInv(dev, j) /\ j \in JobRecs BY FlashParts
<1>2. PICK s \in {"ok"} \cup BadSays : s = "error" BY DEF BadSays
<1>3. PICK i : i = flashJob' /\ i = Saying(j, s) BY <1>2 DEF FlashSays, Saying
<1>4. i \in JobRecs /\ Moved(i, j) /\ i.step = "done" /\ i.said = s BY <1>1, <1>2, <1>3, SayingMoved
<1>5. i.len = j.len /\ i.erase = j.erase /\ i.verify = j.verify /\ i.op = j.op BY <1>4 DEF Moved, SameTask
<1>6. j.op = "flash" /\ i.said # "ok" BY <1>1, <1>2, <1>4 DEF CommandInv
<1>7. ImageInv(e, i)
  <2>1. i.step = "done" /\ i.op = "flash" /\ i.said # "ok" BY <1>4, <1>5, <1>6
  <2>2. /\ (i.op = "flash" => i.erase) => e.pages[0] # "old"
        /\ i.erase /\ e.pages[0] \notin {"old", "blank"} =>
             \A p \in 1 .. i.len - 1 : e.pages[p] = "new" \/ (~i.verify /\ e.pages[p] = "bad")
    BY <1>5, <2>1 DEF Fronted
  <2> QED BY <2>1, <2>2 DEF ImageInv
<1>8. FlashInvOf(e, i, faults') BY <1>4, <1>2, <1>7, WriteGoes
<1> QED BY <1>3, <1>8 DEF FlashInv

LEMMA WriteStep ==
  ASSUME FlashInv, NEW a \in Answers, NEW good \in BOOLEAN, write_image(a, good) \/ dfu_write(a, good)
  PROVE  FlashInv'
<1> DEFINE j == flashJob
<1>1. /\ DevOk(dev) /\ CommandInv(dev, j) /\ j \in JobRecs /\ ImageInv(dev, j) BY FlashParts
<1>2. j.step = "write" /\ WriteBlock(a, good) BY DEF write_image, dfu_write
<1>3. j.op = "flash" /\ j.began /\ dev.at = "boot" /\ j.said = ""
  BY <1>1, <1>2 DEF CommandInv, Changing, InBoot
<1>4. PICK k \in Nat, len \in Nat : k = j.k /\ len = j.len BY <1>1 DEF JobRecs
<1>5. k < len /\ k < dev.density BY <1>1, <1>2, <1>4 DEF ImageInv
<1>6. j.erase => dev.pages[0] = "blank" /\ \A p \in 1 .. k : dev.pages[p] \in {"new", "bad"}
  BY <1>1, <1>2, <1>4 DEF ImageInv
<1>7. dev.density \in Nat \ {0} /\ PagesOf(dev) = 0 .. dev.density - 1 /\ Pages = PagesOf(dev) /\ 0 \in PagesOf(dev)
  BY <1>1, FirstPage DEF PagesOf, Pages
<1>8. CASE ReadBackFails
  <2>1. Leave("mismatch") BY <1>2, <1>8 DEF WriteBlock
  <2>2. PICK s \in BadSays : s = "mismatch" BY DEF BadSays
  <2> QED BY <1>3, <2>1, <2>2, LeaveStep
<1>9. CASE ~ReadBackFails
  <2>1. PICK page : page = order(j.k)
    OBVIOUS
  <2>2. page = IF k < len - 1 THEN k + 1 ELSE 0 BY <1>4, <2>1 DEF order
  <2>3. PICK can \in BOOLEAN : can <=> page \in Pages \ dev.wrp BY Zenon
  <2>4. PICK e : e = IF served(a) /\ can THEN Written(dev, page, good) ELSE dev
    OBVIOUS
  <2>5. /\ dev' = e
        /\ IF a # "ok" \/ ~can THEN FlashSays("error")
           ELSE IF j.k < j.len - 1 THEN flashJob' = [j EXCEPT !.k = @ + 1]
           ELSE Step("verify")
    BY <1>2, <1>9, <2>1, <2>3, <2>4 DEF WriteBlock
  <2>6. page \in Nat BY <1>4, <2>2
  <2>7. /\ DevOk(e) /\ SameBoard(dev, e) /\ e.at = "boot"
        /\ \A p \in PagesOf(dev) \ {page} : e.pages[p] = dev.pages[p]
        /\ e.pages[page] = dev.pages[page] \/ (page \in PagesOf(dev) /\ e.pages[page] \in {"new", "bad"})
        /\ served(a) /\ can => page \in PagesOf(dev) /\ e.pages[page] \in {"new", "bad"}
    <3>1. CASE served(a) /\ can
      <4>1. page \in PagesOf(dev) BY <1>7, <2>3, <3>1
      <4>2. e = Written(dev, page, good) BY <2>4, <3>1
      <4>3. /\ DevOk(e) /\ e.at = dev.at /\ e.board = dev.board /\ e.density = dev.density
            /\ e.eeprom = dev.eeprom /\ e.rdp = dev.rdp /\ e.fresh = dev.fresh /\ e.wrp = dev.wrp
            /\ e.pages[page] \in {"new", "bad"}
            /\ \A p \in PagesOf(dev) \ {page} : e.pages[p] = dev.pages[p]
        BY <1>1, <4>1, <4>2, WrittenIs
      <4> QED BY <1>3, <4>1, <4>3 DEF SameBoard
    <3>2. CASE ~(served(a) /\ can)
      <4>1. e = dev BY <2>4, <3>2
      <4> QED BY <1>1, <1>3, <3>2, <4>1 DEF SameBoard
    <3> QED BY <3>1, <3>2
  <2>8. j.verify /\ ~(k < len - 1) => \A p \in 1 .. len - 1 : dev.pages[p] = "new"
    <3>1. SUFFICES ASSUME j.verify, ~(k < len - 1), NEW p \in 1 .. len - 1
                   PROVE  dev.pages[p] = "new"
      OBVIOUS
    <3>2. k = len - 1 /\ len > 1 BY <1>5, <3>1
    <3>3. ~mismatch(1, len - 1) BY <1>4, <1>9, <3>1, <3>2 DEF ReadBackFails
    <3> QED BY <3>1, <3>3 DEF mismatch
  <2>9. \A p \in 1 .. k : p \in PagesOf(dev) /\ p # page BY <1>5, <1>7, <2>2
  <2>10. Fronted(e, j)
    <3>1. SUFFICES ASSUME j.erase
                   PROVE  /\ e.pages[0] # "old"
                          /\ e.pages[0] \notin {"old", "blank"} => \A p \in 1 .. len - 1 : e.pages[p] = "new" \/ (~j.verify /\ e.pages[p] = "bad")
      BY <1>4 DEF Fronted
    <3>2. dev.pages[0] = "blank" /\ \A p \in 1 .. k : dev.pages[p] \in {"new", "bad"} BY <1>6, <3>1
    <3>3. CASE k < len - 1
      <4>1. 0 # page BY <2>2, <3>3
      <4>2. e.pages[0] = "blank" BY <1>7, <2>7, <3>2, <4>1
      <4> QED BY <4>2
    <3>4. CASE ~(k < len - 1)
      <4>1. page = 0 /\ k = len - 1 BY <1>5, <2>2, <3>4
      <4>2. e.pages[0] # "old" BY <2>7, <3>2, <4>1
      <4>3. ASSUME NEW p \in 1 .. len - 1
            PROVE  e.pages[p] = "new" \/ (~j.verify /\ e.pages[p] = "bad")
        <5>1. p \in 1 .. k BY <4>1, <4>3
        <5>2. e.pages[p] = dev.pages[p] BY <2>7, <2>9, <5>1
        <5>3. dev.pages[p] \in {"new", "bad"} /\ (j.verify => dev.pages[p] = "new")
          BY <2>8, <3>2, <3>4, <4>3, <5>1
        <5> QED BY <5>2, <5>3
      <4> QED BY <4>2, <4>3
    <3> QED BY <3>3, <3>4
  <2>11. CASE a # "ok" \/ ~can
    <3>1. FlashSays("error") BY <2>5, <2>11
    <3> QED BY <1>2, <2>5, <2>7, <2>10, <3>1, WriteFails
  <2>12. CASE a = "ok" /\ can /\ k < len - 1
    <3>1. PICK n \in Nat : n = k + 1
      OBVIOUS
    <3>2. PICK i : i = flashJob' /\ i = [j EXCEPT !.k = n] BY <1>4, <2>5, <2>12, <3>1
    <3>a. i = [j EXCEPT !.k = n] /\ j \in JobRecs BY <1>1, <3>2
    <3>3. i \in JobRecs /\ Moved(i, j) /\ i.step = j.step /\ i.said = j.said /\ i.k = n BY <3>a, AtPage
    <3>4. i.len = j.len /\ i.erase = j.erase /\ i.verify = j.verify /\ i.op = j.op
      BY <3>3 DEF Moved, SameTask
    <3>5. page = n /\ page \in PagesOf(dev) /\ e.pages[page] \in {"new", "bad"}
      BY <2>2, <2>7, <2>12, <3>1 DEF served
    <3>6. n < len /\ n < dev.density /\ e.density = dev.density
      BY <1>7, <2>7, <2>12, <3>1, <3>5 DEF SameBoard
    <3>7. e.pages[0] = dev.pages[0] BY <1>7, <2>7, <3>1, <3>5
    <3>8. ASSUME i.erase, NEW p \in 1 .. n PROVE e.pages[p] \in {"new", "bad"}
      <4>1. CASE p = n BY <3>5, <4>1
      <4>2. CASE p # n
        <5>1. p \in 1 .. k BY <3>1, <3>8, <4>2
        <5>2. e.pages[p] = dev.pages[p] BY <2>7, <2>9, <5>1
        <5> QED BY <1>6, <3>4, <3>8, <5>1, <5>2
      <4> QED BY <4>1, <4>2
    <3>9. i.step = "write" /\ i.said = "" /\ i.op = "flash" /\ i.said # "ok" BY <1>2, <1>3, <3>3, <3>4
    <3>10. i.k < i.len /\ i.k < e.density BY <1>4, <3>3, <3>4, <3>6
    <3>11. i.erase => e.pages[0] = "blank" /\ \A p \in 1 .. i.k : e.pages[p] \in {"new", "bad"}
      BY <1>6, <3>3, <3>4, <3>7, <3>8
    <3>12. /\ i.erase => e.pages[0] = "blank" BY <3>11
    <3>13. ImageInv(e, i) BY <3>9, <3>10, <3>11, <3>12, Zenon DEF ImageInv
    <3>14. FlashInvOf(e, i, faults') BY <1>2, <2>7, <3>3, <3>9, <3>13, WriteGoes
    <3> QED BY <2>5, <3>2, <3>14 DEF FlashInv
  <2>13. CASE a = "ok" /\ can /\ ~(k < len - 1)
    <3>0. PICK s \in JobSteps : s = "verify" BY DEF JobSteps
    <3>1. PICK i : i = flashJob' /\ i = Onward(j, s) BY <1>4, <2>5, <2>13, <3>0 DEF Step, Onward
    <3>2. /\ i \in JobRecs /\ SameTask(i, j) /\ i.step = s /\ i.k = 0 /\ i.said = j.said /\ i.via = j.via
          /\ i.sent = j.sent /\ (i.began <=> (j.began \/ s \in {"erase", "write", "level"})) /\ i.began \in BOOLEAN
      BY <1>1, <3>1, OnwardIs
    <3>3. j.began \in BOOLEAN BY <1>1 DEF JobRecs
    <3>4. i.began = j.began BY <1>3, <3>2, <3>3
    <3>5. Moved(i, j) BY <3>2, <3>4 DEF Moved
    <3>6. i.len = j.len /\ i.erase = j.erase /\ i.verify = j.verify /\ i.op = "flash" /\ i.step = "verify" /\ i.said = ""
      BY <1>3, <3>0, <3>2 DEF SameTask
    <3>7. page = 0 /\ k = len - 1 BY <1>5, <2>2, <2>13
    <3>8. ASSUME i.verify, NEW p \in 1 .. i.len - 1 PROVE e.pages[p] = "new"
      <4>1. p \in 1 .. k /\ p \in 1 .. len - 1 BY <1>4, <3>6, <3>7, <3>8
      <4>2. e.pages[p] = dev.pages[p] BY <2>7, <2>9, <4>1
      <4> QED BY <2>8, <2>13, <3>6, <3>8, <4>1, <4>2
    <3>9. /\ i.erase => e.pages[0] # "old"
          /\ i.erase /\ e.pages[0] \notin {"old", "blank"} =>
               \A p \in 1 .. i.len - 1 : e.pages[p] = "new" \/ (~i.verify /\ e.pages[p] = "bad")
      BY <2>10, <3>6 DEF Fronted
    <3>10. i.step = "verify" /\ i.op = "flash" /\ i.said # "ok" BY <3>6
    <3>11. ImageInv(e, i) BY <3>8, <3>9, <3>10 DEF ImageInv
    <3>12. FlashInvOf(e, i, faults') BY <1>2, <2>7, <3>2, <3>5, <3>6, <3>11, WriteGoes
    <3> QED BY <2>5, <3>1, <3>12 DEF FlashInv
  <2> QED BY <2>11, <2>12, <2>13
<1> QED BY <1>8, <1>9

\* The read-back of the first page, and the start.
LEMMA FinishStep ==
  ASSUME FlashInv, NEW a \in Answers, Finish(a) \/ leave(a)
  PROVE  FlashInv'
<1> DEFINE j == flashJob
<1>1. /\ DevOk(dev) /\ CommandInv(dev, j) /\ j \in JobRecs /\ ImageInv(dev, j) BY FlashParts
<1>2. j.step = "verify" BY DEF Finish, leave
<1>3. j.op = "flash" /\ j.began /\ dev.at = "boot" /\ j.said = "" /\ ~dev.fresh
  BY <1>1, <1>2 DEF CommandInv, Changing, InBoot
<1>a. j.len \in Nat BY <1>1 DEF JobRecs
<1>4. \/ \E s \in BadSays : Leave(s)
      \/ \E s \in {"ok"} \cup BadSays :
           /\ FlashSays(s)
           /\ dev' = dev \/ dev' = Booted(dev)
           /\ s = "ok" => /\ Verified(a)
                          /\ dev' = IF j.run THEN Booted(dev) ELSE dev
  <2>1. "mismatch" \in BadSays /\ "error" \in BadSays BY DEF BadSays
  <2>2. CASE ~Verified(a)
    <3>1. Leave("mismatch") \/ Leave("error") BY <2>2 DEF Finish, leave
    <3> QED BY <2>1, <3>1
  <2>3. CASE Verified(a) /\ ~j.run
    <3>1. FlashSays("ok") /\ dev' = dev BY <2>3 DEF Finish, leave, Leave
    <3> QED BY <2>3, <3>1
  <2>4. CASE Verified(a) /\ j.run
    <3>1. \/ FlashSays("ok") /\ served(a) /\ dev' = Booted(dev)
          \/ FlashSays("error") /\ (dev' = dev \/ dev' = Booted(dev))
      BY <2>4 DEF Finish, leave, served
    <3> QED BY <2>1, <2>4, <3>1
  <2> QED BY <2>2, <2>3, <2>4
<1>5. CASE \E s \in BadSays : Leave(s) BY <1>3, <1>5, LeaveStep
<1>6. ASSUME NEW s \in {"ok"} \cup BadSays, FlashSays(s), dev' = dev \/ dev' = Booted(dev),
             s = "ok" => Verified(a) /\ dev' = IF j.run THEN Booted(dev) ELSE dev
      PROVE  FlashInv'
  <2>1. PICK e : e = dev'
    OBVIOUS
  <2>2. DevOk(e) /\ Kept(dev, e) BY <1>1, <1>6, <2>1, BootedIs, KeptItself
  <2>3. SameBoard(dev, e) /\ e.pages = dev.pages /\ PagesOf(e) = PagesOf(dev)
    BY <2>2 DEF Kept, SameBoard, PagesOf
  <2>4. PICK i : i = flashJob' /\ i = Saying(j, s) BY <1>6 DEF FlashSays, Saying
  <2>5. i \in JobRecs /\ Moved(i, j) /\ i.step = "done" /\ i.said = s BY <1>1, <2>4, SayingMoved
  <2>6. i.len = j.len /\ i.erase = j.erase /\ i.verify = j.verify /\ i.op = "flash" /\ i.run = j.run
    BY <1>3, <2>5 DEF Moved, SameTask
  <2>7. ASSUME s = "ok", i.verify
        PROVE  /\ \A p \in 0 .. i.len - 1 : e.pages[p] = "new"
               /\ e.at = IF i.run THEN "app" ELSE "boot"
    <3>1. ~mismatch(0, 0) BY <1>6, <2>6, <2>7 DEF Verified
    <3>2. dev.pages[0] = "new" BY <3>1 DEF mismatch
    <3>3. \A p \in 1 .. j.len - 1 : dev.pages[p] = "new" BY <1>1, <1>2, <2>6, <2>7 DEF ImageInv
    <3>4. \A p \in 0 .. j.len - 1 : p = 0 \/ p \in 1 .. j.len - 1 BY <1>a
    <3>5. \A p \in 0 .. j.len - 1 : dev.pages[p] = "new" BY <3>2, <3>3, <3>4
    <3>6. e.at = IF j.run THEN "app" ELSE "boot"
      <4>1. CASE j.run
        <5>1. e = Booted(dev) BY <1>6, <2>1, <2>7, <4>1
        <5>2. Booted(dev).at = "app" BY <1>1, <1>3, <3>2, BootedIs
        <5> QED BY <4>1, <5>1, <5>2
      <4>2. CASE ~j.run BY <1>3, <1>6, <2>1, <2>7, <4>2
      <4> QED BY <4>1, <4>2
    <3> QED BY <2>3, <2>6, <3>5, <3>6
  <2>8. ImageInv(e, i)
    <3>1. i.step = "done" /\ i.op = "flash" /\ i.said = s BY <2>5, <2>6
    <3>2. /\ (i.op = "flash" => i.erase) /\ e.pages[0] = "old" => \A p \in PagesOf(e) : e.pages[p] = "old"
          /\ i.op = "flash" /\ i.erase /\ e.pages[0] \notin {"old", "blank"} =>
               \A p \in 1 .. i.len - 1 : e.pages[p] = "new" \/ (~i.verify /\ e.pages[p] = "bad")
      BY <1>1, <1>3, <2>3, <2>6, ZenonT(30) DEF ImageInv
    <3> QED BY <2>7, <3>1, <3>2 DEF ImageInv
  <2>9. i.said \in {"", "ok"} \cup BadSays BY <2>5
  <2>10. FlashInvOf(e, i, faults') BY <1>2, <2>2, <2>3, <2>5, <2>8, <2>9, WriteGoes
  <2> QED BY <2>1, <2>4, <2>10 DEF FlashInv
<1> QED BY <1>4, <1>5, <1>6

-----------------------------------------------------------------------------
(***************************************************************************)
(* The flasher: a loss of power, and the start                             *)
(***************************************************************************)

\* Nothing is erased.
LEMMA ErasedNone ==
  ASSUME NEW d, DevOk(d)
  PROVE  Erased(d, {}).pages = d.pages
<1>1. d \in DevRecs /\ d.pages \in [PagesOf(d) -> Cells] BY DEF DevOk
<1>2. [p \in DOMAIN d.pages |-> IF p \in {} THEN "blank" ELSE d.pages[p]] = d.pages BY <1>1
<1>3. Erased(d, {}) = [d EXCEPT !.pages = d.pages] BY <1>2 DEF Erased
<1> QED BY <1>1, <1>3 DEF DevRecs

LEMMA PowerCycleStep ==
  ASSUME FlashInv, NEW n \in 0 .. EraseChunk - 1, FlashPowerCycle(n)
  PROVE  FlashInv'
<1> DEFINE j == flashJob
<1> DEFINE erasing == j.step \in {"erase", "bisect"}
<1>1. /\ DevOk(dev) /\ CommandInv(dev, j) /\ IntactInv(dev, j) /\ j \in JobRecs /\ ImageInv(dev, j)
      /\ EraseInv(dev, j, faults) /\ LevelInv(dev, j, faults)
  BY FlashParts
<1>2. PICK k \in Nat : k = j.k BY <1>1 DEF JobRecs
<1>3. PICK ps : ps = IF erasing THEN (k .. k + n - 1) \cap (Pages \ dev.wrp) ELSE {}
  OBVIOUS
<1>4. PICK d : d = Erased(dev, ps)
  OBVIOUS
<1>5. PICK f : f = [d EXCEPT !.fresh = FALSE]
  OBVIOUS
<1>6. PICK e : e = Booted(f) /\ dev' = e BY <1>2, <1>3, <1>4, <1>5 DEF FlashPowerCycle, Gone
<1>7. PICK s : s = IF j.step = "done" THEN j.said ELSE "gone"
  OBVIOUS
<1>8. PICK i : i = flashJob' /\ i = [j EXCEPT !.step = "done", !.said = s, !.cycled = TRUE]
  BY <1>7 DEF FlashPowerCycle, Gone
<1>9. faults' = faults BY DEF FlashPowerCycle, Gone
<1>10. DevOk(d) /\ SameBoard(dev, d) BY <1>1, <1>4, ErasedIs DEF SameBoard
<1>11. ~erasing => d.pages = dev.pages BY <1>1, <1>3, <1>4, ErasedNone
<1>12. erasing => Blanked(dev, d)
  <2>1. SUFFICES ASSUME erasing PROVE Blanked(dev, d)
    OBVIOUS
  <2>2. BlankBelow(dev, k)
    <3>1. CASE j.step = "erase" BY <1>1, <1>2, <3>1 DEF EraseInv
    <3>2. CASE j.step = "bisect"
      <4>1. PICK g \in Nat : g = j.good BY <1>1 DEF JobRecs
      <4>2. k + g <= dev.density /\ \A p \in 0 .. k + g - 1 : dev.pages[p] = "blank"
        BY <1>1, <1>2, <3>2, <4>1 DEF EraseInv, BlankBelow
      <4>3. dev.density \in Nat /\ \A p \in 0 .. k - 1 : p \in 0 .. k + g - 1 BY <1>1, FirstPage
      <4>4. k <= dev.density BY <4>2, <4>3
      <4> QED BY <4>2, <4>3, <4>4 DEF BlankBelow
    <3> QED BY <2>1, <3>1, <3>2
  <2>3. 0 \in PagesOf(dev) /\ 0 \notin dev.wrp /\ Pages = PagesOf(dev)
    BY <1>1, FirstPage DEF DevOk, Pages, PagesOf
  <2>a. n \in Int /\ EraseChunk \in Nat BY FlashAssumption
  <2>4. ASSUME k = 0, NEW p \in PagesOf(dev), p \in ps PROVE 0 \in ps
    <3>1. p \in k .. k + n - 1 BY <1>3, <2>1, <2>4
    <3>2. 0 \in k .. k + n - 1 BY <2>4, <2>a, <3>1
    <3> QED BY <1>3, <2>1, <2>3, <3>2
  <2> QED BY <1>1, <1>4, <2>2, <2>4, ErasedFrom
<1>13. /\ DevOk(f) /\ f.board = dev.board /\ f.density = dev.density /\ f.eeprom = dev.eeprom
       /\ f.rdp = dev.rdp /\ f.wrp = dev.wrp /\ f.pages = d.pages /\ ~f.fresh
  <2>1. d \in DevRecs BY <1>10 DEF DevOk
  <2>2. f \in DevRecs BY <1>5, <2>1 DEF DevRecs
  <2>3. /\ f.board = d.board /\ f.density = d.density /\ f.eeprom = d.eeprom
        /\ f.rdp = d.rdp /\ f.wrp = d.wrp /\ f.pages = d.pages
    BY <1>5, <2>1 DEF DevRecs
  <2>4. f.fresh = FALSE BY <1>5, <2>1 DEF DevRecs
  <2>5. DevOk(f) BY <1>10, <2>2, <2>3 DEF DevOk, PagesOf
  <2> QED BY <1>10, <2>3, <2>4, <2>5 DEF SameBoard
<1>14. DevOk(e) /\ Kept(f, e) BY <1>6, <1>13, BootedIs
<1>15. /\ e.board = dev.board /\ e.density = dev.density /\ e.eeprom = dev.eeprom
       /\ e.rdp = dev.rdp /\ e.wrp = dev.wrp /\ e.pages = d.pages /\ ~e.fresh /\ PagesOf(e) = PagesOf(dev)
  BY <1>13, <1>14 DEF Kept, PagesOf
<1>16. s \in {"", "ok"} \cup OnSays \cup OffSays \cup BadSays BY <1>1, <1>7 DEF JobRecs, BadSays
<1>17. i \in JobRecs BY <1>1, <1>8, <1>16 DEF JobRecs, JobSteps
<1>18. /\ i.via = j.via /\ i.began = j.began /\ i.sent = j.sent /\ i.step = "done" /\ i.said = s /\ i.cycled
  BY <1>1, <1>8 DEF JobRecs
<1>19. /\ i.op = j.op /\ i.yes = j.yes /\ i.len = j.len /\ i.erase = j.erase /\ i.verify = j.verify /\ i.run = j.run
  BY <1>1, <1>8 DEF JobRecs
<1>20. CommandInv(e, i) BY <1>1, <1>15, <1>18, <1>19 DEF CommandInv, InBoot, Changing
<1>21. IntactInv(e, i)
  <2>1. ASSUME e.board = "r2", ~i.began
        PROVE  \E c \in {"old", "blank"} : \A p \in PagesOf(e) : e.pages[p] = c
    <3>1. ~erasing BY <1>1, <1>18, <2>1 DEF CommandInv, Changing
    <3> QED BY <1>1, <1>11, <1>15, <1>18, <2>1, <3>1 DEF IntactInv
  <2> QED BY <1>18, <2>1 DEF IntactInv
<1>22. ImageInv(e, i)
  <2>1. CASE erasing
    <3>1. \A p \in PagesOf(dev) : dev.pages[p] \in {"old", "blank"} BY <1>1, <2>1 DEF ImageInv
    <3>2. /\ \A p \in PagesOf(dev) : e.pages[p] \in {"blank", dev.pages[p]}
          /\ e.pages[0] = "old" => \A p \in PagesOf(dev) : e.pages[p] = dev.pages[p]
      BY <1>12, <1>15, <2>1 DEF Blanked
    <3>3. \A p \in PagesOf(e) : e.pages[p] \in {"old", "blank"} BY <1>15, <3>1, <3>2
    <3>4. 0 \in PagesOf(dev) BY <1>1, FirstPage
    <3>5. (i.op = "flash" => i.erase) /\ e.pages[0] = "old" => \A p \in PagesOf(e) : e.pages[p] = "old"
      BY <1>1, <1>15, <1>19, <3>2, <3>4 DEF ImageInv
    <3>6. e.pages[0] \in {"old", "blank"} BY <1>15, <3>3, <3>4
    <3>7. i.said # "ok" /\ i.step = "done" BY <1>7, <1>18, <2>1
    <3> QED BY <3>3, <3>5, <3>6, <3>7, Zenon DEF ImageInv
  <2>2. CASE ~erasing
    <3>1. e.pages = dev.pages BY <1>11, <1>15, <2>2
    <3>2. i.step = "done" /\ (i.said = "ok" => j.said = "ok") BY <1>7, <1>18
    <3>3. i.op # "flash" => \A p \in PagesOf(e) : e.pages[p] \in {"old", "blank"}
      BY <1>1, <1>15, <1>19, <3>1 DEF ImageInv
    <3>4. /\ (i.op = "flash" => i.erase) /\ e.pages[0] = "old" => \A p \in PagesOf(e) : e.pages[p] = "old"
          /\ i.op = "flash" /\ i.erase /\ e.pages[0] \notin {"old", "blank"} =>
               \A p \in 1 .. i.len - 1 : e.pages[p] = "new" \/ (~i.verify /\ e.pages[p] = "bad")
      BY <1>1, <1>15, <1>19, <3>1 DEF ImageInv
    <3>5. i.op = "flash" /\ i.said = "ok" /\ i.verify => \A p \in 0 .. i.len - 1 : e.pages[p] = "new"
      BY <1>1, <1>19, <3>1, <3>2 DEF ImageInv
    <3> QED BY <1>18, <3>2, <3>3, <3>4, <3>5 DEF ImageInv
  <2> QED BY <2>1, <2>2
<1>23. EraseInv(e, i, faults')
  <2>1. ASSUME i.op = "erase", i.said = "ok", e.wrp = {}
        PROVE  BlankBelow(e, e.density)
    <3>1. j.step = "done" /\ j.said = "ok" BY <1>7, <1>18, <2>1
    <3>2. BlankBelow(dev, dev.density) BY <1>1, <1>15, <1>19, <2>1, <3>1 DEF EraseInv
    <3>3. e.pages = dev.pages BY <1>11, <1>15, <3>1
    <3> QED BY <1>15, <3>2, <3>3 DEF BlankBelow
  <2> QED BY <1>18, <2>1 DEF EraseInv
<1>24. LevelInv(e, i, faults')
  <2>1. s \in OnSays \cup OffSays => s = j.said BY <1>7 DEF OnSays, OffSays
  <2> QED BY <1>1, <1>15, <1>18, <2>1 DEF LevelInv
<1>25. FlashInvOf(e, i, faults') BY <1>14, <1>17, <1>20, <1>21, <1>22, <1>23, <1>24 DEF FlashInvOf
<1> QED BY <1>6, <1>8, <1>25 DEF FlashInv

\* The power goes in a write.
LEMMA TornStep ==
  ASSUME FlashInv, TornWrite
  PROVE  FlashInv'
<1> DEFINE j == flashJob
<1>1. /\ DevOk(dev) /\ CommandInv(dev, j) /\ j \in JobRecs /\ ImageInv(dev, j) BY FlashParts
<1>2. j.step = "write" /\ ~ReadBackFails BY DEF TornWrite
<1>3. j.op = "flash" /\ ~dev.fresh BY <1>1, <1>2 DEF CommandInv
<1>4. PICK k \in Nat, len \in Nat : k = j.k /\ len = j.len BY <1>1 DEF JobRecs
<1>5. PICK x : x = order(j.k)
  OBVIOUS
<1>6. x = (IF k < len - 1 THEN k + 1 ELSE 0) /\ k < len /\ k < dev.density
  BY <1>1, <1>2, <1>4, <1>5 DEF order, ImageInv
<1>7. x \in PagesOf(dev) /\ dev.density \in Nat BY <1>1, <1>5, FirstPage DEF TornWrite, Pages, PagesOf
<1>8. PICK d : d = Torn(dev, x)
  OBVIOUS
<1>9. /\ DevOk(d) /\ SameBoard(dev, d) /\ d.pages[x] = "torn"
      /\ \A p \in PagesOf(dev) \ {x} : d.pages[p] = dev.pages[p]
  BY <1>1, <1>7, <1>8, TornIs
<1>10. PICK e : e = Booted(d) /\ dev' = e BY <1>5, <1>8 DEF TornWrite
<1>11. DevOk(e) /\ Kept(d, e) BY <1>9, <1>10, BootedIs
<1>12. SameBoard(dev, e) /\ e.pages = d.pages BY <1>9, <1>11 DEF SameBoard, Kept
<1>13. PICK i : i = flashJob' /\ i = [j EXCEPT !.step = "done", !.said = "gone", !.cycled = TRUE]
  BY <1>2 DEF TornWrite, Gone
<1>14. i \in JobRecs BY <1>1, <1>13 DEF JobRecs, JobSteps, BadSays
<1>15. /\ i.via = j.via /\ i.began = j.began /\ i.sent = j.sent /\ i.step = "done" /\ i.said = "gone"
       /\ i.op = j.op /\ i.yes = j.yes /\ i.len = j.len /\ i.erase = j.erase /\ i.verify = j.verify
  BY <1>1, <1>13 DEF JobRecs
<1>16. CommandInv(e, i) BY <1>1, <1>12, <1>15 DEF CommandInv, SameBoard, InBoot, Changing
<1>17. i.began /\ i.cycled BY <1>1, <1>2, <1>13, <1>15 DEF CommandInv, Changing, JobRecs
<1>18. IntactInv(e, i) BY <1>15, <1>17 DEF IntactInv
<1>19. ASSUME i.erase
       PROVE  /\ e.pages[0] # "old"
              /\ e.pages[0] \notin {"old", "blank"} =>
                   \A p \in 1 .. len - 1 : e.pages[p] = "new" \/ (~i.verify /\ e.pages[p] = "bad")
  <2>1. dev.pages[0] = "blank" /\ \A p \in 1 .. k : dev.pages[p] \in {"new", "bad"}
    BY <1>1, <1>2, <1>4, <1>15, <1>19 DEF ImageInv
  <2>2. CASE x # 0
    <3>1. 0 \in PagesOf(dev) BY <1>1, FirstPage
    <3> QED BY <1>9, <1>12, <2>1, <2>2, <3>1
  <2>3. CASE x = 0
    <3>1. k = len - 1 BY <1>6, <2>3
    <3>2. ASSUME NEW p \in 1 .. len - 1 PROVE e.pages[p] = "new" \/ (~i.verify /\ e.pages[p] = "bad")
      <4>1. p \in 1 .. k /\ p \in PagesOf(dev) \ {x} /\ len > 1 BY <1>6, <1>7, <2>3, <3>1, <3>2 DEF PagesOf
      <4>2. e.pages[p] = dev.pages[p] /\ dev.pages[p] \in {"new", "bad"} BY <1>9, <1>12, <2>1, <4>1
      <4>3. j.verify => ~mismatch(1, len - 1) BY <1>2, <1>4, <3>1, <4>1 DEF ReadBackFails
      <4>4. j.verify => dev.pages[p] = "new" BY <3>2, <4>3 DEF mismatch
      <4> QED BY <1>15, <4>2, <4>4
    <3> QED BY <1>9, <1>12, <2>3, <3>2
  <2> QED BY <2>2, <2>3
<1>20. ImageInv(e, i) BY <1>3, <1>4, <1>15, <1>19 DEF ImageInv
<1>21. EraseInv(e, i, faults') BY <1>15 DEF EraseInv
<1>22. LevelInv(e, i, faults') BY <1>15 DEF LevelInv, OnSays, OffSays
<1> QED BY <1>10, <1>11, <1>13, <1>14, <1>16, <1>18, <1>20, <1>21, <1>22 DEF FlashInv, FlashInvOf

LEMMA FlashInit ==
  ASSUME FlInit
  PROVE  FlashInv
<1>1. PICK b \in Boards :
        /\ b.wrp \subseteq 0 .. b.density - 1 /\ (b.at = "boot" => b.board = "r1")
        /\ dev = Settled(b)
  BY DEF FlInit
<1>2. PICK t \in {"app", "boot"}, w \in {"r1", "r2"}, n \in Densities, f \in Densities, k \in BOOLEAN,
           c \in {"old", "blank"}, r \in BOOLEAN, x \in {{}, {EraseChunk + 2}}, s \in {1, 2}, l \in Layouts :
        b = [at |-> t, board |-> w, density |-> n, family |-> f, known |-> k, pages |-> [p \in 0 .. n - 1 |-> c],
             eeprom |-> "kept", rdp |-> r, fresh |-> FALSE, wrp |-> x, slow |-> s, layout |-> l]
  BY <1>1 DEF Boards
<1>3. PICK g : g = [p \in 0 .. n - 1 |-> c]
  OBVIOUS
<1>4. g \in [0 .. n - 1 -> Cells] /\ \A p \in 0 .. n - 1 : g[p] = c BY <1>3 DEF Cells
<1>5. b = [at |-> t, board |-> w, density |-> n, family |-> f, known |-> k, pages |-> g,
           eeprom |-> "kept", rdp |-> r, fresh |-> FALSE, wrp |-> x, slow |-> s, layout |-> l]
  BY <1>2, <1>3
<1>6. x \in SUBSET Nat /\ 0 \notin x BY FlashAssumption
<1>7. g \in UNION {[0 .. m - 1 -> Cells] : m \in Densities} BY <1>4
<1>8. b \in DevRecs BY <1>5, <1>6, <1>7 DEF DevRecs
<1>9. /\ b.at = t /\ b.board = w /\ b.density = n /\ b.pages = g /\ b.eeprom = "kept" /\ b.rdp = r
      /\ b.fresh = FALSE /\ b.wrp = x
  BY <1>5
<1>10. DevOk(b) BY <1>4, <1>6, <1>8, <1>9 DEF DevOk, PagesOf
<1>11. /\ DevOk(dev) /\ Kept(b, dev) /\ (dev.board = "r2" => Rests(dev))
  <2>1. CASE b.at = "boot"
    <3>1. dev = b /\ b.board = "r1" BY <1>1, <2>1 DEF Settled
    <3> QED BY <1>10, <3>1, KeptItself
  <2>2. CASE b.at # "boot"
    <3>1. dev = Booted(b) BY <1>1, <2>2 DEF Settled
    <3> QED BY <1>10, <3>1, BootedIs
  <2> QED BY <2>1, <2>2
<1>12. /\ dev.pages = g /\ PagesOf(dev) = 0 .. n - 1 /\ dev.eeprom = "kept" /\ ~dev.fresh
  BY <1>9, <1>11 DEF Kept, PagesOf
<1>13. \A p \in PagesOf(dev) : dev.pages[p] = c BY <1>4, <1>12
<1>14. PICK o \in FlashOps \cup OtherOps :
         flashJob = [op |-> o.op, len |-> o.len, erase |-> o.erase, verify |-> o.verify, run |-> o.run, kind |-> o.kind,
              yes |-> o.yes, via |-> "uart", step |-> "start", try |-> 1, k |-> 0, good |-> 0, bad |-> 0,
              began |-> FALSE, sent |-> FALSE, unsure |-> FALSE, said |-> "", cycled |-> FALSE]
  BY DEF FlInit
<1>15. /\ o.op \in JobOps /\ o.len \in Nat /\ o.erase \in BOOLEAN /\ o.verify \in BOOLEAN /\ o.run \in BOOLEAN
       /\ o.kind \in {"raw", "elf", "hex", "short", "stack", "vector"} /\ o.yes \in BOOLEAN
  <2>1. CASE o \in FlashOps
    <3>1. CASE o \in {[op |-> "flash", len |-> m, erase |-> e, verify |-> v, run |-> u, kind |-> "raw", yes |-> TRUE]
                        : m \in Images, e \in BOOLEAN, v \in BOOLEAN, u \in BOOLEAN}
      <4>1. PICK m \in Images, e \in BOOLEAN, v \in BOOLEAN, u \in BOOLEAN :
              o = [op |-> "flash", len |-> m, erase |-> e, verify |-> v, run |-> u, kind |-> "raw", yes |-> TRUE]
        BY <3>1
      <4>2. m \in Nat BY <4>1, FlashAssumption
      <4>3. o.op = "flash" /\ o.len = m /\ o.erase = e /\ o.verify = v /\ o.run = u /\ o.kind = "raw" /\ o.yes = TRUE
        BY <4>1
      <4> QED BY <4>1, <4>2, <4>3 DEF JobOps
    <3>2. CASE o \in {[op |-> "flash", len |-> 1, erase |-> TRUE, verify |-> TRUE, run |-> TRUE, kind |-> y, yes |-> TRUE]
                        : y \in {"elf", "hex", "short", "stack", "vector"}}
      <4>1. PICK y \in {"elf", "hex", "short", "stack", "vector"} :
              o = [op |-> "flash", len |-> 1, erase |-> TRUE, verify |-> TRUE, run |-> TRUE, kind |-> y, yes |-> TRUE]
        BY <3>2
      <4>2. o.op = "flash" /\ o.len = 1 /\ o.erase = TRUE /\ o.verify = TRUE /\ o.run = TRUE /\ o.kind = y /\ o.yes = TRUE
        BY <4>1
      <4> QED BY <4>1, <4>2 DEF JobOps
    <3> QED BY <2>1, <3>1, <3>2 DEF FlashOps
  <2>2. CASE o \in OtherOps
    <3>1. PICK q \in {"erase", "info", "protect", "unprotect"}, y \in BOOLEAN :
            o = [op |-> q, len |-> 0, erase |-> TRUE, verify |-> TRUE, run |-> TRUE, kind |-> "raw", yes |-> y]
      BY <2>2 DEF OtherOps
    <3>2. o.op = q /\ o.len = 0 /\ o.erase = TRUE /\ o.verify = TRUE /\ o.run = TRUE /\ o.kind = "raw" /\ o.yes = y
      BY <3>1
    <3> QED BY <3>1, <3>2 DEF JobOps
  <2> QED BY <1>14, <2>1, <2>2
<1> DEFINE j == flashJob
<1>16. j \in JobRecs BY <1>14, <1>15 DEF JobRecs, JobSteps
<1>17. /\ j.via = "uart" /\ j.step = "start" /\ j.said = "" /\ ~j.sent /\ ~j.began BY <1>14
<1> HIDE DEF j
<1>18. CommandInv(dev, j) BY <1>12, <1>17 DEF CommandInv, InBoot, Changing
<1>19. IntactInv(dev, j) BY <1>11, <1>13, <1>17 DEF IntactInv
<1>20. ImageInv(dev, j)
  <2>1. 0 \in PagesOf(dev) BY <1>11, FirstPage
  <2>2. dev.pages[0] \in {"old", "blank"} /\ \A p \in PagesOf(dev) : dev.pages[p] \in {"old", "blank"}
    BY <1>13, <2>1
  <2>3. dev.pages[0] = "old" => \A p \in PagesOf(dev) : dev.pages[p] = "old" BY <1>13, <2>1
  <2>4. j.step # "write" /\ j.step # "verify" /\ j.said # "ok" BY <1>17
  <2> QED BY <2>2, <2>3, <2>4, Zenon DEF ImageInv
<1>21. EraseInv(dev, j, faults) BY <1>17 DEF EraseInv
<1>22. LevelInv(dev, j, faults) BY <1>17 DEF LevelInv, OnSays, OffSays
<1> QED BY <1>11, <1>16, <1>18, <1>19, <1>20, <1>21, <1>22 DEF FlashInv, FlashInvOf, j

\* The invariant implies the properties.
LEMMA FlashInvSound ==
  ASSUME FlashInv
  PROVE  FlashSound
<1> DEFINE j == flashJob
<1>1. /\ DevOk(dev) /\ CommandInv(dev, j) /\ IntactInv(dev, j) /\ j \in JobRecs /\ ImageInv(dev, j)
      /\ EraseInv(dev, j, faults) /\ LevelInv(dev, j, faults)
  BY FlashParts
<1>2. Pages = PagesOf(dev) BY DEF Pages, PagesOf
<1>3. NeverTruncated
  <2>1. SUFFICES ASSUME dev.at = "app", j.op = "flash" => j.erase
                 PROVE  /\ dev.pages[0] = "old" => \A p \in Pages : dev.pages[p] = "old"
                        /\ dev.pages[0] \notin {"old", "blank"} => \A p \in 1 .. j.len - 1 :
                             dev.pages[p] \in {"new"} \cup (IF j.verify THEN {} ELSE {"bad"})
    BY DEF NeverTruncated
  <2>2. dev.pages[0] = "old" => \A p \in Pages : dev.pages[p] = "old" BY <1>1, <1>2, <2>1 DEF ImageInv
  <2>3. ASSUME dev.pages[0] \notin {"old", "blank"}, NEW p \in 1 .. j.len - 1
        PROVE  dev.pages[p] \in {"new"} \cup (IF j.verify THEN {} ELSE {"bad"})
    <3>1. j.op = "flash" BY <1>1, <2>3, FirstPage DEF ImageInv
    <3>2. dev.pages[p] = "new" \/ (~j.verify /\ dev.pages[p] = "bad") BY <1>1, <2>1, <2>3, <3>1 DEF ImageInv
    <3> QED BY <3>2
  <2> QED BY <2>2, <2>3
<1>4. OkIsDone
  <2>1. SUFFICES ASSUME ~j.cycled
                 PROVE  /\ j.op = "flash" /\ j.said = "ok" /\ j.verify =>
                             /\ \A p \in 0 .. j.len - 1 : dev.pages[p] = "new"
                             /\ dev.at = IF j.run THEN "app" ELSE "boot"
                        /\ j.op = "erase" /\ j.said = "ok" /\ dev.wrp = {} => \A p \in Pages : dev.pages[p] = "blank"
                        /\ j.said \in {"on", "unconfirmed on"} => dev.rdp
                        /\ j.said \in {"off", "unconfirmed off"} => ~dev.rdp
    BY DEF OkIsDone
  <2>2. j.op = "flash" /\ j.said = "ok" /\ j.verify =>
             /\ \A p \in 0 .. j.len - 1 : dev.pages[p] = "new"
             /\ dev.at = IF j.run THEN "app" ELSE "boot"
    BY <1>1, <2>1 DEF ImageInv
  <2>3. j.op = "erase" /\ j.said = "ok" /\ dev.wrp = {} => \A p \in Pages : dev.pages[p] = "blank"
    BY <1>1, <1>2 DEF EraseInv, BlankBelow, PagesOf
  <2>4. (j.said \in {"on", "unconfirmed on"} => dev.rdp) /\ (j.said \in {"off", "unconfirmed off"} => ~dev.rdp)
    BY <1>1 DEF LevelInv, OnSays, OffSays
  <2> QED BY <2>2, <2>3, <2>4
<1>5. IntactRuns
  <2>1. SUFFICES ASSUME j.said # "", ~j.cycled, ~j.began, dev.board = "r2"
                 PROVE  dev = Booted(dev) /\ \E c \in {"old", "blank"} : dev.pages = flashMap(c)
    BY DEF IntactRuns, flashRan
  <2>2. Rests(dev) BY <1>1, <2>1 DEF IntactInv
  <2>3. PICK c \in {"old", "blank"} : \A p \in PagesOf(dev) : dev.pages[p] = c BY <1>1, <2>1 DEF IntactInv
  <2>4. dev.pages \in [Pages -> Cells] BY <1>1, <1>2 DEF DevOk
  <2>5. dev.pages = flashMap(c) BY <1>2, <2>3, <2>4 DEF flashMap
  <2> QED BY <1>1, <2>2, <2>5, RestingIs
<1>6. EepromKept BY <1>1 DEF EepromKept, CommandInv
<1> QED BY <1>3, <1>4, <1>5, <1>6 DEF FlashSound

LEMMA FlashStep ==
  ASSUME FlashInv, FlNext
  PROVE  FlashInv'
<1>1. CASE Pick BY <1>1, PickStep
<1>2. CASE \E h \in BOOLEAN : enter_dfu(h) BY <1>2, EnterDfuStep
<1>3. ASSUME NEW a \in Answers,
             \/ connect(a) \/ get_id(a) \/ dfu_open(a) \/ readout_protected(a) \/ erase_pages(a)
             \/ erase_span(a) \/ erase_chip(a) \/ bisect_erase_boundary(a) \/ EraseEnds(a)
             \/ Finish(a) \/ leave(a)
      PROVE  FlashInv'
  BY <1>3, ConnectStep, GetIdStep, DfuOpenStep, ReadoutStep, ErasePagesSteps, EraseChipStep, BisectStep,
     EraseEndsStep, FinishStep
<1>4. ASSUME NEW a \in Answers, NEW b \in Answers, probe(a, b) \/ set_level(a, b)
      PROVE  FlashInv'
  BY <1>4, ProbeStep, SetLevelStep
<1>5. ASSUME NEW a \in Answers, NEW good \in BOOLEAN, write_image(a, good) \/ dfu_write(a, good)
      PROVE  FlashInv'
  BY <1>5, WriteStep
<1>6. CASE \E n \in 0 .. EraseChunk - 1 : FlashPowerCycle(n) BY <1>6, PowerCycleStep
<1>7. CASE TornWrite BY <1>7, TornStep
<1> QED BY <1>1, <1>2, <1>3, <1>4, <1>5, <1>6, <1>7 DEF FlNext

(***************************************************************************)
(* Whatever the line loses and whenever the power goes, in the middle of   *)
(* an erase or of a write too, a board never runs with a part of its image *)
(* missing, except the end of the first block when the power went in the   *)
(* write of that block, the last one; a command that ends well has done what it says, one that *)
(* fails before its first change leaves a UART board running what it ran,  *)
(* and only a confirmed unprotect erases the data EEPROM                   *)
(* (crates/flasher/src/flash.rs, cli/src/main.rs, target.rs).              *)
(***************************************************************************)
THEOREM FlasherIsSound == MCSpec => []FlashHolds
<1> DEFINE Inv == part = "flasher" => FlashInv
<1>1. MCInit => Inv BY FlashInit DEF MCInit
<1>2. Inv /\ [MCNext]_<<svcVars, cliVars, flVars, sesVars, histVars, ctVars, gtVars, part>> => Inv'
  <2>1. SUFFICES ASSUME Inv, MCNext \/ UNCHANGED <<flVars, part>>, part' = "flasher"
                 PROVE  FlashInv'
    BY DEF flVars
  <2>2. CASE part = "flasher" /\ FlNext BY <2>1, <2>2, FlashStep
  <2>3. CASE UNCHANGED flVars /\ UNCHANGED part BY <2>1, <2>3 DEF flVars, FlashInv
  <2>4. part' = part BY <2>1 DEF MCNext, Still
  <2>5. \/ part = "flasher" /\ FlNext
        \/ UNCHANGED flVars
    BY <2>1, <2>4 DEF MCNext
  <2> QED BY <2>2, <2>3, <2>4, <2>5
<1>3. Inv => FlashHolds BY FlashInvSound DEF FlashHolds
<1> QED BY <1>1, <1>2, <1>3, PTL DEF MCSpec

-----------------------------------------------------------------------------
(***************************************************************************)
(* The client: the inductive invariant                                     *)
(***************************************************************************)

NodeCmds == {"by name", "by address", "ota"}
CableCmds == {"cable", "cable from the screen"}
Waits == {"resolve", "op", "describe", "add", "ota", "rename", "rollback"}
CliSteps == Waits \cup {"idle", "end", "probe", "provision", "shell"}
Exits == {"", "ok", "error", "rolled back", "timeout", "wrong firmware", "device result"}
CliCmdNames == {"none", "shell"} \cup NodeCmds \cup CableCmds
CliRecs ==
  [cmd : CliCmdNames, step : CliSteps, id : Nat, key : Nat,
   exit : Exits, worst : {0, 1}]
Asked == [id : Nat, op : {"node_list", "change", "node_add_ota", "describe", "node_add", "node_remove"}, key : Nat]
Replies == [id : Nat, ok : BOOLEAN, joined : BOOLEAN]
CableOut == [req : {"describe", "provision"}, key : Nat]
CableIn == [req : {"describe", "provision"}, ok : BOOLEAN]

ClientTypes(c, rq, rs, gk, nk, tn, fn, dn, nx) ==
  /\ c \in CliRecs /\ rq \in Seq(Asked) /\ rs \in Seq(Replies) /\ gk \in Nat /\ nk \in Nat
  /\ tn \in Seq(CableOut) /\ fn \in Seq(CableIn) /\ dn \in SUBSET Nat /\ nx \in Nat

\* A step belongs to a command.
StepInv(c) ==
  /\ c.step \in {"probe", "provision", "describe", "add", "rollback"} => c.cmd \in CableCmds
  /\ c.step \in {"resolve", "op", "ota", "rename"} => c.cmd \in NodeCmds
  /\ c.step = "shell" => c.cmd = "shell"

\* Every id is used once.
Earlier(s, n) == \A i \in 1 .. Len(s) : s[i].id < n
IdInv(c, rq, rs, nx) ==
  /\ c.id < nx
  /\ Earlier(rq, nx) /\ Earlier(rs, nx)

\* The request waited for is the last one made: once it is answered there is no other,
\* and a good answer says that it was carried out.
Carried(c, gk, dn) ==
  /\ c.step \in {"op", "rename"} => c.id \in dn
  /\ c.step = "add" => gk = c.key
Fits(c, r) ==
  /\ c.step \in {"op", "rename"} => r.op = "change"
  /\ c.step = "add" => r.op = "node_add" /\ r.key = c.key
WaitInv(c, rq, rs, gk, dn) ==
  c.step \in Waits =>
    /\ \A i \in 1 .. Len(rq) : rq[i].id = c.id => i = Len(rq) /\ Fits(c, rq[i])
    /\ \A i \in 1 .. Len(rs) : rs[i].id = c.id => rq = <<>> /\ (rs[i].ok => Carried(c, gk, dn))

\* The cable carries one frame, of the step the command is at.
Quiet(step, fn) == step \in {"describe", "add"} => fn = <<>>
CableInv(c, nk, tn, fn) ==
  /\ c.step \notin {"probe", "provision"} => tn = <<>>
  /\ Quiet(c.step, fn)
  /\ c.step \in {"probe", "provision"} =>
       \/ tn = <<>> /\ fn = <<>>
       \/ Len(tn) = 1 /\ fn = <<>> /\ tn[1].req = "provision" /\ tn[1].key = c.key /\ c.step = "provision"
       \/ Len(tn) = 1 /\ fn = <<>> /\ tn[1].req = "describe" /\ c.step = "probe"
       \/ tn = <<>> /\ Len(fn) = 1 /\ fn[1].req = "describe" /\ c.step = "probe"
       \/ tn = <<>> /\ Len(fn) = 1 /\ fn[1].req = "provision" /\ c.step = "provision" /\ (fn[1].ok => nk = c.key)

\* The gateway has the key while the node is given it, and at the end.
SharedInv(c, rq, gk, nk) ==
  /\ c.step = "provision" => rq = <<>> /\ gk = c.key
  /\ c.step = "end" /\ c.exit = "ok" /\ c.cmd \in CableCmds => rq = <<>> /\ gk = c.key /\ nk = c.key

DoneInv(c, dn) == c.step = "end" /\ c.exit = "ok" /\ c.cmd \in NodeCmds => c.id \in dn

ClientInvOf(c, rq, rs, gk, nk, tn, fn, dn, nx) ==
  /\ ClientTypes(c, rq, rs, gk, nk, tn, fn, dn, nx) /\ StepInv(c) /\ IdInv(c, rq, rs, nx)
  /\ WaitInv(c, rq, rs, gk, dn) /\ CableInv(c, nk, tn, fn) /\ SharedInv(c, rq, gk, nk) /\ DoneInv(c, dn)

FrontInv(fr) ==
  /\ fr \in [Peers -> [at : {"none", "handshake", "proxied"}, age : Nat]]
  /\ \A p \in Peers : fr[p].at = "handshake" => fr[p].age < HandshakeTime
  /\ Cardinality({p \in Peers : fr[p].at = "handshake"}) <= Handshakes

ClientInv ==
  /\ ClientInvOf(cli, reqs, rsps, gwKey, nodeKey, toNode, fromNode, done, nextId)
  /\ minted \in Nat /\ FrontInv(front)

-----------------------------------------------------------------------------
(***************************************************************************)
(* The client: sequences, the ends of a command and its requests           *)
(***************************************************************************)

LEMMA AppendIs ==
  ASSUME NEW S, NEW s \in Seq(S), NEW x \in S, NEW t, t = Append(s, x)
  PROVE  /\ t \in Seq(S) /\ Len(s) \in Nat /\ Len(t) = Len(s) + 1 /\ t[Len(t)] = x
         /\ \A i \in 1 .. Len(s) : t[i] = s[i]
         /\ \A i \in 1 .. Len(t) : i = Len(t) \/ i \in 1 .. Len(s)
  OBVIOUS

LEMMA TailIs ==
  ASSUME NEW S, NEW s \in Seq(S), s # <<>>, NEW t, t = Tail(s)
  PROVE  /\ t \in Seq(S) /\ Len(s) \in Nat /\ Len(s) >= 1 /\ Len(t) = Len(s) - 1
         /\ \A i \in 1 .. Len(t) : t[i] = s[i + 1] /\ i + 1 \in 1 .. Len(s)
         /\ Head(s) = s[1] /\ Head(s) \in S
  OBVIOUS

LEMMA EmptyIs ==
  ASSUME NEW S, NEW s \in Seq(S)
  PROVE  s = <<>> <=> Len(s) = 0
  OBVIOUS

LEMMA TailOfOne ==
  ASSUME NEW S, NEW s \in Seq(S), 1 = Len(s)
  PROVE  Tail(s) = <<>>
<1>1. s # <<>> BY EmptyIs
<1>2. PICK t : t = Tail(s)
  OBVIOUS
<1>3. t \in Seq(S) /\ Len(t) = Len(s) - 1 BY <1>1, <1>2, TailIs
<1> QED BY <1>2, <1>3, EmptyIs

\* The command ends.
Exiting(c, code) == [c EXCEPT !.step = "end", !.exit = code]
LEMMA ExitIs ==
  ASSUME NEW c \in CliRecs, NEW code \in Exits,
         NEW e, e = Exiting(c, code)
  PROVE  e \in CliRecs /\ e.step = "end" /\ e.exit = code /\ e.cmd = c.cmd /\ e.id = c.id /\ e.key = c.key
<1>1. e \in CliRecs BY DEF CliRecs, CliSteps, Exiting
<1>2. e.step = "end" /\ e.exit = code /\ e.cmd = c.cmd /\ e.id = c.id /\ e.key = c.key
  BY DEF CliRecs, Exiting
<1> QED BY <1>1, <1>2

LEMMA ClientEnds ==
  ASSUME NEW c, NEW rq, NEW rs, NEW gk, NEW nk, NEW tn, NEW fn, NEW dn, NEW nx,
         ClientInvOf(c, rq, rs, gk, nk, tn, fn, dn, nx),
         NEW e \in CliRecs, e.step = "end", e.id = c.id,
         NEW ss \in Seq(Replies), Earlier(ss, nx),
         NEW gn \in Seq(CableIn),
         e.exit = "ok" /\ e.cmd \in CableCmds => rq = <<>> /\ gk = e.key /\ nk = e.key,
         e.exit = "ok" /\ e.cmd \in NodeCmds => e.id \in dn
  PROVE  ClientInvOf(e, rq, ss, gk, nk, <<>>, gn, dn, nx)
<1>1. ClientTypes(e, rq, ss, gk, nk, <<>>, gn, dn, nx)
  <2>1. <<>> \in Seq(CableOut)
    OBVIOUS
  <2> QED BY <2>1 DEF ClientTypes, ClientInvOf
<1>2. StepInv(e) BY DEF StepInv
<1>3. IdInv(e, rq, ss, nx) BY DEF ClientInvOf, IdInv, Earlier
<1>4. WaitInv(e, rq, ss, gk, dn) BY DEF WaitInv, Waits
<1>5. CableInv(e, nk, <<>>, gn) BY DEF CableInv, Quiet
<1>6. SharedInv(e, rq, gk, nk) /\ DoneInv(e, dn) BY DEF SharedInv, DoneInv
<1> QED BY <1>1, <1>2, <1>3, <1>4, <1>5, <1>6 DEF ClientInvOf

Joined(t, s, x) == t = Append(s, x)

\* A request is made: it is the last, under an id nobody had.
LEMMA ClientAsks ==
  ASSUME NEW c, NEW rq, NEW rs, NEW gk, NEW nk, NEW tn, NEW fn, NEW dn, NEW nx,
         ClientInvOf(c, rq, rs, gk, nk, tn, fn, dn, nx),
         NEW e \in CliRecs, e.step \in Waits, e.id = nx, StepInv(e),
         NEW r \in Asked, r.id = nx, Fits(e, r), NEW qq, Joined(qq, rq, r),
         NEW ss \in Seq(Replies), Earlier(ss, nx),
         NEW gn \in Seq(CableIn), Quiet(e.step, gn),
         NEW nn \in Nat, nx < nn
  PROVE  ClientInvOf(e, qq, ss, gk, nk, <<>>, gn, dn, nn)
<1>1. /\ rq \in Seq(Asked) /\ nx \in Nat /\ gk \in Nat /\ nk \in Nat /\ dn \in SUBSET Nat
      /\ \A i \in 1 .. Len(rq) : rq[i].id < nx
  BY DEF ClientInvOf, ClientTypes, IdInv, Earlier
<1>2. /\ qq \in Seq(Asked) /\ Len(rq) \in Nat /\ Len(qq) = Len(rq) + 1 /\ qq[Len(qq)] = r
      /\ \A i \in 1 .. Len(rq) : qq[i] = rq[i]
      /\ \A i \in 1 .. Len(qq) : i = Len(qq) \/ i \in 1 .. Len(rq)
  BY <1>1, AppendIs DEF Joined
<1>3. ClientTypes(e, qq, ss, gk, nk, <<>>, gn, dn, nn)
  <2>1. <<>> \in Seq(CableOut) /\ nn \in Nat BY <1>1
  <2> QED BY <1>1, <1>2, <2>1 DEF ClientTypes
<1>4. IdInv(e, qq, ss, nn)
  <2>1. e.id < nn BY <1>1
  <2>2. ASSUME NEW i \in 1 .. Len(qq) PROVE qq[i].id < nn
    <3>1. CASE i = Len(qq) BY <1>1, <1>2, <3>1
    <3>2. CASE i \in 1 .. Len(rq)
      <4>1. PICK m : m = rq[i].id /\ m = qq[i].id /\ m < nx BY <1>1, <1>2, <3>2
      <4>a. rq[i] \in Asked BY <1>1, <3>2
      <4>2. m \in Nat BY <4>1, <4>a DEF Asked
      <4> QED BY <1>1, <4>1, <4>2
    <3> QED BY <1>2, <3>1, <3>2
  <2>3. ASSUME NEW i \in 1 .. Len(ss) PROVE ss[i].id < nn
    <3>1. PICK m : m = ss[i].id /\ m < nx BY DEF Earlier
    <3>a. ss[i] \in Replies
      OBVIOUS
    <3>2. m \in Nat BY <3>1, <3>a DEF Replies
    <3> QED BY <1>1, <3>1, <3>2
  <2> QED BY <2>1, <2>2, <2>3 DEF IdInv, Earlier
<1>5. WaitInv(e, qq, ss, gk, dn)
  <2>1. ASSUME NEW i \in 1 .. Len(qq), qq[i].id = e.id PROVE i = Len(qq) /\ Fits(e, qq[i])
    <3>1. i \notin 1 .. Len(rq) BY <1>1, <1>2, <2>1, SMTT(30)
    <3> QED BY <1>2, <2>1, <3>1
  <2>2. ASSUME NEW i \in 1 .. Len(ss) PROVE ss[i].id # e.id BY <1>1 DEF Earlier
  <2> QED BY <2>1, <2>2 DEF WaitInv
<1>6. e.step \notin {"probe", "provision", "end"} BY DEF Waits
<1>7. CableInv(e, nk, <<>>, gn) /\ SharedInv(e, qq, gk, nk) /\ DoneInv(e, dn)
  BY <1>6 DEF CableInv, SharedInv, DoneInv
<1> QED BY <1>3, <1>4, <1>5, <1>7 DEF ClientInvOf

\* What the invariant says, by name.
LEMMA ClientParts ==
  ASSUME ClientInv
  PROVE  /\ ClientInvOf(cli, reqs, rsps, gwKey, nodeKey, toNode, fromNode, done, nextId)
         /\ cli \in CliRecs /\ reqs \in Seq(Asked) /\ rsps \in Seq(Replies) /\ gwKey \in Nat /\ nodeKey \in Nat
         /\ toNode \in Seq(CableOut) /\ fromNode \in Seq(CableIn) /\ done \in SUBSET Nat /\ nextId \in Nat
         /\ StepInv(cli) /\ IdInv(cli, reqs, rsps, nextId) /\ WaitInv(cli, reqs, rsps, gwKey, done)
         /\ CableInv(cli, nodeKey, toNode, fromNode) /\ SharedInv(cli, reqs, gwKey, nodeKey) /\ DoneInv(cli, done)
         /\ minted \in Nat /\ FrontInv(front)
  BY DEF ClientInv, ClientInvOf, ClientTypes

\* A request of a step belongs to a command.
Belongs(step, op, cmd) ==
  /\ step \in {"describe", "add", "rollback"} => cmd \in CableCmds
  /\ step \in {"resolve", "op", "ota", "rename"} => cmd \in NodeCmds
  /\ step \in {"op", "rename"} => op = "change"
  /\ step = "add" => op = "node_add"

\* A step of the client's command.
LEMMA AskStep ==
  ASSUME ClientInv, NEW op, NEW step \in Waits, NEW key \in Nat, Rpc(op, step, key),
         NEW r, r = [id |-> nextId, op |-> op, key |-> key], r \in Asked,
         Belongs(step, op, cli.cmd),
         toNode' = <<>>, fromNode' \in Seq(CableIn), Quiet(step, fromNode'),
         rsps' \in Seq(Replies), Earlier(rsps', nextId),
         minted' \in Nat, gwKey' = gwKey, nodeKey' = nodeKey, done' = done, front' = front
  PROVE  ClientInv'
<1>1. /\ ClientInvOf(cli, reqs, rsps, gwKey, nodeKey, toNode, fromNode, done, nextId)
      /\ cli \in CliRecs /\ nextId \in Nat /\ FrontInv(front)
  BY ClientParts
<1>2. PICK e : e = [cli EXCEPT !.step = step, !.id = nextId, !.key = key] /\ cli' = e BY DEF Rpc
<1>3. step \in CliSteps BY DEF CliSteps
<1>4. e \in CliRecs BY <1>1, <1>2, <1>3 DEF CliRecs
<1>5. e.step = step /\ e.id = nextId /\ e.key = key /\ e.cmd = cli.cmd BY <1>1, <1>2 DEF CliRecs
<1>6. PICK q : q = reqs' /\ q = Append(reqs, r) BY DEF Rpc
<1>7. PICK n : n = nextId' /\ n = nextId + 1 BY DEF Rpc
<1>8. StepInv(e)
  <2>1. step \notin {"probe", "provision", "shell"} BY DEF Waits
  <2> QED BY <1>5, <2>1 DEF StepInv, Belongs
<1>9. r.id = nextId /\ Fits(e, r) BY <1>5 DEF Fits, Belongs
<1>10. PICK ss : ss = rsps'
  OBVIOUS
<1>11. PICK gn : gn = fromNode'
  OBVIOUS
<1>a. ss \in Seq(Replies) /\ Earlier(ss, nextId) BY <1>10
<1>b. gn \in Seq(CableIn) /\ Quiet(e.step, gn) BY <1>5, <1>11
<1>c. e.step \in Waits /\ e.id = nextId BY <1>5
<1>12. ClientInvOf(e, q, ss, gwKey, nodeKey, <<>>, gn, done, n)
  <2>1. Joined(q, reqs, r) /\ n \in Nat /\ nextId < n /\ r \in Asked BY <1>1, <1>6, <1>7 DEF Joined
  <2>2. PICK c, g, k, o, f, d : c = cli /\ g = gwKey /\ k = nodeKey /\ o = toNode /\ f = fromNode /\ d = done
    OBVIOUS
  <2>3. ClientInvOf(c, reqs, rsps, g, k, o, f, d, nextId) BY <1>1, <2>2
  <2>4. ClientInvOf(e, q, ss, g, k, <<>>, gn, d, n)
    BY <1>4, <1>c, <1>8, <1>9, <1>a, <1>b, <2>1, <2>3, ClientAsks
  <2> QED BY <2>2, <2>4
<1> QED BY <1>1, <1>2, <1>6, <1>7, <1>10, <1>11, <1>12 DEF ClientInv

LEMMA ExitStep ==
  ASSUME ClientInv, NEW code \in Exits, Exit(code),
         toNode' = <<>>, fromNode' \in Seq(CableIn),
         rsps' \in Seq(Replies), Earlier(rsps', nextId),
         code = "ok" /\ cli.cmd \in CableCmds => reqs = <<>> /\ gwKey = cli.key /\ nodeKey = cli.key,
         code = "ok" /\ cli.cmd \in NodeCmds => cli.id \in done,
         reqs' = reqs, nextId' = nextId, minted' = minted, gwKey' = gwKey, nodeKey' = nodeKey, done' = done,
         front' = front
  PROVE  ClientInv'
<1>1. /\ ClientInvOf(cli, reqs, rsps, gwKey, nodeKey, toNode, fromNode, done, nextId)
      /\ cli \in CliRecs /\ nextId \in Nat /\ minted \in Nat /\ FrontInv(front)
  BY ClientParts
<1>2. PICK e : e = [cli EXCEPT !.step = "end", !.exit = code] /\ cli' = e BY DEF Exit
<1>3. e \in CliRecs /\ e.step = "end" /\ e.exit = code /\ e.cmd = cli.cmd /\ e.id = cli.id /\ e.key = cli.key
  <2>2. e = Exiting(cli, code) /\ cli \in CliRecs BY <1>1, <1>2 DEF Exiting
  <2> QED BY <2>2, ExitIs
<1>10. PICK ss : ss = rsps'
  OBVIOUS
<1>11. PICK gn : gn = fromNode'
  OBVIOUS
<1>12. ClientInvOf(e, reqs, ss, gwKey, nodeKey, <<>>, gn, done, nextId)
  BY <1>1, <1>3, <1>10, <1>11, ClientEnds
<1> QED BY <1>1, <1>2, <1>10, <1>11, <1>12 DEF ClientInv

-----------------------------------------------------------------------------
(***************************************************************************)
(* The client: its steps                                                   *)
(***************************************************************************)

\* The answers left when one is taken.
LEMMA RestOfAnswers ==
  ASSUME ClientInv, rsps # <<>>, rsps' = Tail(rsps)
  PROVE  /\ rsps' \in Seq(Replies) /\ Earlier(rsps', nextId)
         /\ Head(rsps) = rsps[1] /\ 1 \in 1 .. Len(rsps) /\ Head(rsps) \in Replies
<1>1. rsps \in Seq(Replies) /\ \A i \in 1 .. Len(rsps) : rsps[i].id < nextId
  BY ClientParts DEF IdInv, Earlier
<1>2. PICK t : t = rsps'
  OBVIOUS
<1>3. /\ t \in Seq(Replies) /\ Len(rsps) \in Nat /\ Len(rsps) >= 1 /\ Len(t) = Len(rsps) - 1
      /\ \A i \in 1 .. Len(t) : t[i] = rsps[i + 1] /\ i + 1 \in 1 .. Len(rsps)
      /\ Head(rsps) = rsps[1] /\ Head(rsps) \in Replies
  BY <1>1, <1>2, TailIs
<1>4. Earlier(t, nextId) BY <1>1, <1>3 DEF Earlier
<1> QED BY <1>2, <1>3, <1>4

LEMMA AllAnswers ==
  ASSUME ClientInv
  PROVE  rsps \in Seq(Replies) /\ Earlier(rsps, nextId)
  BY ClientParts DEF IdInv

LEMMA TakeAnswerStep ==
  ASSUME ClientInv, TakeAnswer
  PROVE  ClientInv'
<1>1. /\ cli \in CliRecs /\ reqs \in Seq(Asked) /\ gwKey \in Nat /\ nodeKey \in Nat
      /\ toNode \in Seq(CableOut) /\ fromNode \in Seq(CableIn) /\ done \in SUBSET Nat /\ nextId \in Nat
      /\ StepInv(cli) /\ IdInv(cli, reqs, rsps, nextId) /\ WaitInv(cli, reqs, rsps, gwKey, done)
      /\ CableInv(cli, nodeKey, toNode, fromNode) /\ SharedInv(cli, reqs, gwKey, nodeKey) /\ DoneInv(cli, done)
      /\ minted \in Nat /\ FrontInv(front)
  BY ClientParts
<1>2. /\ cliWaiting /\ rsps # <<>> /\ rsps' = Tail(rsps)
      /\ UNCHANGED <<fromNode, cliCmds, gwKey, nodeKey, done, front>>
  BY DEF TakeAnswer, keepWorld
<1>3. cli.step \in Waits /\ cli.step \notin {"probe", "provision", "end"} BY <1>2 DEF cliWaiting, Waits
<1>4. toNode = <<>> BY <1>1, <1>3 DEF CableInv
<1>5. /\ rsps' \in Seq(Replies) /\ Earlier(rsps', nextId)
      /\ Head(rsps) = rsps[1] /\ 1 \in 1 .. Len(rsps) /\ Head(rsps) \in Replies
  BY <1>2, RestOfAnswers
<1>6. CASE ~matches(Head(rsps))
  <2>1. UNCHANGED <<cli, reqs, nextId, minted, toNode>> BY <1>6 DEF TakeAnswer
  <2>2. PICK t : t = rsps' /\ t = Tail(rsps) BY <1>2
  <2>3. rsps \in Seq(Replies) BY ClientParts
  <2>4. /\ t \in Seq(Replies)
        /\ \A i \in 1 .. Len(t) : t[i] = rsps[i + 1] /\ i + 1 \in 1 .. Len(rsps)
    BY <1>2, <2>2, <2>3, TailIs
  <2>5. Earlier(t, nextId) BY <1>5, <2>2
  <2>6. WaitInv(cli, reqs, t, gwKey, done) BY <1>1, <1>3, <2>4 DEF WaitInv
  <2>7. IdInv(cli, reqs, t, nextId) BY <1>1, <2>5 DEF IdInv
  <2>8. ClientInvOf(cli, reqs, t, gwKey, nodeKey, toNode, fromNode, done, nextId)
    BY <1>1, <2>4, <2>6, <2>7 DEF ClientInvOf, ClientTypes
  <2> QED BY <1>1, <1>2, <2>1, <2>2, <2>8 DEF ClientInv
<1>7. CASE matches(Head(rsps))
  <2>1. PICK r \in Replies : r = Head(rsps) /\ r = rsps[1] BY <1>5
  <2>2. r.id = cli.id BY <1>7, <2>1 DEF matches
  <2>3. reqs = <<>> /\ (r.ok => Carried(cli, gwKey, done)) BY <1>1, <1>3, <1>5, <2>1, <2>2 DEF WaitInv
  <2>4. Answered(r.ok, r.joined) BY <1>7, <2>1 DEF TakeAnswer
  <2>5. toNode' = <<>> => fromNode' \in Seq(CableIn) /\ rsps' \in Seq(Replies) /\ UNCHANGED <<gwKey, nodeKey, done, front>>
    BY <1>1, <1>2, <1>5
  <2>6. ASSUME NEW code \in {"error", "rolled back"}, Exit(code), UNCHANGED <<reqs, nextId, minted, toNode>>
        PROVE  ClientInv'
    <3>1. code # "ok" /\ code \in Exits BY <2>6 DEF Exits
    <3>2. toNode' = <<>> BY <1>4, <2>6
    <3> QED BY <1>2, <1>5, <2>5, <2>6, <3>1, <3>2, ExitStep
  <2>7. CASE ~r.ok /\ cli.step # "rollback" BY <2>4, <2>6, <2>7 DEF Answered
  <2>8. CASE cli.step = "rollback"
    <3>1. Exit("rolled back") /\ UNCHANGED <<reqs, nextId, minted, toNode>> BY <2>4, <2>8 DEF Answered
    <3> QED BY <2>6, <3>1
  <2>9. CASE r.ok /\ cli.step = "resolve"
    <3>1. Rpc("change", "op", 0) /\ UNCHANGED <<minted, toNode>> BY <2>4, <2>9 DEF Answered
    <3>2. PICK q : q = [id |-> nextId, op |-> "change", key |-> 0]
      OBVIOUS
    <3>3. q \in Asked BY <1>1, <3>2 DEF Asked
    <3>4. Belongs("op", "change", cli.cmd) /\ "op" \in Waits /\ Quiet("op", fromNode')
      BY <1>1, <2>9 DEF StepInv, Waits, Belongs, Quiet
    <3>5. toNode' = <<>> /\ minted' \in Nat BY <1>1, <1>4, <3>1
    <3> QED BY <1>5, <2>5, <3>1, <3>2, <3>3, <3>4, <3>5, AskStep
  <2>10. CASE r.ok /\ cli.step = "describe"
    <3>1. minted' = minted + 1 /\ Rpc("node_add", "add", minted + 1) /\ UNCHANGED toNode
      BY <2>4, <2>10 DEF Answered
    <3>a. PICK m \in Nat : m = minted + 1 BY <1>1
    <3>2. PICK q : q = [id |-> nextId, op |-> "node_add", key |-> m]
      OBVIOUS
    <3>3. q \in Asked BY <1>1, <3>2 DEF Asked
    <3>4. Belongs("add", "node_add", cli.cmd) /\ "add" \in Waits /\ Quiet("add", fromNode')
      BY <1>1, <1>2, <2>10 DEF StepInv, Waits, CableInv, Belongs, Quiet
    <3>5. toNode' = <<>> /\ minted' \in Nat /\ Rpc("node_add", "add", m) BY <1>1, <1>4, <3>1, <3>a
    <3> QED BY <1>5, <2>5, <3>2, <3>3, <3>4, <3>5, AskStep
  <2>11. CASE r.ok /\ cli.step = "add"
    <3>1. /\ cli' = [cli EXCEPT !.step = "provision"]
          /\ toNode' = Append(toNode, [req |-> "provision", key |-> cli.key])
          /\ UNCHANGED <<reqs, nextId, minted>>
      BY <2>4, <2>11 DEF Answered
    <3>2. PICK e : e = cli' /\ e = [cli EXCEPT !.step = "provision"] BY <3>1
    <3>3. e \in CliRecs BY <1>1, <3>2 DEF CliRecs, CliSteps
    <3>4. e.step = "provision" /\ e.cmd = cli.cmd /\ e.id = cli.id /\ e.key = cli.key
      BY <1>1, <3>2 DEF CliRecs
    <3>5. PICK x : x = [req |-> "provision", key |-> cli.key]
      OBVIOUS
    <3>6. x \in CableOut /\ x.req = "provision" /\ x.key = e.key BY <1>1, <3>4, <3>5 DEF CableOut, CliRecs
    <3>7. PICK t : t = toNode' /\ t = Append(<<>>, x) BY <1>4, <3>1, <3>5
    <3>8. t \in Seq(CableOut) /\ Len(t) = 1 /\ t[1] = x BY <3>6, <3>7
    <3>9. gwKey = e.key /\ fromNode = <<>> /\ cli.cmd \in CableCmds
      BY <1>1, <2>3, <2>11, <3>4 DEF Carried, CableInv, StepInv, Quiet
    <3>10. PICK s : s = rsps'
      OBVIOUS
    <3>11. ClientTypes(e, reqs, s, gwKey, nodeKey, t, fromNode, done, nextId)
      BY <1>1, <1>5, <3>3, <3>8, <3>10 DEF ClientTypes
    <3>12. StepInv(e) /\ WaitInv(e, reqs, s, gwKey, done) /\ DoneInv(e, done)
      BY <3>4, <3>9 DEF StepInv, WaitInv, Waits, DoneInv
    <3>13. IdInv(e, reqs, s, nextId) BY <1>1, <1>5, <3>4, <3>10 DEF IdInv
    <3>14. CableInv(e, nodeKey, t, fromNode) BY <3>4, <3>6, <3>8, <3>9 DEF CableInv, Quiet
    <3>15. SharedInv(e, reqs, gwKey, nodeKey) BY <2>3, <3>4, <3>9 DEF SharedInv
    <3>16. ClientInvOf(e, reqs, s, gwKey, nodeKey, t, fromNode, done, nextId)
      BY <3>11, <3>12, <3>13, <3>14, <3>15 DEF ClientInvOf
    <3> QED BY <1>1, <1>2, <3>1, <3>2, <3>7, <3>10, <3>16 DEF ClientInv
  <2>12. CASE r.ok /\ cli.step = "ota"
    <3>1. \/ Exit("error") /\ UNCHANGED <<reqs, nextId, minted, toNode>>
          \/ Rpc("change", "rename", 0) /\ UNCHANGED <<minted, toNode>>
      BY <2>4, <2>12 DEF Answered
    <3>2. PICK q : q = [id |-> nextId, op |-> "change", key |-> 0]
      OBVIOUS
    <3>3. q \in Asked BY <1>1, <3>2 DEF Asked
    <3>4. Belongs("rename", "change", cli.cmd) /\ "rename" \in Waits /\ Quiet("rename", fromNode')
      BY <1>1, <2>12 DEF StepInv, Waits, Belongs, Quiet
    <3>5. toNode' = <<>> /\ minted' \in Nat BY <1>1, <1>4, <3>1
    <3>6. CASE Rpc("change", "rename", 0) BY <1>5, <2>5, <3>6, <3>2, <3>3, <3>4, <3>5, AskStep
    <3> QED BY <2>6, <3>1, <3>6
  <2>13. CASE r.ok /\ cli.step \in {"op", "rename"}
    <3>1. Exit("ok") /\ UNCHANGED <<reqs, nextId, minted, toNode>> BY <2>4, <2>13 DEF Answered
    <3>a. "ok" \in Exits BY DEF Exits
    <3>2. cli.id \in done /\ cli.cmd \in NodeCmds /\ cli.cmd \notin CableCmds
      BY <1>1, <2>3, <2>13 DEF Carried, StepInv, NodeCmds, CableCmds
    <3>3. toNode' = <<>> BY <1>4, <3>1
    <3> QED BY <1>5, <2>5, <3>1, <3>a, <3>2, <3>3, ExitStep
  <2> QED BY <1>3, <2>7, <2>8, <2>9, <2>10, <2>11, <2>12, <2>13 DEF Waits
<1> QED BY <1>6, <1>7

LEMMA RpcTimeoutStep ==
  ASSUME ClientInv, RpcTimeout
  PROVE  ClientInv'
<1>1. CableInv(cli, nodeKey, toNode, fromNode) /\ fromNode \in Seq(CableIn) BY ClientParts
<1>2. rsps \in Seq(Replies) /\ Earlier(rsps, nextId) BY AllAnswers
<1>3. PICK code : code = IF cli.step = "rollback" THEN "rolled back" ELSE "timeout"
  OBVIOUS
<1>4. /\ Exit(code) /\ cli.step \notin {"probe", "provision"}
      /\ UNCHANGED <<reqs, rsps, nextId, minted, toNode, fromNode, gwKey, nodeKey, done, front>>
  BY <1>3 DEF RpcTimeout, keepCable, keepWorld, cliWaiting
<1>5. code # "ok" /\ code \in Exits BY <1>3 DEF Exits
<1>6. toNode' = <<>> /\ fromNode' \in Seq(CableIn) /\ rsps' \in Seq(Replies) /\ Earlier(rsps', nextId)
  BY <1>1, <1>2, <1>4 DEF CableInv
<1> QED BY <1>4, <1>5, <1>6, ExitStep

\* A new command.
Started(cmd, step, id) == [Idle EXCEPT !.cmd = cmd, !.step = step, !.id = id]
LEMMA StartedIs ==
  ASSUME NEW cmd \in CliCmdNames, NEW step \in CliSteps, NEW n \in Nat,
         NEW e, e = Started(cmd, step, n)
  PROVE  e \in CliRecs /\ e.cmd = cmd /\ e.step = step /\ e.id = n /\ e.key = 0
<1>1. PICK x \in Exits : x = "" BY DEF Exits
<1>2. e = [cmd |-> cmd, step |-> step, id |-> n, key |-> 0, exit |-> x, worst |-> 0]
  BY <1>1 DEF Started, Idle
<1>3. e \in CliRecs BY <1>2 DEF CliRecs
<1>4. e.cmd = cmd /\ e.step = step /\ e.id = n /\ e.key = 0 BY <1>2
<1> QED BY <1>3, <1>4

LEMMA RunAsks ==
  ASSUME ClientInv, NEW cmd \in NodeCmds, NEW step \in {"resolve", "op", "ota"}, NEW op,
         op \in {"node_list", "change", "node_add_ota"}, step = "op" => op = "change",
         nextId' = nextId + 1, reqs' = Append(reqs, [id |-> nextId, op |-> op, key |-> 0]),
         cli' = Started(cmd, step, nextId), toNode = <<>>,
         toNode' = toNode, fromNode' = fromNode, rsps' = rsps, minted' = minted,
         gwKey' = gwKey, nodeKey' = nodeKey, done' = done, front' = front
  PROVE  ClientInv'
<1>1. /\ ClientInvOf(cli, reqs, rsps, gwKey, nodeKey, toNode, fromNode, done, nextId)
      /\ nextId \in Nat /\ minted \in Nat /\ FrontInv(front) /\ rsps \in Seq(Replies) /\ fromNode \in Seq(CableIn)
  BY ClientParts
<1>2. Earlier(rsps, nextId) BY AllAnswers
<1>3. PICK e : e = cli' /\ e = Started(cmd, step, nextId)
  OBVIOUS
<1>4. cmd \in CliCmdNames /\ step \in CliSteps /\ step \in Waits BY DEF CliSteps, Waits, CliCmdNames
<1>5. e \in CliRecs /\ e.cmd = cmd /\ e.step = step /\ e.id = nextId BY <1>1, <1>3, <1>4, StartedIs
<1>6. PICK r : r = [id |-> nextId, op |-> op, key |-> 0]
  OBVIOUS
<1>7. r \in Asked /\ r.id = nextId /\ r.op = op BY <1>1, <1>6 DEF Asked
<1>8. PICK q : q = reqs' /\ Joined(q, reqs, r) BY <1>6 DEF Joined
<1>9. PICK n \in Nat : n = nextId' /\ nextId < n BY <1>1
<1>10. StepInv(e) /\ Fits(e, r) /\ Quiet(e.step, fromNode) BY <1>5, <1>7 DEF StepInv, Fits, Quiet
<1>11. e.step \in Waits /\ e.id = nextId BY <1>4, <1>5
<1>12. PICK c, g, k, o, f, d, ss, m : /\ c = cli /\ g = gwKey /\ k = nodeKey /\ o = toNode /\ f = fromNode /\ d = done
                                     /\ ss = rsps /\ m = nextId
  OBVIOUS
<1>13. ClientInvOf(c, reqs, ss, g, k, o, f, d, m) BY <1>1, <1>12
<1>14. /\ f \in Seq(CableIn) /\ Quiet(e.step, f) /\ ss \in Seq(Replies) /\ Earlier(ss, m) /\ e.id = m /\ r.id = m /\ m < n
  BY <1>1, <1>2, <1>7, <1>9, <1>10, <1>11, <1>12
<1>15. ClientInvOf(e, q, ss, g, k, <<>>, f, d, n)
  BY <1>5, <1>7, <1>8, <1>9, <1>10, <1>11, <1>13, <1>14, ClientAsks
<1>16. ClientInvOf(e, q, rsps, gwKey, nodeKey, <<>>, fromNode, done, n) BY <1>12, <1>15
<1> QED BY <1>1, <1>3, <1>8, <1>9, <1>16 DEF ClientInv

LEMMA RunCable ==
  ASSUME ClientInv, NEW cmd \in CableCmds, toNode = <<>>,
         cli' = Started(cmd, "probe", 0),
         toNode' = Append(toNode, [req |-> "describe", key |-> 0]), fromNode' = <<>>,
         nextId' = nextId, reqs' = reqs, rsps' = rsps, minted' = minted,
         gwKey' = gwKey, nodeKey' = nodeKey, done' = done, front' = front
  PROVE  ClientInv'
<1>p1. /\ cli \in CliRecs /\ reqs \in Seq(Asked) /\ rsps \in Seq(Replies) /\ gwKey \in Nat /\ nodeKey \in Nat
      /\ toNode \in Seq(CableOut) /\ fromNode \in Seq(CableIn) /\ done \in SUBSET Nat /\ nextId \in Nat
      /\ StepInv(cli) /\ IdInv(cli, reqs, rsps, nextId)
      /\ CableInv(cli, nodeKey, toNode, fromNode)
      /\ minted \in Nat /\ FrontInv(front)
  BY ClientParts
<1>2. PICK e : e = cli' /\ e = Started(cmd, "probe", 0)
  OBVIOUS
<1>3. cmd \in CliCmdNames /\ "probe" \in CliSteps BY DEF CliSteps, CliCmdNames
<1>4. e \in CliRecs /\ e.cmd = cmd /\ e.step = "probe" /\ e.id = 0 BY <1>2, <1>3, StartedIs
<1>5. PICK x : x = [req |-> "describe", key |-> 0]
  OBVIOUS
<1>6. x \in CableOut /\ x.req = "describe" BY <1>5 DEF CableOut
<1>7. PICK t : t = toNode' /\ t = Append(<<>>, x) BY <1>5
<1>8. t \in Seq(CableOut) /\ Len(t) = 1 /\ t[1] = x BY <1>6, <1>7
<1>a. <<>> \in Seq(CableIn)
  OBVIOUS
<1>9. ClientTypes(e, reqs, rsps, gwKey, nodeKey, t, <<>>, done, nextId)
  BY <1>p1, <1>4, <1>8, <1>a DEF ClientTypes
<1>10. StepInv(e) /\ WaitInv(e, reqs, rsps, gwKey, done) /\ DoneInv(e, done) /\ SharedInv(e, reqs, gwKey, nodeKey)
  BY <1>3, <1>4 DEF StepInv, WaitInv, Waits, DoneInv, SharedInv
<1>b. cli.id \in Nat /\ cli.id < nextId BY <1>p1 DEF CliRecs, IdInv
<1>c. 0 < nextId BY <1>p1, <1>b
<1>11. IdInv(e, reqs, rsps, nextId) BY <1>p1, <1>4, <1>c DEF IdInv
<1>12. CableInv(e, nodeKey, t, <<>>) BY <1>4, <1>6, <1>8 DEF CableInv, Quiet
<1>13. ClientInvOf(e, reqs, rsps, gwKey, nodeKey, t, <<>>, done, nextId)
  BY <1>9, <1>10, <1>11, <1>12 DEF ClientInvOf
<1> QED BY <1>p1, <1>2, <1>7, <1>13 DEF ClientInv

LEMMA RunShell ==
  ASSUME ClientInv, toNode = <<>>,
         cli' = Started("shell", "shell", nextId), nextId' = nextId + 1, reqs' = reqs,
         toNode' = toNode, fromNode' = fromNode, rsps' = rsps, minted' = minted,
         gwKey' = gwKey, nodeKey' = nodeKey, done' = done, front' = front
  PROVE  ClientInv'
<1>p1. /\ cli \in CliRecs /\ reqs \in Seq(Asked) /\ rsps \in Seq(Replies) /\ gwKey \in Nat /\ nodeKey \in Nat
      /\ toNode \in Seq(CableOut) /\ fromNode \in Seq(CableIn) /\ done \in SUBSET Nat /\ nextId \in Nat
      /\ StepInv(cli) /\ IdInv(cli, reqs, rsps, nextId)
      /\ CableInv(cli, nodeKey, toNode, fromNode)
      /\ minted \in Nat /\ FrontInv(front)
  BY ClientParts
<1>2. PICK e : e = cli' /\ e = Started("shell", "shell", nextId)
  OBVIOUS
<1>3. "shell" \in CliCmdNames /\ "shell" \in CliSteps BY DEF CliSteps, CliCmdNames
<1>4. e \in CliRecs /\ e.cmd = "shell" /\ e.step = "shell" /\ e.id = nextId BY <1>p1, <1>2, <1>3, StartedIs
<1>5. PICK n \in Nat : n = nextId' /\ n = nextId + 1 BY <1>p1
<1>6. ClientTypes(e, reqs, rsps, gwKey, nodeKey, <<>>, fromNode, done, n)
  BY <1>p1, <1>4, <1>5 DEF ClientTypes
<1>7. StepInv(e) /\ WaitInv(e, reqs, rsps, gwKey, done) /\ DoneInv(e, done) /\ SharedInv(e, reqs, gwKey, nodeKey)
  BY <1>4 DEF StepInv, WaitInv, Waits, DoneInv, SharedInv
<1>8. CableInv(e, nodeKey, <<>>, fromNode) BY <1>4 DEF CableInv, Quiet
<1>9. Earlier(reqs, n) /\ Earlier(rsps, n)
  <2>1. ASSUME NEW i \in 1 .. Len(reqs) PROVE reqs[i].id < n
    <3>1. reqs[i] \in Asked /\ reqs[i].id < nextId BY <1>p1, <2>1 DEF IdInv, Earlier
    <3>2. PICK m \in Nat : m = reqs[i].id BY <3>1 DEF Asked
    <3> QED BY <1>p1, <1>5, <3>1, <3>2
  <2>2. ASSUME NEW i \in 1 .. Len(rsps) PROVE rsps[i].id < n
    <3>1. rsps[i] \in Replies /\ rsps[i].id < nextId BY <1>p1, <2>2 DEF IdInv, Earlier
    <3>2. PICK m \in Nat : m = rsps[i].id BY <3>1 DEF Replies
    <3> QED BY <1>p1, <1>5, <3>1, <3>2
  <2> QED BY <2>1, <2>2 DEF Earlier
<1>10. IdInv(e, reqs, rsps, n) BY <1>p1, <1>4, <1>5, <1>9 DEF IdInv
<1>11. ClientInvOf(e, reqs, rsps, gwKey, nodeKey, <<>>, fromNode, done, n)
  BY <1>6, <1>7, <1>8, <1>10 DEF ClientInvOf
<1> QED BY <1>p1, <1>2, <1>5, <1>11 DEF ClientInv

LEMMA RunStep ==
  ASSUME ClientInv, NEW cmd \in CliCmdNames \ {"none"}, Run(cmd)
  PROVE  ClientInv'
<1>1. /\ cli \in CliRecs /\ reqs \in Seq(Asked) /\ rsps \in Seq(Replies) /\ gwKey \in Nat /\ nodeKey \in Nat
      /\ toNode \in Seq(CableOut) /\ fromNode \in Seq(CableIn) /\ done \in SUBSET Nat /\ nextId \in Nat
      /\ StepInv(cli) /\ IdInv(cli, reqs, rsps, nextId)
      /\ CableInv(cli, nodeKey, toNode, fromNode)
      /\ minted \in Nat /\ FrontInv(front)
  BY ClientParts
<1>2. /\ cli.step \in {"idle", "end"} /\ rsps' = rsps /\ minted' = minted /\ gwKey' = gwKey /\ nodeKey' = nodeKey
      /\ done' = done /\ front' = front
  BY DEF Run, keepWorld
<1>3. toNode = <<>> BY <1>1, <1>2 DEF CableInv
<1>4. CASE cmd = "by name"
  <2>1. /\ nextId' = nextId + 1 /\ reqs' = Append(reqs, [id |-> nextId, op |-> "node_list", key |-> 0])
        /\ cli' = Started("by name", "resolve", nextId) /\ toNode' = toNode /\ fromNode' = fromNode
    BY <1>4 DEF Run, keepCable, Started
  <2>2. "by name" \in NodeCmds BY DEF NodeCmds
  <2> QED BY <1>2, <1>3, <2>1, <2>2, RunAsks
<1>5. CASE cmd = "by address"
  <2>1. /\ nextId' = nextId + 1 /\ reqs' = Append(reqs, [id |-> nextId, op |-> "change", key |-> 0])
        /\ cli' = Started("by address", "op", nextId) /\ toNode' = toNode /\ fromNode' = fromNode
    BY <1>5 DEF Run, keepCable, Started
  <2>2. "by address" \in NodeCmds BY DEF NodeCmds
  <2> QED BY <1>2, <1>3, <2>1, <2>2, RunAsks
<1>6. CASE cmd = "ota"
  <2>1. /\ nextId' = nextId + 1 /\ reqs' = Append(reqs, [id |-> nextId, op |-> "node_add_ota", key |-> 0])
        /\ cli' = Started("ota", "ota", nextId) /\ toNode' = toNode /\ fromNode' = fromNode
    BY <1>6 DEF Run, keepCable, Started
  <2>2. "ota" \in NodeCmds BY DEF NodeCmds
  <2> QED BY <1>2, <1>3, <2>1, <2>2, RunAsks
<1>7. CASE cmd \in CableCmds
  <2>1. /\ cli' = [Idle EXCEPT !.cmd = cmd, !.step = "probe"]
        /\ toNode' = Append(toNode, [req |-> "describe", key |-> 0]) /\ fromNode' = <<>>
        /\ nextId' = nextId /\ reqs' = reqs
    BY <1>7 DEF Run, CableCmds
  <2>2. cli' = Started(cmd, "probe", 0)
    <3>1. PICK e : e = cli'
      OBVIOUS
    <3>2. e = [Idle EXCEPT !.cmd = cmd, !.step = "probe"] BY <2>1, <3>1
    <3>3. Idle = [Idle EXCEPT !.id = 0]
      <4>1. PICK x : x = ""
        OBVIOUS
      <4>2. PICK i : i = [cmd |-> "none", step |-> "idle", id |-> 0, key |-> 0, exit |-> x, worst |-> 0]
        OBVIOUS
      <4>3. Idle = i BY <4>1, <4>2 DEF Idle
      <4>4. i = [i EXCEPT !.id = 0] BY <4>2
      <4> QED BY <4>3, <4>4
    <3>4. e = Started(cmd, "probe", 0) BY <3>2, <3>3 DEF Started, Idle
    <3> QED BY <3>1, <3>4
  <2> QED BY <1>2, <1>3, <1>7, <2>1, <2>2, RunCable
<1>8. CASE cmd = "shell"
  <2>1. /\ cli' = Started("shell", "shell", nextId) /\ nextId' = nextId + 1 /\ reqs' = reqs
        /\ toNode' = toNode /\ fromNode' = fromNode
    BY <1>8 DEF Run, keepCable, Started
  <2> QED BY <1>2, <1>3, <2>1, RunShell
<1> QED BY <1>4, <1>5, <1>6, <1>7, <1>8 DEF CliCmdNames, NodeCmds

\* The cable's answer, or its silence.
LEMMA RollbackStep ==
  ASSUME ClientInv, cli.step = "provision", Rpc("node_remove", "rollback", cli.key),
         toNode' = <<>>, fromNode' \in Seq(CableIn), rsps' = rsps, minted' = minted,
         gwKey' = gwKey, nodeKey' = nodeKey, done' = done, front' = front
  PROVE  ClientInv'
<1>1. cli \in CliRecs /\ nextId \in Nat /\ minted \in Nat /\ StepInv(cli) BY ClientParts
<1>2. PICK k \in Nat : k = cli.key BY <1>1 DEF CliRecs
<1>3. PICK r : r = [id |-> nextId, op |-> "node_remove", key |-> k]
  OBVIOUS
<1>4. r \in Asked BY <1>1, <1>3 DEF Asked
<1>5. Belongs("rollback", "node_remove", cli.cmd) /\ "rollback" \in Waits /\ Quiet("rollback", fromNode')
  BY <1>1 DEF Belongs, Waits, Quiet, StepInv
<1>6. rsps' \in Seq(Replies) /\ Earlier(rsps', nextId) /\ minted' \in Nat BY <1>1, AllAnswers
<1>7. Rpc("node_remove", "rollback", k) BY <1>2
<1> QED BY <1>3, <1>4, <1>5, <1>6, <1>7, AskStep

LEMMA TakeFrameStep ==
  ASSUME ClientInv, TakeFrame
  PROVE  ClientInv'
<1>1. /\ cli \in CliRecs /\ fromNode \in Seq(CableIn) /\ toNode \in Seq(CableOut) /\ nextId \in Nat /\ minted \in Nat
      /\ StepInv(cli) /\ CableInv(cli, nodeKey, toNode, fromNode) /\ SharedInv(cli, reqs, gwKey, nodeKey)
  BY ClientParts
<1>2. /\ cli.step \in {"probe", "provision"} /\ fromNode # <<>> /\ fromNode' = Tail(fromNode)
      /\ rsps' = rsps /\ toNode' = toNode /\ gwKey' = gwKey /\ nodeKey' = nodeKey /\ done' = done /\ front' = front
  BY DEF TakeFrame, keepWorld
<1>3. /\ toNode = <<>> /\ Len(fromNode) = 1
      /\ fromNode[1].req = IF cli.step = "probe" THEN "describe" ELSE "provision"
      /\ cli.step = "provision" /\ fromNode[1].ok => nodeKey = cli.key
  <2>1. Len(<<>>) = 0
    OBVIOUS
  <2> QED BY <1>1, <1>2, <2>1 DEF CableInv
<1>4. PICK f : f = Head(fromNode) /\ f = fromNode[1] BY <1>1, <1>2
<1>6. fromNode' = <<>> /\ fromNode' \in Seq(CableIn) /\ toNode' = <<>> BY <1>1, <1>2, <1>3
<1>7. rsps' \in Seq(Replies) /\ Earlier(rsps', nextId) BY <1>2, AllAnswers
<1>8. f.req = IF cli.step = "probe" THEN "describe" ELSE "provision" BY <1>3, <1>4
<1>9. IF cli.step = "probe"
      THEN IF ~f.ok THEN Exit("wrong firmware") /\ UNCHANGED <<reqs, nextId, minted>>
           ELSE IF cli.cmd = "cable" THEN Rpc("describe", "describe", 0) /\ UNCHANGED minted
           ELSE minted' = minted + 1 /\ Rpc("node_add", "add", minted + 1)
      ELSE IF f.ok THEN Exit("ok") /\ UNCHANGED <<reqs, nextId, minted>>
      ELSE Rpc("node_remove", "rollback", cli.key) /\ UNCHANGED minted
  <2>1. f.req = (IF cli.step = "probe" THEN "describe" ELSE "provision") BY <1>8
  <2>2. LET g == Head(fromNode) IN
        IF g.req # (IF cli.step = "probe" THEN "describe" ELSE "provision")
        THEN UNCHANGED <<cli, reqs, nextId, minted>>
        ELSE IF cli.step = "probe"
        THEN IF ~g.ok THEN Exit("wrong firmware") /\ UNCHANGED <<reqs, nextId, minted>>
             ELSE IF cli.cmd = "cable" THEN Rpc("describe", "describe", 0) /\ UNCHANGED minted
             ELSE minted' = minted + 1 /\ Rpc("node_add", "add", minted + 1)
        ELSE IF g.ok THEN Exit("ok") /\ UNCHANGED <<reqs, nextId, minted>>
        ELSE Rpc("node_remove", "rollback", cli.key) /\ UNCHANGED minted
    BY DEF TakeFrame
  <2> QED BY <1>4, <2>1, <2>2
<1>10. cli.cmd \in CableCmds /\ cli.cmd \notin NodeCmds BY <1>1, <1>2 DEF StepInv, CableCmds, NodeCmds
<1>11. CASE cli.step = "probe" /\ ~f.ok
  <2>1. Exit("wrong firmware") /\ reqs' = reqs /\ nextId' = nextId /\ minted' = minted BY <1>9, <1>11
  <2>2. PICK code \in Exits : code = "wrong firmware" BY DEF Exits
  <2>3. code # "ok" /\ Exit(code) BY <2>1, <2>2
  <2> QED BY <1>2, <1>6, <1>7, <2>1, <2>3, ExitStep
<1>12. CASE cli.step = "probe" /\ f.ok /\ cli.cmd = "cable"
  <2>1. Rpc("describe", "describe", 0) /\ minted' = minted BY <1>9, <1>12
  <2>2. PICK r : r = [id |-> nextId, op |-> "describe", key |-> 0]
    OBVIOUS
  <2>3. r \in Asked BY <1>1, <2>2 DEF Asked
  <2>4. Belongs("describe", "describe", cli.cmd) /\ "describe" \in Waits /\ Quiet("describe", fromNode')
    BY <1>6, <1>10 DEF Belongs, Waits, Quiet
  <2>5. minted' \in Nat BY <1>1, <2>1
  <2> QED BY <1>2, <1>6, <1>7, <2>1, <2>2, <2>3, <2>4, <2>5, AskStep
<1>13. CASE cli.step = "probe" /\ f.ok /\ cli.cmd # "cable"
  <2>1. PICK m \in Nat : m = minted + 1 BY <1>1
  <2>2. Rpc("node_add", "add", m) /\ minted' \in Nat BY <1>9, <1>13, <2>1
  <2>3. PICK r : r = [id |-> nextId, op |-> "node_add", key |-> m]
    OBVIOUS
  <2>4. r \in Asked BY <1>1, <2>3 DEF Asked
  <2>5. Belongs("add", "node_add", cli.cmd) /\ "add" \in Waits /\ Quiet("add", fromNode')
    BY <1>6, <1>10 DEF Belongs, Waits, Quiet
  <2> QED BY <1>2, <1>6, <1>7, <2>2, <2>3, <2>4, <2>5, AskStep
<1>14. CASE cli.step = "provision" /\ f.ok
  <2>1. Exit("ok") /\ reqs' = reqs /\ nextId' = nextId /\ minted' = minted BY <1>9, <1>14
  <2>2. "ok" \in Exits BY DEF Exits
  <2>3. reqs = <<>> /\ gwKey = cli.key /\ nodeKey = cli.key BY <1>1, <1>3, <1>4, <1>14 DEF SharedInv
  <2> QED BY <1>2, <1>6, <1>7, <1>10, <2>1, <2>2, <2>3, ExitStep
<1>15. CASE cli.step = "provision" /\ ~f.ok
  <2>1. Rpc("node_remove", "rollback", cli.key) /\ minted' = minted BY <1>9, <1>15
  <2> QED BY <1>2, <1>6, <1>15, <2>1, RollbackStep
<1> QED BY <1>2, <1>11, <1>12, <1>13, <1>14, <1>15

LEMMA CableTimeoutStep ==
  ASSUME ClientInv, CableTimeout
  PROVE  ClientInv'
<1>1. fromNode \in Seq(CableIn) BY ClientParts
<1>2. /\ cli.step \in {"probe", "provision"} /\ toNode = <<>>
      /\ rsps' = rsps /\ minted' = minted /\ toNode' = toNode /\ fromNode' = fromNode
      /\ gwKey' = gwKey /\ nodeKey' = nodeKey /\ done' = done /\ front' = front
  BY DEF CableTimeout, keepCable, keepWorld
<1>3. rsps' \in Seq(Replies) /\ Earlier(rsps', nextId) /\ toNode' = <<>> /\ fromNode' \in Seq(CableIn)
  BY <1>1, <1>2, AllAnswers
<1>4. CASE cli.step = "probe"
  <2>1. Exit("timeout") /\ reqs' = reqs /\ nextId' = nextId BY <1>4 DEF CableTimeout
  <2>2. PICK code \in Exits : code = "timeout" BY DEF Exits
  <2>3. code # "ok" /\ Exit(code) BY <2>1, <2>2
  <2> QED BY <1>2, <1>3, <2>1, <2>3, ExitStep
<1>5. CASE cli.step = "provision"
  <2>1. Rpc("node_remove", "rollback", cli.key) BY <1>5 DEF CableTimeout
  <2> QED BY <1>2, <1>3, <1>5, <2>1, RollbackStep
<1> QED BY <1>2, <1>4, <1>5

\* `nodes shell`.
LEMMA StaysStep ==
  ASSUME ClientInv, cli' = cli, reqs' = reqs, rsps' = rsps, nextId' = nextId, minted' = minted,
         toNode' = toNode, fromNode' = fromNode, gwKey' = gwKey, nodeKey' = nodeKey, done' = done, front' = front
  PROVE  ClientInv'
  BY DEF ClientInv

LEMMA SpoilStep ==
  ASSUME ClientInv, cli.step = "shell", cli' = [cli EXCEPT !.worst = 1],
         reqs' = reqs, rsps' = rsps, nextId' = nextId, minted' = minted,
         toNode' = toNode, fromNode' = fromNode, gwKey' = gwKey, nodeKey' = nodeKey, done' = done, front' = front
  PROVE  ClientInv'
<1>1. /\ cli \in CliRecs /\ reqs \in Seq(Asked) /\ rsps \in Seq(Replies) /\ gwKey \in Nat /\ nodeKey \in Nat
      /\ toNode \in Seq(CableOut) /\ fromNode \in Seq(CableIn) /\ done \in SUBSET Nat /\ nextId \in Nat
      /\ StepInv(cli) /\ IdInv(cli, reqs, rsps, nextId)
      /\ CableInv(cli, nodeKey, toNode, fromNode)
      /\ minted \in Nat /\ FrontInv(front)
  BY ClientParts
<1>2. PICK e : e = cli' /\ e = [cli EXCEPT !.worst = 1]
  OBVIOUS
<1>3. e \in CliRecs BY <1>1, <1>2 DEF CliRecs
<1>4. e.cmd = cli.cmd /\ e.step = cli.step /\ e.id = cli.id /\ e.key = cli.key BY <1>1, <1>2 DEF CliRecs
<1>5. ClientTypes(e, reqs, rsps, gwKey, nodeKey, toNode, fromNode, done, nextId)
  BY <1>1, <1>3 DEF ClientTypes
<1>6. StepInv(e) /\ IdInv(e, reqs, rsps, nextId) BY <1>1, <1>4 DEF StepInv, IdInv
<1>7. WaitInv(e, reqs, rsps, gwKey, done) /\ SharedInv(e, reqs, gwKey, nodeKey) /\ DoneInv(e, done)
  BY <1>4 DEF WaitInv, Waits, SharedInv, DoneInv
<1>8. CableInv(e, nodeKey, toNode, fromNode) BY <1>1, <1>4 DEF CableInv, Quiet
<1>9. ClientInvOf(e, reqs, rsps, gwKey, nodeKey, toNode, fromNode, done, nextId)
  BY <1>5, <1>6, <1>7, <1>8 DEF ClientInvOf
<1> QED BY <1>1, <1>2, <1>9 DEF ClientInv

LEMMA ShellEnds ==
  ASSUME ClientInv, cli.step = "shell", NEW code \in Exits, Exit(code),
         reqs' = reqs, rsps' = rsps, nextId' = nextId, minted' = minted,
         toNode' = toNode, fromNode' = fromNode, gwKey' = gwKey, nodeKey' = nodeKey, done' = done, front' = front
  PROVE  ClientInv'
<1>1. /\ fromNode \in Seq(CableIn) /\ StepInv(cli) /\ CableInv(cli, nodeKey, toNode, fromNode)
  BY ClientParts
<1>2. rsps' \in Seq(Replies) /\ Earlier(rsps', nextId) BY AllAnswers
<1>3. toNode' = <<>> /\ fromNode' \in Seq(CableIn) BY <1>1 DEF CableInv
<1>4. cli.cmd \notin CableCmds /\ cli.cmd \notin NodeCmds BY <1>1 DEF StepInv, CableCmds, NodeCmds
<1> QED BY <1>2, <1>3, <1>4, ExitStep

LEMMA ChunkStep ==
  ASSUME ClientInv, NEW mine \in BOOLEAN,
         NEW c \in {"error", "part", "part, one lost before it", "done", "failed"}, CliChunk(mine, c)
  PROVE  ClientInv'
<1>1. /\ cli.step = "shell" /\ reqs' = reqs /\ rsps' = rsps /\ nextId' = nextId /\ minted' = minted
      /\ toNode' = toNode /\ fromNode' = fromNode /\ gwKey' = gwKey /\ nodeKey' = nodeKey /\ done' = done
      /\ front' = front
  BY DEF CliChunk, keepCable, keepWorld
<1>2. PICK res : res = IF cli.worst = 0 THEN "ok" ELSE "device result"
  OBVIOUS
<1>3. res \in Exits /\ "error" \in Exits /\ "device result" \in Exits BY <1>2 DEF Exits
<1>4. cli' = cli \/ Exit("error") \/ cli' = [cli EXCEPT !.worst = 1] \/ Exit(res) \/ Exit("device result")
  BY <1>2 DEF CliChunk
<1> QED BY <1>1, <1>3, <1>4, StaysStep, SpoilStep, ShellEnds

LEMMA ShellTimeoutStep ==
  ASSUME ClientInv, ShellTimeout
  PROVE  ClientInv'
<1>1. /\ cli.step = "shell" /\ reqs' = reqs /\ rsps' = rsps /\ nextId' = nextId /\ minted' = minted
      /\ toNode' = toNode /\ fromNode' = fromNode /\ gwKey' = gwKey /\ nodeKey' = nodeKey /\ done' = done
      /\ front' = front /\ Exit("timeout")
  BY DEF ShellTimeout, keepCable, keepWorld
<1>2. "timeout" \in Exits BY DEF Exits
<1> QED BY <1>1, <1>2, ShellEnds

-----------------------------------------------------------------------------
(***************************************************************************)
(* The client: the gateway and the node                                    *)
(***************************************************************************)

Rest(t, s) == t = Tail(s)

\* The oldest request is served: if it is the one waited for, none is behind it.
LEMMA ClientServed ==
  ASSUME NEW c, NEW rq, NEW rs, NEW gk, NEW nk, NEW tn, NEW fn, NEW dn, NEW nx,
         ClientInvOf(c, rq, rs, gk, nk, tn, fn, dn, nx), rq # <<>>,
         NEW qq, Rest(qq, rq), NEW a \in Replies, a.id = rq[1].id, NEW ss, Joined(ss, rs, a),
         NEW hk \in Nat, NEW ik \in Nat, NEW en \in SUBSET Nat, \A d \in dn : d \in en,
         a.ok /\ Fits(c, rq[1]) /\ c.id = rq[1].id => Carried(c, hk, en)
  PROVE  ClientInvOf(c, qq, ss, hk, ik, tn, fn, en, nx)
<1>1. /\ rq \in Seq(Asked) /\ rs \in Seq(Replies) /\ nx \in Nat /\ c \in CliRecs
      /\ \A i \in 1 .. Len(rq) : rq[i].id < nx
      /\ \A i \in 1 .. Len(rs) : rs[i].id < nx
      /\ WaitInv(c, rq, rs, gk, dn) /\ CableInv(c, nk, tn, fn) /\ SharedInv(c, rq, gk, nk) /\ DoneInv(c, dn)
  BY DEF ClientInvOf, ClientTypes, IdInv, Earlier
<1>2. /\ qq \in Seq(Asked) /\ Len(rq) \in Nat /\ Len(rq) >= 1 /\ Len(qq) = Len(rq) - 1
      /\ \A i \in 1 .. Len(qq) : qq[i] = rq[i + 1] /\ i + 1 \in 1 .. Len(rq)
  BY <1>1, TailIs DEF Rest
<1>3. /\ ss \in Seq(Replies) /\ Len(rs) \in Nat /\ Len(ss) = Len(rs) + 1 /\ ss[Len(ss)] = a
      /\ \A i \in 1 .. Len(rs) : ss[i] = rs[i]
      /\ \A i \in 1 .. Len(ss) : i = Len(ss) \/ i \in 1 .. Len(rs)
  BY <1>1, AppendIs DEF Joined
<1>a. 1 \in 1 .. Len(rq) BY <1>2
<1>4. ClientTypes(c, qq, ss, hk, ik, tn, fn, en, nx) BY <1>2, <1>3 DEF ClientTypes, ClientInvOf
<1>5. Earlier(qq, nx) BY <1>1, <1>2 DEF Earlier
<1>6. Earlier(ss, nx)
  <2>1. ASSUME NEW i \in 1 .. Len(ss) PROVE ss[i].id < nx
    <3>1. CASE i = Len(ss) BY <1>1, <1>3, <1>a, <3>1
    <3>2. CASE i \in 1 .. Len(rs) BY <1>1, <1>3, <3>2
    <3> QED BY <1>3, <2>1, <3>1, <3>2
  <2> QED BY <2>1 DEF Earlier
<1>7. IdInv(c, qq, ss, nx) /\ StepInv(c) BY <1>5, <1>6 DEF IdInv, ClientInvOf
<1>8. WaitInv(c, qq, ss, hk, en)
  <2>1. SUFFICES ASSUME c.step \in Waits
                 PROVE  /\ \A i \in 1 .. Len(qq) : qq[i].id = c.id => i = Len(qq) /\ Fits(c, qq[i])
                        /\ \A i \in 1 .. Len(ss) : ss[i].id = c.id => qq = <<>> /\ (ss[i].ok => Carried(c, hk, en))
    BY DEF WaitInv
  <2>2. /\ \A i \in 1 .. Len(rq) : rq[i].id = c.id => i = Len(rq) /\ Fits(c, rq[i])
        /\ \A i \in 1 .. Len(rs) : rs[i].id = c.id => rq = <<>>
    BY <1>1, <2>1 DEF WaitInv
  <2>3. ASSUME NEW i \in 1 .. Len(qq), qq[i].id = c.id PROVE i = Len(qq) /\ Fits(c, qq[i])
    <3>1. PICK j : j = i + 1
      OBVIOUS
    <3>2. j \in 1 .. Len(rq) /\ qq[i] = rq[j] BY <1>2, <3>1
    <3>3. j = Len(rq) /\ Fits(c, rq[j]) BY <2>2, <2>3, <3>2
    <3>4. i = Len(qq) BY <1>2, <3>1, <3>3
    <3> QED BY <3>2, <3>3, <3>4
  <2>4. ASSUME NEW i \in 1 .. Len(ss), ss[i].id = c.id PROVE qq = <<>> /\ (ss[i].ok => Carried(c, hk, en))
    <3>1. i \notin 1 .. Len(rs) BY <1>3, <2>2, <2>4
    <3>2. ss[i] = a BY <1>3, <2>4, <3>1
    <3>3. rq[1].id = c.id BY <2>4, <3>2
    <3>4. 1 = Len(rq) /\ Fits(c, rq[1]) BY <1>a, <2>2, <3>3
    <3>6. qq = <<>> BY <1>1, <3>4, TailOfOne DEF Rest
    <3> QED BY <3>2, <3>3, <3>4, <3>6
  <2> QED BY <2>3, <2>4
<1>9. c.step # "provision" /\ ~(c.step = "end" /\ c.exit = "ok" /\ c.cmd \in CableCmds)
  BY <1>1 DEF SharedInv
<1>10. SharedInv(c, qq, hk, ik) /\ DoneInv(c, en) BY <1>1, <1>9 DEF SharedInv, DoneInv
<1>11. CableInv(c, ik, tn, fn) BY <1>1, <1>9 DEF CableInv
<1> QED BY <1>4, <1>7, <1>8, <1>10, <1>11 DEF ClientInvOf

LEMMA ServeStep ==
  ASSUME ClientInv, NEW o, Serve(o)
  PROVE  ClientInv'
<1>1. /\ ClientInvOf(cli, reqs, rsps, gwKey, nodeKey, toNode, fromNode, done, nextId)
      /\ reqs \in Seq(Asked) /\ gwKey \in Nat /\ nodeKey \in Nat /\ done \in SUBSET Nat
      /\ minted \in Nat /\ FrontInv(front)
  BY ClientParts
<1>2. /\ reqs # <<>> /\ reqs' = Tail(reqs) /\ cli' = cli /\ nodeKey' = nodeKey /\ nextId' = nextId
      /\ minted' = minted /\ front' = front /\ toNode' = toNode /\ fromNode' = fromNode
  BY DEF Serve, keepCable
<1>3. PICK r : r = Head(reqs) /\ r = reqs[1] BY <1>1, <1>2
<1>4. r \in Asked BY <1>1, <1>2, <1>3, TailIs
<1>5. PICK a : a = [id |-> r.id, ok |-> o = "done", joined |-> FALSE]
  OBVIOUS
<1>6. rsps' = Append(rsps, a) BY <1>3, <1>5 DEF Serve
<1>7. PICK h : h = gwKey'
  OBVIOUS
<1>8. PICK d : d = done'
  OBVIOUS
<1>9. h = CASE o # "refused" /\ r.op = "node_add" -> r.key
            [] o # "refused" /\ r.op = "node_remove" -> 0
            [] OTHER -> gwKey
  BY <1>3, <1>7 DEF Serve
<1>10. d = IF o # "refused" /\ r.op = "change" THEN done \cup {r.id} ELSE done BY <1>3, <1>8 DEF Serve
<1>11. r.id \in Nat /\ r.key \in Nat BY <1>4 DEF Asked
<1>12. h \in Nat /\ (o = "done" /\ r.op = "node_add" => h = r.key) BY <1>1, <1>9, <1>11
<1>13. d \in SUBSET Nat /\ (\A x \in done : x \in d) /\ (o = "done" /\ r.op = "change" => r.id \in d)
  BY <1>1, <1>10, <1>11
<1>14. a \in Replies /\ a.id = r.id /\ (a.ok => o = "done")
  <2>1. (o = "done") \in BOOLEAN
    OBVIOUS
  <2> QED BY <1>5, <1>11, <2>1 DEF Replies
<1>15. a.ok /\ Fits(cli, r) /\ cli.id = r.id => Carried(cli, h, d) BY <1>12, <1>13, <1>14 DEF Fits, Carried
<1>16. PICK q : q = reqs' /\ Rest(q, reqs) BY <1>2 DEF Rest
<1>17. PICK ss : ss = rsps' /\ Joined(ss, rsps, a) BY <1>6 DEF Joined
<1>18. ClientInvOf(cli, q, ss, h, nodeKey, toNode, fromNode, d, nextId)
  <2>1. a.ok /\ Fits(cli, reqs[1]) /\ cli.id = reqs[1].id => Carried(cli, h, d) BY <1>3, <1>15
  <2>2. a.id = reqs[1].id /\ a \in Replies BY <1>3, <1>14
  <2>3. h \in Nat /\ d \in SUBSET Nat /\ (\A x \in done : x \in d) BY <1>12, <1>13
  <2> QED BY <1>1, <1>2, <1>16, <1>17, <2>1, <2>2, <2>3, ClientServed
<1> QED BY <1>1, <1>2, <1>7, <1>8, <1>16, <1>17, <1>18 DEF ClientInv

LEMMA ServeWindowStep ==
  ASSUME ClientInv, NEW j \in BOOLEAN, ServeWindow(j)
  PROVE  ClientInv'
<1>1. /\ ClientInvOf(cli, reqs, rsps, gwKey, nodeKey, toNode, fromNode, done, nextId)
      /\ reqs \in Seq(Asked) /\ gwKey \in Nat /\ nodeKey \in Nat /\ done \in SUBSET Nat
      /\ minted \in Nat /\ FrontInv(front)
  BY ClientParts
<1>2. /\ reqs # <<>> /\ reqs' = Tail(reqs) /\ cli' = cli /\ nextId' = nextId
      /\ done' = done /\ front' = front /\ toNode' = toNode /\ fromNode' = fromNode
  BY DEF ServeWindow, keepCable
<1>3. PICK r : r = Head(reqs) /\ r = reqs[1] BY <1>1, <1>2
<1>4. r \in Asked BY <1>1, <1>2, <1>3, TailIs
<1>5. PICK a : a = [id |-> r.id, ok |-> TRUE, joined |-> j]
  OBVIOUS
<1>6. rsps' = Append(rsps, a) /\ r.op = "node_add_ota" BY <1>3, <1>5 DEF ServeWindow
<1>7. PICK h, k : h = gwKey' /\ k = nodeKey'
  OBVIOUS
<1>8. h \in Nat /\ k \in Nat /\ minted' \in Nat BY <1>1, <1>7 DEF ServeWindow
<1>11. r.id \in Nat BY <1>4 DEF Asked
<1>14. a \in Replies /\ a.id = r.id BY <1>5, <1>11 DEF Replies
<1>15. Fits(cli, r) => Carried(cli, h, done) BY <1>6 DEF Fits, Carried
<1>16. PICK q : q = reqs' /\ Rest(q, reqs) BY <1>2 DEF Rest
<1>17. PICK ss : ss = rsps' /\ Joined(ss, rsps, a) BY <1>6 DEF Joined
<1>18. ClientInvOf(cli, q, ss, h, k, toNode, fromNode, done, nextId)
  BY <1>1, <1>2, <1>3, <1>8, <1>14, <1>15, <1>16, <1>17, ClientServed
<1> QED BY <1>1, <1>2, <1>7, <1>8, <1>16, <1>17, <1>18 DEF ClientInv

\* The frame on the cable is taken, and perhaps answered.
LEMMA CableServed ==
  ASSUME ClientInv, toNode # <<>>,
         cli' = cli, reqs' = reqs, rsps' = rsps, gwKey' = gwKey, done' = done, nextId' = nextId,
         minted' = minted, front' = front, toNode' = <<>>, nodeKey' \in Nat,
         \/ fromNode' = fromNode
         \/ \E f \in CableIn : /\ fromNode' = Append(fromNode, f) /\ f.req = toNode[1].req
                               /\ f.ok /\ f.req = "provision" => nodeKey' = toNode[1].key
  PROVE  ClientInv'
<1>1. /\ cli \in CliRecs /\ reqs \in Seq(Asked) /\ rsps \in Seq(Replies) /\ gwKey \in Nat /\ nodeKey \in Nat
      /\ toNode \in Seq(CableOut) /\ fromNode \in Seq(CableIn) /\ done \in SUBSET Nat /\ nextId \in Nat
      /\ StepInv(cli) /\ IdInv(cli, reqs, rsps, nextId) /\ WaitInv(cli, reqs, rsps, gwKey, done)
      /\ CableInv(cli, nodeKey, toNode, fromNode) /\ SharedInv(cli, reqs, gwKey, nodeKey) /\ DoneInv(cli, done)
      /\ minted \in Nat /\ FrontInv(front)
  BY ClientParts
<1>2. /\ cli.step \in {"probe", "provision"} /\ fromNode = <<>>
      /\ \/ toNode[1].req = "provision" /\ toNode[1].key = cli.key /\ cli.step = "provision"
         \/ toNode[1].req = "describe" /\ cli.step = "probe"
  BY <1>1 DEF CableInv
<1>3. PICK k \in Nat : k = nodeKey'
  OBVIOUS
<1>4. PICK g : g = fromNode'
  OBVIOUS
<1>5. g \in Seq(CableIn) /\ CableInv(cli, k, <<>>, g)
  <2>1. CASE g = <<>> BY <1>2, <2>1 DEF CableInv, Quiet
  <2>2. CASE g # <<>>
    <3>1. PICK f \in CableIn : /\ g = Append(fromNode, f) /\ f.req = toNode[1].req
                               /\ f.ok /\ f.req = "provision" => k = toNode[1].key
      BY <1>2, <1>3, <1>4, <2>2
    <3>2. g = Append(<<>>, f) BY <1>2, <3>1
    <3>3. g \in Seq(CableIn) /\ Len(g) = 1 /\ g[1] = f BY <3>2
    <3>4. CASE cli.step = "provision" BY <1>2, <3>1, <3>3, <3>4 DEF CableInv, Quiet
    <3>5. CASE cli.step = "probe" BY <1>2, <3>1, <3>3, <3>5 DEF CableInv, Quiet
    <3> QED BY <1>2, <3>3, <3>4, <3>5
  <2> QED BY <2>1, <2>2
<1>6. SharedInv(cli, reqs, gwKey, k) BY <1>1, <1>2 DEF SharedInv
<1>7. ClientTypes(cli, reqs, rsps, gwKey, k, <<>>, g, done, nextId)
  <2>1. <<>> \in Seq(CableOut)
    OBVIOUS
  <2> QED BY <1>1, <1>5, <2>1 DEF ClientTypes
<1>8. ClientInvOf(cli, reqs, rsps, gwKey, k, <<>>, g, done, nextId)
  BY <1>1, <1>5, <1>6, <1>7 DEF ClientInvOf
<1> QED BY <1>1, <1>3, <1>4, <1>8 DEF ClientInv

\* The cable carries at most one frame.
LEMMA OneFrame ==
  ASSUME ClientInv, toNode # <<>>
  PROVE  /\ Tail(toNode) = <<>> /\ Head(toNode) = toNode[1] /\ toNode[1] \in CableOut
<1>1. toNode \in Seq(CableOut) /\ CableInv(cli, nodeKey, toNode, fromNode) BY ClientParts
<1>2. Len(toNode) = 1 BY <1>1 DEF CableInv
<1>3. PICK t : t = Tail(toNode)
  OBVIOUS
<1>4. t \in Seq(CableOut) /\ Len(t) = 0 /\ Head(toNode) = toNode[1] /\ Head(toNode) \in CableOut
  BY <1>1, <1>2, <1>3, TailIs
<1> QED BY <1>3, <1>4, EmptyIs

LEMMA NodeServesStep ==
  ASSUME ClientInv, NEW ok \in BOOLEAN, NEW heard \in BOOLEAN, NodeServes(ok, heard)
  PROVE  ClientInv'
<1>1. /\ toNode # <<>> /\ cli' = cli /\ reqs' = reqs /\ rsps' = rsps /\ gwKey' = gwKey /\ done' = done
      /\ nextId' = nextId /\ minted' = minted /\ front' = front
  BY DEF NodeServes
<1>2. Tail(toNode) = <<>> /\ Head(toNode) = toNode[1] /\ toNode[1] \in CableOut /\ nodeKey \in Nat
  BY <1>1, OneFrame, ClientParts
<1>3. PICK f : f = toNode[1]
  OBVIOUS
<1>4. /\ nodeKey' = IF ok /\ f.req = "provision" THEN f.key ELSE nodeKey
      /\ toNode' = IF ok /\ f.req = "provision" THEN <<>> ELSE Tail(toNode)
      /\ fromNode' = IF heard THEN Append(fromNode, [req |-> f.req, ok |-> ok]) ELSE fromNode
  BY <1>2, <1>3 DEF NodeServes
<1>5. f.key \in Nat /\ f.req \in {"describe", "provision"} BY <1>2, <1>3 DEF CableOut
<1>6. toNode' = <<>> /\ nodeKey' \in Nat BY <1>2, <1>4, <1>5
<1>7. PICK g : g = [req |-> f.req, ok |-> ok]
  OBVIOUS
<1>8. g \in CableIn /\ g.req = f.req /\ (g.ok => ok) BY <1>5, <1>7 DEF CableIn
<1>9. g.ok /\ g.req = "provision" => nodeKey' = f.key BY <1>4, <1>8
<1>10. fromNode' = fromNode \/ fromNode' = Append(fromNode, g) BY <1>4, <1>7
<1> QED BY <1>1, <1>3, <1>6, <1>8, <1>9, <1>10, CableServed

LEMMA FrameLostStep ==
  ASSUME ClientInv, FrameLost
  PROVE  ClientInv'
<1>1. /\ toNode # <<>> /\ cli' = cli /\ reqs' = reqs /\ rsps' = rsps /\ gwKey' = gwKey /\ done' = done
      /\ nextId' = nextId /\ minted' = minted /\ front' = front /\ nodeKey' = nodeKey /\ fromNode' = fromNode
      /\ toNode' = Tail(toNode)
  BY DEF FrameLost
<1>2. Tail(toNode) = <<>> /\ nodeKey \in Nat BY <1>1, OneFrame, ClientParts
<1> QED BY <1>1, <1>2, CableServed

-----------------------------------------------------------------------------
(***************************************************************************)
(* The client: the TLS front end                                           *)
(***************************************************************************)

Knocking(fr) == {p \in Peers : fr[p].at = "handshake"}

LEMMA KnockingFinite ==
  ASSUME NEW fr
  PROVE  IsFiniteSet(Knocking(fr)) /\ Cardinality(Knocking(fr)) \in Nat
<1>1. IsFiniteSet(Peers) /\ Knocking(fr) \in SUBSET Peers BY ClientAssumption DEF Knocking
<1>2. IsFiniteSet(Knocking(fr)) BY <1>1, FS_Subset
<1> QED BY <1>2, FS_CardinalityType

\* No new handshake: no more of them than there were.
LEMMA FewerKnock ==
  ASSUME NEW fr, NEW gr, FrontInv(fr), \A p \in Peers : gr[p].at = "handshake" => fr[p].at = "handshake"
  PROVE  Cardinality(Knocking(gr)) <= Handshakes
<1>1. Knocking(gr) \in SUBSET Knocking(fr) BY DEF Knocking
<1>2. Cardinality(Knocking(gr)) <= Cardinality(Knocking(fr)) BY <1>1, KnockingFinite, FS_Subset
<1>3. Cardinality(Knocking(fr)) <= Handshakes BY DEF FrontInv, Knocking
<1> QED BY <1>2, <1>3, KnockingFinite, ClientAssumption

LEMMA FrontStep ==
  ASSUME ClientInv, keepFlows, FrontInv(front')
  PROVE  ClientInv'
  BY DEF ClientInv, keepFlows

FrontStates == [at : {"none", "handshake", "proxied"}, age : Nat]

\* A connection's state changes.
LEMMA PeerStep ==
  ASSUME ClientInv, keepFlows, NEW p \in Peers, NEW x \in FrontStates, x.age = 0,
         front' = [front EXCEPT ![p] = x],
         Cardinality(Knocking(front')) <= Handshakes
  PROVE  ClientInv'
<1>1. /\ front \in [Peers -> FrontStates]
      /\ \A q \in Peers : front[q].at = "handshake" => front[q].age < HandshakeTime
  BY ClientParts DEF FrontInv, FrontStates
<1>2. PICK g : g = front'
  OBVIOUS
<1>3. g \in [Peers -> FrontStates] BY <1>1, <1>2
<1>4. g[p] = x /\ \A q \in Peers : q # p => g[q] = front[q] BY <1>1, <1>2
<1>5. 0 < HandshakeTime BY ClientAssumption
<1>6. \A q \in Peers : g[q].at = "handshake" => g[q].age < HandshakeTime BY <1>1, <1>4, <1>5
<1>7. FrontInv(g) BY <1>2, <1>3, <1>6 DEF FrontInv, Knocking, FrontStates
<1> QED BY <1>2, <1>7, FrontStep

LEMMA AcceptStep ==
  ASSUME ClientInv, NEW p \in Peers, Accept(p)
  PROVE  ClientInv'
<1>1. front \in [Peers -> FrontStates] BY ClientParts DEF FrontInv, FrontStates
<1>2. PICK x : x = [at |-> "handshake", age |-> 0]
  OBVIOUS
<1>3. x \in FrontStates /\ x.age = 0 /\ x.at = "handshake" BY <1>2 DEF FrontStates
<1>4. /\ keepFlows /\ front' = [front EXCEPT ![p] = x] /\ Cardinality(handshaking) < Handshakes
      /\ front[p].at = "none"
  BY <1>2 DEF Accept
<1>5. Knocking(front') = Knocking(front) \cup {p}
  <2>1. front'[p] = x /\ \A q \in Peers : q # p => front'[q] = front[q] BY <1>1, <1>4
  <2> QED BY <1>3, <2>1 DEF Knocking
<1>6. p \notin Knocking(front) BY <1>4 DEF Knocking
<1>7. Cardinality(Knocking(front) \cup {p}) = Cardinality(Knocking(front)) + 1
  BY <1>6, KnockingFinite, FS_AddElement
<1>8. Cardinality(Knocking(front)) < Handshakes BY <1>4 DEF Knocking, handshaking
<1>9. Cardinality(Knocking(front')) <= Handshakes BY <1>5, <1>7, <1>8, KnockingFinite, ClientAssumption
<1> QED BY <1>3, <1>4, <1>9, PeerStep

LEMMA LeavesStep ==
  ASSUME ClientInv, keepFlows, NEW p \in Peers, NEW x \in FrontStates, x.age = 0, x.at # "handshake",
         front' = [front EXCEPT ![p] = x]
  PROVE  ClientInv'
<1>1. front \in [Peers -> FrontStates] /\ FrontInv(front) BY ClientParts DEF FrontInv, FrontStates
<1>2. front'[p] = x /\ \A q \in Peers : q # p => front'[q] = front[q] BY <1>1
<1>3. \A q \in Peers : front'[q].at = "handshake" => front[q].at = "handshake" BY <1>2
<1>4. Cardinality(Knocking(front')) <= Handshakes BY <1>1, <1>3, FewerKnock
<1> QED BY <1>4, PeerStep

LEMMA HandshakenStep ==
  ASSUME ClientInv, NEW p \in Peers, NEW ok, Handshaken(p, ok)
  PROVE  ClientInv'
<1>1. PICK y : y = IF ok THEN "proxied" ELSE "none"
  OBVIOUS
<1>2. PICK x : x = [at |-> y, age |-> 0]
  OBVIOUS
<1>3. y \in {"proxied", "none"} BY <1>1
<1>4. x \in FrontStates /\ x.age = 0 /\ x.at # "handshake" BY <1>2, <1>3 DEF FrontStates
<1>5. keepFlows /\ front' = [front EXCEPT ![p] = x] BY <1>1, <1>2 DEF Handshaken
<1> QED BY <1>4, <1>5, LeavesStep

LEMMA ClosedStep ==
  ASSUME ClientInv, NEW p \in Peers, Closed(p)
  PROVE  ClientInv'
<1>1. PICK x : x = [at |-> "none", age |-> 0]
  OBVIOUS
<1>2. x \in FrontStates /\ x.age = 0 /\ x.at # "handshake" BY <1>1 DEF FrontStates
<1>3. keepFlows /\ front' = [front EXCEPT ![p] = x] BY <1>1 DEF Closed
<1> QED BY <1>2, <1>3, LeavesStep

LEMMA FrontTickStep ==
  ASSUME ClientInv, FrontTick
  PROVE  ClientInv'
<1>1. front \in [Peers -> FrontStates] /\ FrontInv(front) BY ClientParts DEF FrontInv, FrontStates
<1>2. PICK g : g = front'
  OBVIOUS
<1>3. keepFlows /\ g = [p \in Peers |->
       IF front[p].at # "handshake" THEN front[p]
       ELSE IF front[p].age + 1 >= HandshakeTime THEN [at |-> "none", age |-> 0]
       ELSE [front[p] EXCEPT !.age = @ + 1]]
  BY <1>2 DEF FrontTick
<1>4. ASSUME NEW p \in Peers
      PROVE  /\ g[p] \in FrontStates
             /\ g[p].at = "handshake" => front[p].at = "handshake" /\ g[p].age < HandshakeTime
  <2>1. PICK x \in FrontStates : x = front[p] BY <1>1
  <2>2. PICK m \in Nat : m = x.age BY <2>1 DEF FrontStates
  <2>3. g[p] = IF x.at # "handshake" THEN x
               ELSE IF m + 1 >= HandshakeTime THEN [at |-> "none", age |-> 0]
               ELSE [x EXCEPT !.age = @ + 1]
    BY <1>3, <2>1, <2>2
  <2>4. CASE x.at # "handshake" BY <2>1, <2>3, <2>4
  <2>5. CASE x.at = "handshake" /\ m + 1 >= HandshakeTime
    <3>1. g[p] = [at |-> "none", age |-> 0] BY <2>3, <2>5
    <3> QED BY <3>1 DEF FrontStates
  <2>6. CASE x.at = "handshake" /\ ~(m + 1 >= HandshakeTime)
    <3>1. g[p] = [x EXCEPT !.age = @ + 1] BY <2>3, <2>6
    <3>2. PICK n \in Nat : n = m + 1
      OBVIOUS
    <3>3. g[p] = [x EXCEPT !.age = n] BY <2>2, <3>1, <3>2
    <3>4. g[p] \in FrontStates /\ g[p].age = n BY <2>1, <3>3 DEF FrontStates
    <3>5. n < HandshakeTime BY <2>6, <3>2, ClientAssumption
    <3> QED BY <2>1, <2>6, <3>4, <3>5
  <2> QED BY <2>4, <2>5, <2>6
<1>5. g \in [Peers -> FrontStates] BY <1>3, <1>4
<1>6. Cardinality(Knocking(g)) <= Handshakes BY <1>1, <1>4, FewerKnock
<1>7. FrontInv(g) BY <1>4, <1>5, <1>6 DEF FrontInv, Knocking, FrontStates
<1> QED BY <1>2, <1>3, <1>7, FrontStep

-----------------------------------------------------------------------------
(***************************************************************************)
(* The client: the theorem                                                 *)
(***************************************************************************)

LEMMA CliInitInv ==
  ASSUME CliInit
  PROVE  ClientInv
<1>1. PICK x \in Exits : x = "" BY DEF Exits
<1>2. PICK e : e = [cmd |-> "none", step |-> "idle", id |-> 0, key |-> 0, exit |-> x, worst |-> 0]
  OBVIOUS
<1>3. cli = e BY <1>1, <1>2 DEF CliInit, Idle
<1>4. "none" \in CliCmdNames /\ "idle" \in CliSteps BY DEF CliCmdNames, CliSteps
<1>5. e \in CliRecs BY <1>2, <1>4 DEF CliRecs
<1>6. e.step = "idle" /\ e.id = 0 BY <1>2
<1>7. PICK g, k : g = gwKey /\ k = nodeKey
  OBVIOUS
<1>8. g \in Nat /\ k \in Nat /\ reqs = <<>> /\ rsps = <<>> /\ toNode = <<>> /\ fromNode = <<>> /\ done = {}
      /\ nextId = 1 /\ minted \in Nat
  BY <1>7 DEF CliInit
<1>9. Len(<<>>) = 0 /\ <<>> \in Seq(Asked) /\ <<>> \in Seq(Replies) /\ <<>> \in Seq(CableOut) /\ <<>> \in Seq(CableIn)
  OBVIOUS
<1>10. ClientTypes(e, <<>>, <<>>, g, k, <<>>, <<>>, {}, 1) BY <1>5, <1>8, <1>9 DEF ClientTypes
<1>11. StepInv(e) /\ WaitInv(e, <<>>, <<>>, g, {}) /\ CableInv(e, k, <<>>, <<>>) /\ SharedInv(e, <<>>, g, k)
       /\ DoneInv(e, {})
  BY <1>6 DEF StepInv, WaitInv, Waits, CableInv, Quiet, SharedInv, DoneInv
<1>12. IdInv(e, <<>>, <<>>, 1) BY <1>6, <1>9 DEF IdInv, Earlier
<1>13. ClientInvOf(e, <<>>, <<>>, g, k, <<>>, <<>>, {}, 1) BY <1>10, <1>11, <1>12 DEF ClientInvOf
<1>14. FrontInv(front)
  <2>1. front = [p \in Peers |-> [at |-> "none", age |-> 0]] BY DEF CliInit
  <2>2. [at |-> "none", age |-> 0] \in FrontStates BY DEF FrontStates
  <2>3. front \in [Peers -> FrontStates] /\ \A p \in Peers : front[p].at # "handshake" BY <2>1, <2>2
  <2>4. Knocking(front) = {} BY <2>3 DEF Knocking
  <2>5. Cardinality(Knocking(front)) = 0 BY <2>4, FS_EmptySet
  <2>6. Cardinality(Knocking(front)) <= Handshakes BY <2>5, ClientAssumption
  <2> QED BY <2>3, <2>6 DEF FrontInv, FrontStates, Knocking
<1> QED BY <1>3, <1>7, <1>8, <1>13, <1>14 DEF ClientInv

LEMMA ClientInvHonest ==
  ASSUME ClientInv
  PROVE  ClientHonest
<1>1. SharedInv(cli, reqs, gwKey, nodeKey) /\ DoneInv(cli, done) /\ FrontInv(front) BY ClientParts
<1>2. PairedIsShared
  <2>1. SUFFICES ASSUME cli.step = "end", cli.exit = "ok", cli.cmd \in CableCmds
                 PROVE  gwKey = cli.key /\ nodeKey = cli.key /\ reqs = <<>>
    <3>1. DOMAIN <<>> = {}
      OBVIOUS
    <3> QED BY <2>1, <3>1 DEF PairedIsShared, CableCmds
  <2> QED BY <1>1, <2>1 DEF SharedInv
<1>3. OkIsTrue BY <1>1 DEF OkIsTrue, DoneInv, NodeCmds
<1>4. FrontStaysOpen
  <2>1. Cardinality(Knocking(front)) < Connections
    BY <1>1, KnockingFinite, ClientAssumption DEF FrontInv, Knocking
  <2>2. handshaking = Knocking(front) BY DEF handshaking, Knocking
  <2>3. \A p \in Knocking(front) : front[p].age < HandshakeTime BY <1>1 DEF FrontInv, Knocking
  <2> QED BY <2>1, <2>2, <2>3 DEF FrontStaysOpen
<1> QED BY <1>2, <1>3, <1>4 DEF ClientHonest

LEMMA ClientStep ==
  ASSUME ClientInv, CliNext
  PROVE  ClientInv'
<1>1. ASSUME NEW c \in {"by name", "by address", "ota", "cable", "cable from the screen", "shell"}, Run(c)
      PROVE  ClientInv'
  <2>1. c \in CliCmdNames \ {"none"} BY <1>1 DEF CliCmdNames, NodeCmds, CableCmds
  <2> QED BY <1>1, <2>1, RunStep
<1>2. CASE TakeAnswer BY <1>2, TakeAnswerStep
<1>3. CASE RpcTimeout BY <1>3, RpcTimeoutStep
<1>4. CASE TakeFrame BY <1>4, TakeFrameStep
<1>5. CASE CableTimeout BY <1>5, CableTimeoutStep
<1>6. CASE ShellTimeout BY <1>6, ShellTimeoutStep
<1>7. ASSUME NEW mine \in BOOLEAN, NEW c \in {"error", "part", "part, one lost before it", "done", "failed"},
             CliChunk(mine, c)
      PROVE  ClientInv'
  BY <1>7, ChunkStep
<1>8. ASSUME NEW o \in {"done", "done, answer lost", "refused"}, Serve(o)
      PROVE  ClientInv'
  BY <1>8, ServeStep
<1>9. ASSUME NEW j \in BOOLEAN, ServeWindow(j)
      PROVE  ClientInv'
  BY <1>9, ServeWindowStep
<1>10. ASSUME NEW ok \in BOOLEAN, NEW heard \in BOOLEAN, NodeServes(ok, heard)
       PROVE  ClientInv'
  BY <1>10, NodeServesStep
<1>11. CASE FrameLost BY <1>11, FrameLostStep
<1>12. ASSUME NEW p \in Peers, Accept(p) \/ Closed(p) \/ \E ok \in BOOLEAN : Handshaken(p, ok)
       PROVE  ClientInv'
  BY <1>12, AcceptStep, ClosedStep, HandshakenStep
<1>13. CASE FrontTick BY <1>13, FrontTickStep
<1> QED BY <1>1, <1>2, <1>3, <1>4, <1>5, <1>6, <1>7, <1>8, <1>9, <1>10, <1>11, <1>12, <1>13 DEF CliNext

(***************************************************************************)
(* A cable pairing that reports success leaves one key at both ends, a     *)
(* command that exits 0 was carried out under its own id, also after       *)
(* attempts given up half way whose requests and answers come late; and    *)
(* stalled TLS handshakes are closed at their deadline and never take every *)
(* connection (cli/src/client, gateway/pair.rs, gateway/tls_front.rs).     *)
(***************************************************************************)
THEOREM ClientIsHonest == MCSpec => []ClientHolds
<1> DEFINE Inv == part = "client" => ClientInv
<1>1. MCInit => Inv BY CliInitInv DEF MCInit
<1>2. Inv /\ [MCNext]_<<svcVars, cliVars, flVars, sesVars, histVars, ctVars, gtVars, part>> => Inv'
  <2>1. SUFFICES ASSUME Inv, MCNext \/ UNCHANGED <<cliVars, part>>, part' = "client"
                 PROVE  ClientInv'
    BY DEF cliVars
  <2>2. CASE part = "client" /\ CliNext BY <2>1, <2>2, ClientStep
  <2>3. CASE UNCHANGED cliVars /\ UNCHANGED part BY <2>1, <2>3 DEF cliVars, ClientInv
  <2>4. part' = part BY <2>1 DEF MCNext, Still
  <2>5. \/ part = "client" /\ CliNext
        \/ UNCHANGED cliVars
    BY <2>1, <2>4 DEF MCNext
  <2> QED BY <2>2, <2>3, <2>4, <2>5
<1>3. Inv => ClientHolds BY ClientInvHonest DEF ClientHolds
<1> QED BY <1>1, <1>2, <1>3, PTL DEF MCSpec

=============================================================================
