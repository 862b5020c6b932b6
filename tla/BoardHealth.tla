---------------------------- MODULE BoardHealth ----------------------------
(***************************************************************************)
(* The reset path of a board: the independent watchdog with its feeder and *)
(* liveness gate (firmware/src/watchdog.rs), the crash record that         *)
(* survives a warm reset (crashlog.rs), the overflow inference from the    *)
(* previous boot's stack paint (stack.rs), the boot-loop guard             *)
(* (bootguard.rs) and the session counter it protects (console.rs), in the *)
(* order the app! macro (lib.rs) runs them at every boot.                  *)
(*                                                                         *)
(* Time is in ticks of the accurate LSE clock.  The watchdog counts the    *)
(* LSI, whose speed differs from part to part: the real timeout of this    *)
(* part is any value from the fast corner to the slow corner.              *)
(***************************************************************************)
EXTENDS Integers

CONSTANTS Nominal,        \* the timeout the application asks for
          Chips,          \* parts: the real timeout, whether the application checks in
          MaxAge,         \* require_checkin's argument
          StallMax,       \* STALL_MAX
          LegitStall,     \* the longest synchronous EEPROM work the store does
          HealthyUptime, LoopThreshold,
          MaxResets       \* bound: boots of one behaviour

\* watchdog.rs: the shortest real timeout, 32 kHz assumed against 56 kHz
fast_corner(t) == (t * 32) \div 56
slow_corner(t) == (t * 32) \div 26

Interval == fast_corner(Nominal) \div 2

ASSUME HealthAssumption ==
    /\ {Nominal, MaxAge, StallMax, LegitStall, HealthyUptime, LoopThreshold, MaxResets} \subseteq Nat
    /\ Chips \subseteq [real : fast_corner(Nominal) .. slow_corner(Nominal), gated : BOOLEAN]
    /\ Interval > 0 /\ Interval + 1 < fast_corner(Nominal)   \* a computation fits before the reset
    /\ LegitStall <= StallMax /\ LegitStall < MaxAge
    /\ LoopThreshold >= 2

NoCrash == "none"
Faults == {"panic", "hardfault"}
Kinds == Faults \cup {"overflow", "watchdog"}

VARIABLES
    stage,      \* "paint", "session", "report", "start", "app", "handler", "lockup"
    ram,        \* .uninit RAM: crash record, run of resets (-1: no magic), paint
    csr,        \* the reset flags, snapshot and cleared at every boot
    bss,        \* RESETS, SESSION_ID: zeroed at every boot
    bootCount,     \* KEY_BOOT_COUNT in the EEPROM
    wdg,        \* the IWDG and the feeder task
    exec,       \* what holds the executor, and whether the main loop is parked
    soc,       \* this part: its real timeout, whether its app checks in
    ghost       \* history, for the properties

healthVars == <<stage, ram, csr, bss, bootCount, wdg, exec, soc, ghost>>

NoWdg == [armed |-> FALSE, kick |-> 0, fed |-> 0, age |-> 0, due |-> 0, withheld |-> FALSE]
\* The executor never runs again in this boot: only the IWDG's count goes on
Frozen(w) == [NoWdg EXCEPT !.armed = w.armed, !.kick = w.kick]
NoExec == [work |-> "idle", left |-> 0, parked |-> FALSE, up |-> 0, watched |-> FALSE]
\* Cold RAM: no magic anywhere, and whatever the stack region holds
ColdRam(deep) == [record |-> NoCrash, runs |-> -1, painted |-> FALSE, deep |-> deep]
NoBss == [resets |-> 0, session |-> -1]

-----------------------------------------------------------------------------
(* The crash record *)

record(r, kind) == [r EXCEPT !.record = kind]

\* Slip: the inference replaces whatever record is pending
Fault_record_unless_fault(r, kind) == record(r, kind)

record_unless_fault(r, kind) ==
    IF r.record \in Faults THEN r ELSE record(r, kind)

clear_kind(r, kind) == IF r.record = kind THEN [r EXCEPT !.record = NoCrash] ELSE r

\* What take() reports: a watchdog record is an intent, trusted after an IWDG reset only
take(r, flags) ==
    IF r.record = "watchdog" /\ "iwdg" \notin flags THEN NoCrash ELSE r.record

-----------------------------------------------------------------------------
(* Resets: RAM survives all of them but a power loss. *)

WarmReset(flag, r) ==
    /\ ghost.boots < MaxResets
    /\ stage' = "paint" /\ csr' = {flag}
    /\ ram' = r
    /\ bss' = NoBss /\ wdg' = NoWdg /\ exec' = NoExec
    /\ UNCHANGED <<bootCount, soc>>

Booted(g) == [g EXCEPT !.boots = @ + 1, !.hung = 0, !.ailing = FALSE, !.stuck = FALSE,
                         !.siege = IF g.stuck /\ g.iwdg # NoCrash THEN @ ELSE 0]

\* on_panic and tower_hard_fault: record, one blocking frame to the console, then reset; the
\* frame's busy waits (blocking_emit_error) have no bound of their own, the IWDG still counts
Crash(kind) ==
    /\ stage \in {"session", "report", "start", "app"}
    /\ stage' = "handler" /\ ram' = record(ram, kind)
    /\ exec' = NoExec
    /\ ghost' = [ghost EXCEPT !.direct = kind, !.ailing = TRUE, !.hung = 0]
    /\ wdg' = Frozen(wdg)
    /\ UNCHANGED <<csr, bss, bootCount, soc>>

HandlerResets ==
    /\ stage = "handler"
    /\ WarmReset("soft", ram)
    /\ ghost' = Booted([ghost EXCEPT !.iwdg = NoCrash])

\* `system reboot`
SoftReset ==
    /\ stage = "app" /\ exec.work = "idle"
    /\ WarmReset("soft", ram)
    /\ ghost' = Booted([ghost EXCEPT !.iwdg = NoCrash])

\* NRST; a bootloader session may have used the stack's RAM meanwhile, and starts the
\* application by a jump that sysboot's __pre_init turns into a software reset
PinReset(flag, deep) ==
    /\ stage # "paint"
    /\ WarmReset(flag, [ram EXCEPT !.deep = deep])
    /\ ghost' = Booted([ghost EXCEPT !.iwdg = NoCrash])

\* The IWDG reaches its count
IwdgReset ==
    /\ wdg.armed /\ wdg.kick = soc.real
    /\ WarmReset("iwdg", ram)
    /\ ghost' = Booted([ghost EXCEPT !.unjust = @ \/ ~ghost.ailing,
            !.iwdg = IF stage = "lockup" THEN "overflow"
                     ELSE IF stage = "handler" THEN "silent" ELSE IF wdg.withheld THEN "watchdog" ELSE "silent"])

PowerLoss ==
    /\ ghost.boots < MaxResets
    /\ stage' = "paint" /\ csr' = {"power"}
    /\ \E deep \in BOOLEAN : ram' = ColdRam(deep)
    /\ bss' = NoBss /\ wdg' = NoWdg /\ exec' = NoExec
    /\ UNCHANGED <<bootCount, soc>>
    /\ ghost' = Booted([ghost EXCEPT !.direct = NoCrash, !.iwdg = NoCrash,
                                     !.wear = 0, !.wasDeep = FALSE])

-----------------------------------------------------------------------------
(* The boot, in the order of the app! macro *)

\* The previous boot painted, RAM survived, and its stack came within OVERFLOW_MARGIN of the
\* bottom before the IWDG ended it
overflowed(r, flags) == r.painted /\ r.deep /\ "iwdg" \in flags

\* stack::paint, then board::init, which snapshots and clears the reset flags
Paint ==
    /\ stage = "paint" /\ stage' = "session"
    /\ LET r == IF overflowed(ram, csr) THEN record_unless_fault(ram, "overflow") ELSE ram
       IN ram' = [r EXCEPT !.painted = TRUE, !.deep = FALSE]
    /\ ghost' = [ghost EXCEPT !.wasDeep = @ \/ overflowed(ram, csr)]
    /\ UNCHANGED <<csr, bss, bootCount, wdg, exec, soc>>

\* bootguard::on_boot
on_boot(r) == IF r.runs >= 0 THEN r.runs + 1 ELSE 0

is_looping(resets) == resets >= LoopThreshold

\* console::init_session; `ok`: whether the store took the write
InitSession(ok) ==
    /\ stage = "session" /\ stage' = "report"
    /\ LET resets == on_boot(ram)
           looping == is_looping(resets)
       IN /\ ram' = [ram EXCEPT !.runs = resets]
          /\ looping => ok
          /\ bootCount' = IF ~looping /\ ok THEN bootCount + 1 ELSE bootCount
          /\ bss' = [resets |-> resets, session |-> bootCount + (IF looping THEN resets ELSE 1)]
          /\ ghost' = [ghost EXCEPT !.wear = @ + (IF looping THEN 0 ELSE 1),
                !.siege = @ + (IF looping THEN 0 ELSE 1),
                !.same = @ \/ (bss'.session = ghost.session /\ ghost.kept),
                !.session = bss'.session, !.kept = ok]
    /\ exec' = [exec EXCEPT !.watched = TRUE]
    /\ UNCHANGED <<csr, wdg, soc>>

\* console::emit_crash_report
Report ==
    /\ stage = "report" /\ stage' = "start"
    /\ ram' = [ram EXCEPT !.record = NoCrash]
    /\ ghost' = [ghost EXCEPT !.told = take(ram, csr), !.toldOf = ghost.direct,
                              !.toldWdg = ghost.iwdg, !.direct = NoCrash,
                              !.toldDeep = ghost.wasDeep, !.wasDeep = FALSE]
    /\ UNCHANGED <<csr, bss, bootCount, wdg, exec, soc>>

\* watchdog::enable, then require_checkin; the feeder's first run is immediate
Enable ==
    /\ stage = "start" /\ stage' = "app"
    /\ wdg' = [NoWdg EXCEPT !.armed = TRUE]
    /\ ghost' = [ghost EXCEPT !.told = NoCrash, !.toldOf = NoCrash, !.toldWdg = NoCrash, !.toldDeep = FALSE]
    /\ UNCHANGED <<ram, csr, bss, bootCount, exec, soc>>

-----------------------------------------------------------------------------
(* The running application *)

live == soc.gated => wdg.age <= MaxAge

Free == stage = "app" /\ exec.work = "idle"

\* One turn of the feeder task
Feed ==
    /\ Free /\ wdg.due = 0
    /\ IF live
         THEN /\ wdg' = [wdg EXCEPT !.kick = 0, !.fed = 0, !.due = Interval, !.withheld = FALSE]
              /\ ram' = IF wdg.withheld THEN clear_kind(ram, "watchdog") ELSE ram
              /\ ghost' = [ghost EXCEPT !.ailing = exec.parked]
         ELSE /\ wdg' = [wdg EXCEPT !.due = Interval, !.withheld = TRUE]
              /\ ram' = IF wdg.withheld THEN ram ELSE record_unless_fault(ram, "watchdog")
              /\ UNCHANGED ghost
    /\ UNCHANGED <<stage, csr, bss, bootCount, exec, soc>>

\* bootguard::healthy_watch
Healthy ==
    /\ exec.watched /\ exec.up = HealthyUptime /\ exec.work = "idle" /\ stage # "lockup"
    /\ ram' = [ram EXCEPT !.runs = 0] /\ bss' = [bss EXCEPT !.resets = 0]
    /\ exec' = [exec EXCEPT !.watched = FALSE]
    /\ ghost' = [ghost EXCEPT !.wear = 0]
    /\ UNCHANGED <<stage, csr, bootCount, wdg, soc>>

\* watchdog::checkin, at the top of a healthy main loop
CheckIn ==
    /\ Free /\ ~exec.parked /\ wdg.age > 0
    /\ wdg' = [wdg EXCEPT !.age = 0]
    /\ UNCHANGED <<stage, ram, csr, bss, bootCount, exec, soc, ghost>>

\* Synchronous work of the loop: EEPROM programs, or computing (an ephemeral key)
Work(kind, n) ==
    /\ Free /\ ~exec.parked /\ wdg.age + n <= MaxAge
    /\ kind = "eeprom" => n <= LegitStall
    /\ kind = "compute" => n = 1
    /\ wdg.fed <= Interval      \* a feeder that is overdue runs before the loop's next turn
    /\ exec' = [exec EXCEPT !.work = kind, !.left = n]
    /\ UNCHANGED <<stage, ram, csr, bss, bootCount, wdg, soc, ghost>>

WorkDone ==
    /\ exec.work \in {"eeprom", "compute"} /\ exec.left = 0
    /\ exec' = [exec EXCEPT !.work = "idle"]
    /\ UNCHANGED <<stage, ram, csr, bss, bootCount, wdg, soc, ghost>>

\* The hangs: a loop parked on an await, code that never yields (programming the EEPROM
\* or not), and the lockup of a stack overflow
LoopParks ==
    /\ Free /\ ~exec.parked
    /\ exec' = [exec EXCEPT !.parked = TRUE]
    /\ ghost' = [ghost EXCEPT !.ailing = TRUE, !.hung = 0, !.stuck = exec.up = 0]
    /\ UNCHANGED <<stage, ram, csr, bss, bootCount, wdg, soc>>

LoopResumes ==
    /\ Free /\ exec.parked
    /\ exec' = [exec EXCEPT !.parked = FALSE]
    /\ wdg' = [wdg EXCEPT !.age = 0]
    /\ ghost' = [ghost EXCEPT !.hung = 0, !.stuck = FALSE]
    /\ UNCHANGED <<stage, ram, csr, bss, bootCount, soc>>

Hang(kind) ==
    /\ Free /\ ~exec.parked
    /\ exec' = [exec EXCEPT !.work = kind]
    /\ ghost' = [ghost EXCEPT !.ailing = TRUE, !.hung = 0]
    /\ UNCHANGED <<stage, ram, csr, bss, bootCount, wdg, soc>>

Overflow ==
    /\ Free /\ ~exec.parked
    /\ stage' = "lockup" /\ ram' = [ram EXCEPT !.deep = TRUE]
    /\ ghost' = [ghost EXCEPT !.ailing = TRUE, !.hung = 0]
    /\ wdg' = Frozen(wdg) /\ exec' = NoExec
    /\ UNCHANGED <<csr, bss, bootCount, soc>>

\* A boot whose stack legitimately came within OVERFLOW_MARGIN of the bottom
GoDeep ==
    /\ Free /\ ~ram.deep
    /\ ram' = [ram EXCEPT !.deep = TRUE]
    /\ UNCHANGED <<stage, csr, bss, bootCount, wdg, exec, soc, ghost>>

-----------------------------------------------------------------------------
(* Time *)

pets == wdg.armed /\ live /\ wdg.fed <= Interval + StallMax

Hung == stage \in {"lockup", "handler"} \/ exec.parked \/ exec.work \in {"spin", "endless"}
Writing == exec.work \in {"eeprom", "endless"} /\ stage = "app"
Up(n, cap) == IF n < cap THEN n + 1 ELSE n

\* Nothing is due that the code does before time passes
NothingDue ==
    /\ ~(wdg.armed /\ wdg.kick = soc.real)
    /\ ~(Free /\ wdg.due = 0)
    /\ ~(exec.watched /\ exec.up = HealthyUptime /\ exec.work = "idle" /\ stage # "lockup")
    /\ ~(Free /\ ~exec.parked /\ soc.gated /\ wdg.age = MaxAge)
    /\ ~(exec.work \in {"eeprom", "compute"} /\ exec.left = 0)

\* While the EEPROM is programmed every write reloads the watchdog (pet_during_stall)
HealthTick ==
    /\ (stage \in {"app", "lockup"} \/ (stage = "handler" /\ wdg.armed)) /\ NothingDue
    /\ IF stage = "app"
         THEN /\ wdg' = [wdg EXCEPT !.kick = IF Writing /\ pets THEN 1 ELSE @ + 1,
                                    !.fed = Up(@, Interval + StallMax + 1),
                                    !.age = IF soc.gated THEN Up(@, MaxAge + 1) ELSE 0,
                                    !.due = IF @ = 0 THEN 0 ELSE @ - 1]
              /\ exec' = [exec EXCEPT !.left = IF @ = 0 THEN 0 ELSE @ - 1,
                                      !.up = Up(@, HealthyUptime)]
         ELSE wdg' = [wdg EXCEPT !.kick = @ + 1] /\ UNCHANGED exec
    /\ ghost' = [ghost EXCEPT !.hung = IF Hung THEN @ + 1 ELSE 0]
    /\ soc.gated \/ ~exec.parked
    /\ UNCHANGED <<stage, ram, csr, bss, bootCount, soc>>

-----------------------------------------------------------------------------
HealthInit ==
    /\ stage = "paint" /\ csr = {"power"} /\ bootCount = 0
    /\ \E deep \in BOOLEAN : ram = ColdRam(deep)
    /\ bss = NoBss /\ wdg = NoWdg /\ exec = NoExec
    /\ soc \in Chips
    /\ ghost = [boots |-> 0, hung |-> 0, stuck |-> FALSE, siege |-> 0, ailing |-> FALSE, unjust |-> FALSE,
                direct |-> NoCrash, iwdg |-> NoCrash, told |-> NoCrash, toldOf |-> NoCrash,
                toldWdg |-> NoCrash, wasDeep |-> FALSE, toldDeep |-> FALSE, wear |-> 0,
                same |-> FALSE, session |-> -2, kept |-> TRUE]

HealthNext ==
    \/ \E kind \in Faults : Crash(kind)
    \/ HandlerResets \/ SoftReset \/ IwdgReset \/ PowerLoss
    \/ \E flag \in {"pin", "soft"}, deep \in BOOLEAN : PinReset(flag, deep)
    \/ Paint \/ (\E ok \in BOOLEAN : InitSession(ok)) \/ Report \/ Enable
    \/ Feed \/ Healthy \/ CheckIn \/ WorkDone \/ LoopParks \/ LoopResumes \/ Overflow \/ GoDeep
    \/ \E n \in 1 .. MaxAge : Work("eeprom", n)
    \/ Work("compute", 1)
    \/ \E kind \in {"spin", "endless"} : Hang(kind)
    \/ HealthTick

HealthSpec == HealthInit /\ [][HealthNext]_healthVars

-----------------------------------------------------------------------------
(* Properties *)

\* No chip, however fast its LSI, resets a board whose executor and main loop are healthy:
\* EEPROM work as long as the store ever does, and computing, included.
HealthyIsNeverReset == ~ghost.unjust

\* A hang is over after a bounded time: the age of the last check-in, one feed interval and the
\* real timeout for a parked loop (require_checkin's doc), the stall that is covered at most for
\* code that programs the EEPROM for ever, the real timeout alone otherwise.
HangIsBounded ==
    wdg.armed /\ Hung =>
        ghost.hung <= soc.real +
            (IF exec.parked THEN MaxAge + Interval
             ELSE IF exec.work = "endless" THEN Interval + StallMax ELSE 0)

\* The boot report tells what happened: a panic or fault record is reported, as the last one that
\* happened, and never replaced by an inference; a watchdog report means the IWDG ended a boot
\* whose pet was withheld; an overflow report means an IWDG reset with the paint consumed.
ReportIsTrue ==
    stage = "start" =>
        /\ ghost.toldOf # NoCrash => ghost.told = ghost.toldOf
        /\ ghost.told \in Faults => ghost.told = ghost.toldOf
        /\ ghost.told = "watchdog" => ghost.toldWdg = "watchdog"
        /\ ghost.told = "overflow" => ghost.toldDeep
        /\ ghost.toldOf = NoCrash /\ ghost.toldWdg = "watchdog" => ghost.told \in {"watchdog", "overflow"}
        /\ ghost.toldOf = NoCrash /\ ghost.toldWdg = "overflow" => ghost.told = "overflow"

\* A unit that loops writes its session counter at most LoopThreshold times between two healthy
\* uptimes or power losses, and the session id a host sees still differs from the boot before
\* (as long as the store took that boot's write).
LoopIsSpared ==
    /\ ghost.wear <= LoopThreshold
    /\ ~ghost.same

\* bootguard.rs: a unit in a reset loop, "a persistent hang caught by the watchdog", stops writing
\* its per-boot state.  Here: boots whose loop hangs from the start and that the IWDG ends.
WedgeLoopIsSpared == ghost.siege <= LoopThreshold

HealthSound == HealthyIsNeverReset /\ HangIsBounded /\ ReportIsTrue /\ LoopIsSpared
=============================================================================
