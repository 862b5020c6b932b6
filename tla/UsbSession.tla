----------------------------- MODULE UsbSession -----------------------------
(***************************************************************************)
(* The USB side of the rev 1.3 console (firmware/src/console/usb.rs,       *)
(* sysboot.rs): the manager that probes for a host and backs off, the      *)
(* session with its supervisor and bus watch, and the reset emulation that *)
(* reads RTS/DTR the way the r2 board's circuit does, against the line     *)
(* writes of the `tower` CLI and of any other program that opens the port. *)
(*                                                                         *)
(* A tick is about 10 ms of a session.  Between sessions time is counted   *)
(* in polls.  Tasks run before the next tick; two line writes meant        *)
(* together are at most Gap ticks apart.                                   *)
(***************************************************************************)
EXTENDS Integers, Sequences

CONSTANTS
  MinHold,     (* RESET_MIN_HOLD                                           *)
  LineSettle,  (* LINE_SETTLE                                              *)
  OpenSettle,  (* LINE_OPEN_SETTLE                                         *)
  NoHost,      (* NO_HOST_TIMEOUT                                          *)
  Pulse,       (* the CLI's RESET_PULSE, BOOT_RESET_HOLD, BOOT_RELEASE_HOLD*)
  Gap,         (* bound: delay between two line writes meant together      *)
  BackoffMax,  (* BACKOFF_MAX, in polls                                    *)
  MaxPrograms, (* bound: host programs                                     *)
  MaxPlugs     (* bound: changes of the plug                               *)

ASSUME UsbAssumption ==
  /\ {MinHold, LineSettle, OpenSettle, NoHost, Pulse, Gap, BackoffMax} \subseteq Nat
  /\ Gap < MinHold /\ Gap < LineSettle /\ MinHold <= Pulse /\ LineSettle < Pulse

VARIABLES
  plug,   (* what is at the other end: nothing, a charger, a host, asleep  *)
  mgr,    (* manager: where it is, its back-off and the polls to wait      *)
  usb,    (* the session: pull-up, CONFIGURED, SUSPENDED, the supervisor   *)
  line,   (* RTS, DTR and lines_loop (asked: the last writer, a history)     *)
  prog,   (* the host program that holds the port and its line writes      *)
  usbLog  (* history: reboots nobody asked for, reboots asked and missed   *)

usbVars == <<plug, mgr, usb, line, prog, usbLog>>

NoSession == [pull |-> FALSE, conf |-> FALSE, seen |-> FALSE, susp |-> FALSE, event |-> FALSE, sup |-> "off",
              timer |-> 0, console |-> FALSE]
NoLines == [rts |-> FALSE, dtr |-> FALSE, changed |-> FALSE, since |-> -1, settle |-> -1, asked |-> "none"]
NoProg == [kind |-> "none", script |-> <<>>, dwell |-> 0]
cap(n) == IF n < MinHold THEN n ELSE MinHold

-----------------------------------------------------------------------------
(* The manager *)

host_probe == plug # "none"

\* Idle: no host forgets the back-off; a port that did not enumerate us is left alone for it.
Poll ==
  /\ mgr.at = "idle"
  /\ mgr' = IF ~host_probe THEN [at |-> "idle", backoff |-> 1, wait |-> 0]
            ELSE IF mgr.wait > 0 THEN [mgr EXCEPT !.wait = @ - 1]
            ELSE [mgr EXCEPT !.at = "debounce"]
  /\ UNCHANGED <<plug, usb, line, prog, usbLog>>

\* The second probe starts a session: the pull-up goes on.
Debounce ==
  /\ mgr.at = "debounce"
  /\ IF host_probe
     THEN mgr' = [mgr EXCEPT !.at = "session"] /\ usb' = [NoSession EXCEPT !.pull = TRUE, !.sup = "host", !.timer = NoHost]
     ELSE mgr' = [mgr EXCEPT !.at = "idle"] /\ UNCHANGED usb
  /\ line' = NoLines /\ UNCHANGED <<plug, prog, usbLog>>

\* The session ends: powered down; a host that had us clears the back-off.
Ended(configured) ==
  /\ usb' = NoSession /\ line' = NoLines /\ prog' = NoProg
  /\ mgr' = IF configured THEN [at |-> "idle", backoff |-> 1, wait |-> 0]
            ELSE [at |-> "idle", wait |-> mgr.backoff,
                  backoff |-> IF 2 * mgr.backoff < BackoffMax THEN 2 * mgr.backoff ELSE BackoffMax]
  /\ UNCHANGED <<plug, usbLog>>

-----------------------------------------------------------------------------
(* The bus *)

\* BusWatch: the flag and the event that wakes the supervisor.
configured == usb' = [usb EXCEPT !.conf = TRUE, !.seen = TRUE, !.event = TRUE]

\* The peripheral's own reset at enable time, then perhaps a suspend while the host debounces.
EarlySuspend ==
  /\ usb.pull /\ ~usb.seen /\ usb.timer = NoHost /\ ~usb.susp
  /\ usb' = [usb EXCEPT !.susp = TRUE, !.event = TRUE]
  /\ UNCHANGED <<plug, mgr, line, prog, usbLog>>

\* A host resets the bus: flags and lines go back.
BusReset ==
  /\ usb.pull /\ plug = "host"
  /\ usb' = [usb EXCEPT !.conf = FALSE, !.susp = FALSE, !.event = TRUE]
  /\ line' = [line EXCEPT !.rts = FALSE, !.dtr = FALSE, !.changed = TRUE] /\ prog' = NoProg
  /\ UNCHANGED <<plug, mgr, usbLog>>

Configure ==
  /\ usb.pull /\ plug = "host" /\ ~usb.conf /\ ~usb.susp /\ ~line.changed
  /\ configured
  /\ UNCHANGED <<plug, mgr, line, prog, usbLog>>

\* The plug changes, or the host falls asleep: no SOF, the bus is suspended.
Replug(p) ==
  /\ usbLog.plugs < MaxPlugs /\ p # plug /\ plug' = p
  /\ usbLog' = [usbLog EXCEPT !.plugs = @ + 1]
  /\ IF usb.pull /\ p # "host" THEN usb' = [usb EXCEPT !.susp = TRUE, !.event = TRUE] ELSE UNCHANGED usb
  /\ prog' = NoProg
  /\ UNCHANGED <<mgr, line>>

-----------------------------------------------------------------------------
(* The supervisor *)

bus_suspended == usb.seen /\ usb.susp
console_wanted == usb.conf /\ (line.rts \/ line.dtr)
supWaits == CASE usb.sup = "host" -> usb.conf
              [] usb.sup = "closed" -> bus_suspended \/ console_wanted
              [] usb.sup = "up" -> bus_suspended \/ ~console_wanted
              [] OTHER -> FALSE

\* Woken by an event, or come to a new wait_for, it looks at what it waits for.
Supervise ==
  /\ usb.event /\ usb.sup \in {"host", "closed", "up"}
  /\ IF ~supWaits THEN usb' = [usb EXCEPT !.event = FALSE] /\ UNCHANGED <<mgr, line, prog, plug, usbLog>>
     ELSE IF usb.sup # "host" /\ bus_suspended THEN Ended(TRUE)
     ELSE /\ usb' = CASE usb.sup = "closed" -> [usb EXCEPT !.sup = "opening", !.timer = OpenSettle]
                      [] OTHER -> [usb EXCEPT !.sup = "closed", !.console = FALSE, !.event = TRUE]
          /\ UNCHANGED <<mgr, line, prog, plug, usbLog>>

\* After the settle the port may be closed again.
OpenSettled ==
  /\ usb.sup = "opening" /\ usb.timer = 0
  /\ usb' = IF console_wanted THEN [usb EXCEPT !.sup = "up", !.console = TRUE, !.event = TRUE]
            ELSE [usb EXCEPT !.sup = "closed", !.event = TRUE]
  /\ UNCHANGED <<plug, mgr, line, prog, usbLog>>

NobodyCame ==
  /\ usb.sup = "host" /\ usb.timer = 0 /\ ~usb.conf
  /\ Ended(FALSE)

-----------------------------------------------------------------------------
(* Reset emulation *)

asserted == line.rts /\ ~line.dtr

\* control_changed: remembers since when RESET is asserted, and acts on its release.
lines_loop ==
  /\ line.changed /\ line.settle = -1
  /\ usb' = [usb EXCEPT !.event = TRUE]
  /\ line' = [line EXCEPT !.changed = FALSE,
                          !.since = IF ~usb.conf \/ ~asserted THEN -1 ELSE IF @ = -1 THEN 0 ELSE @,
                          !.settle = IF usb.conf /\ ~asserted /\ line.since >= MinHold THEN LineSettle ELSE -1]
  /\ UNCHANGED <<plug, mgr, prog, usbLog>>

\* The second line write has landed: BOOT0 decides.  The way into the bootloader erases the
\* start of the application first (on_boot).
Reboot ==
  /\ line.settle = 0
  /\ LET into == IF line.dtr /\ ~line.rts THEN "boot" ELSE "app" IN
     usbLog' = [usbLog EXCEPT !.spurious = @ \/ line.asked \notin {"app", "boot"}
                                             \/ (prog.kind # "none" /\ line.asked # into)]
  /\ usb' = NoSession /\ line' = NoLines /\ prog' = NoProg /\ mgr' = [at |-> "idle", backoff |-> 1, wait |-> 0]
  /\ UNCHANGED plug

-----------------------------------------------------------------------------
(* Host programs *)

W(rts, dtr, min, max) == [rts |-> rts, dtr |-> dtr, min |-> min, max |-> max]

\* Line writes of a program that opens the port: both lines in one request, or one by one.
Opens == {<<W(TRUE, TRUE, 0, 99)>>, <<W(TRUE, FALSE, 0, Gap), W(TRUE, TRUE, 0, 99)>>,
          <<W(FALSE, TRUE, 0, Gap), W(TRUE, TRUE, 0, 99)>>}
Closes == {<<W(FALSE, FALSE, 0, 99)>>, <<W(TRUE, FALSE, 0, Gap), W(FALSE, FALSE, 0, 99)>>,
           <<W(FALSE, TRUE, 0, Gap), W(FALSE, FALSE, 0, 99)>>}

\* set_run_baseline and pulse_reset_into_app.
ResetLines == <<W(TRUE, TRUE, 1, 2), W(TRUE, FALSE, Pulse, Pulse), W(FALSE, FALSE, 0, 99)>>
\* reset_into_bootloader.
BootLines == <<W(TRUE, TRUE, 1, 2), W(TRUE, FALSE, Pulse, Pulse), W(TRUE, TRUE, 0, Gap), W(FALSE, TRUE, Pulse, Pulse),
               W(FALSE, FALSE, 0, 99)>>

Program(kind, script) ==
  /\ usb.conf /\ plug = "host" /\ ~usb.susp /\ usbLog.progs < MaxPrograms
  /\ prog.kind = "none" \/ (prog.kind = "open" /\ Len(prog.script) = 1)
  /\ ~line.changed /\ (kind = "open" => prog.kind = "none")
  /\ kind = "close" => prog.kind = "open" /\ line.rts /\ line.dtr
  /\ prog' = [kind |-> kind, script |-> <<W(line.rts, line.dtr, 0, 99)>> \o script, dwell |-> 0]
  /\ usbLog' = [usbLog EXCEPT !.progs = @ + 1]
  /\ UNCHANGED <<plug, mgr, usb, line>>

\* The next line write of the script.
LineWrite ==
  /\ Len(prog.script) > 1 /\ prog.dwell >= prog.script[1].min
  /\ LET w == prog.script[2] IN
     /\ line' = [line EXCEPT !.rts = w.rts, !.dtr = w.dtr, !.changed = TRUE, !.asked = prog.kind]
     /\ prog' = IF prog.kind = "close" /\ Len(prog.script) = 2 THEN NoProg
                ELSE [prog EXCEPT !.script = Tail(prog.script), !.dwell = 0]
  /\ UNCHANGED <<plug, mgr, usb, usbLog>>

\* A script that ran to its end on a configured device has rebooted it by then.
scriptDone == prog.kind \in {"app", "boot"} /\ Len(prog.script) = 1 /\ prog.dwell > LineSettle + 1

-----------------------------------------------------------------------------
UsbTick ==
  /\ usb.pull /\ ~(usb.event /\ usb.sup \in {"host", "closed", "up"})
  /\ ~(line.changed /\ line.settle = -1) /\ line.settle # 0
  /\ ~(usb.sup \in {"opening", "host"} /\ usb.timer = 0)
  /\ Len(prog.script) > 1 => prog.dwell < prog.script[1].max
  /\ usb' = [usb EXCEPT !.timer = IF @ > 0 THEN @ - 1 ELSE 0]
  /\ line' = [line EXCEPT !.since = IF @ = -1 THEN -1 ELSE cap(@ + 1), !.settle = IF @ > 0 THEN @ - 1 ELSE @]
  /\ prog' = [prog EXCEPT !.dwell = IF prog.kind # "none" /\ @ < Pulse + LineSettle + 2 THEN @ + 1 ELSE @]
  /\ usbLog' = [usbLog EXCEPT !.missed = @ \/ scriptDone]
  /\ UNCHANGED <<plug, mgr>>

UsbInit ==
  /\ plug = "none" /\ mgr = [at |-> "idle", backoff |-> 1, wait |-> 0]
  /\ usb = NoSession /\ line = NoLines /\ prog = NoProg
  /\ usbLog = [spurious |-> FALSE, missed |-> FALSE, progs |-> 0, plugs |-> 0]

UsbNext ==
  \/ Poll \/ Debounce \/ EarlySuspend \/ BusReset \/ Configure \/ Supervise \/ OpenSettled \/ NobodyCame
  \/ lines_loop \/ Reboot \/ LineWrite \/ UsbTick
  \/ \E p \in {"none", "charger", "host", "asleep"} : Replug(p)
  \/ \E s \in Opens : Program("open", s)
  \/ \E s \in Closes : Program("close", s)
  \/ Program("app", ResetLines) \/ Program("boot", BootLines)

-----------------------------------------------------------------------------
(* Properties *)

(* Opening or closing the port never resets the board, whatever the order  *)
(* of its line writes; a reset sequence of the CLI always does, into what  *)
(* it asked for.                                                           *)
ResetsAreAsked == ~usbLog.spurious /\ ~usbLog.missed

(* The supervisor never sleeps on what it waits for: every change of the   *)
(* bus or of the lines has its event, also one made while it was busy.     *)
NoMissedEvent == usb.pull /\ ~line.changed /\ line.settle = -1 /\ supWaits => usb.event

(* The console serves an open port of a configured device: when the tasks  *)
(* have run it is up only while a program holds the port, and the pull-up  *)
(* is off once the bus of a configured device went quiet.                  *)
ConsoleFollowsPort ==
  usb.pull /\ ~usb.event /\ ~line.changed /\ line.settle = -1 =>
    /\ usb.console => console_wanted
    /\ ~bus_suspended \/ usb.sup \in {"host", "opening"}

UsbSound == ResetsAreAsked /\ NoMissedEvent /\ ConsoleFollowsPort
=============================================================================
