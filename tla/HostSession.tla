---------------------------- MODULE HostSession -----------------------------
(***************************************************************************)
(* `tower exec`, `tower shell` and `tower complete` on a console port      *)
(* (cli/src/session.rs, main.rs, port.rs) against the device shell         *)
(* (ShellEngine): programs that follow each other on the same port, their  *)
(* waits and time-outs, frames lost on the wire, a device that reboots, is *)
(* reset, or is reflashed from another checkout meanwhile.                 *)
(***************************************************************************)
EXTENDS ShellEngine

CONSTANTS
  WireCap,      (* frames the console's queue and the wire hold            *)
  MaxResponse,  (* MAX_RESPONSE_BYTES                                      *)
  FramingRun,   (* FramingWatch::THRESHOLD                                 *)
  Lines,        (* the lines a user sends                                  *)
  RemoteLines,  (* the lines of the radio remote shell                     *)
  TabLines,     (* the lines completed, with the name before a `=`         *)
  ExecIds,      (* the low 15 bits of a process id, 0 made 1               *)
  MaxReqs,      (* bound: requests sent                                    *)
  MaxPrograms,  (* bound: programs started                                 *)
  MaxFaults     (* bound: frames lost or damaged, resets, reflashes        *)

VARIABLES
  toHost,  (* frames on their way to the host                              *)
  devTag,  (* whether the device's frames carry the host's schema tag      *)
  host,    (* the program on the port                                      *)
  offers,  (* the completions a program was given last                     *)
  sess     (* counters: requests, programs, faults, remote lines; history: *)
           (* the ids of requests abandoned before their answer's end      *)

sesVars == <<store, shRx, job, ran, toHost, devTag, host, offers, sess>>

NoHost == [kind |-> "none", id |-> 0, n |-> 0, at |-> "idle", next |-> 0, text |-> <<>>, incomplete |-> FALSE,
           mismatch |-> FALSE, crc |-> 0, reported |-> FALSE, code |-> 0, last |-> 0]

Hello == [kind |-> "hello", id |-> 0, n |-> 0, chunk |-> 0, last |-> FALSE, result |-> 0, text |-> <<>>]
Log == [Hello EXCEPT !.kind = "log"]
Damaged == [Hello EXCEPT !.kind = "crc"]
\* encode_frame: every frame carries the tag of the build.
tagged(f) == [f |-> f, own |-> devTag]

put(f) == toHost' = Append(toHost, tagged(f))
fault == sess.faults < MaxFaults /\ sess' = [sess EXCEPT !.faults = @ + 1]

-----------------------------------------------------------------------------
(* The device's side of the wire *)

DispatchCmd(works) == Dispatch(works) /\ UNCHANGED <<toHost, devTag, host, offers, sess>>

SendFrame ==
  /\ job.on /\ Len(toHost) < WireCap
  /\ IF job.out # <<>>
     THEN LET e == pieceEnd(job.out, 1) IN
          /\ put(frameOf(SubSeq(job.out, 1, e), FALSE))
          /\ job' = [job EXCEPT !.chunk = @ + 1, !.out = SubSeq(@, e + 1, Len(@))]
     ELSE ~job.more /\ put(frameOf(<<>>, TRUE)) /\ job' = IF job.reboot THEN [job EXCEPT !.on = FALSE] ELSE NoJob
  /\ UNCHANGED <<store, shRx, ran, devTag, host, offers, sess>>

\* dispatch: the response is flushed, bounded, before the reset; the boot says Hello.
DeviceReboot ==
  /\ ~job.on /\ job.reboot
  /\ Rebooted /\ toHost' = IF Len(toHost) < WireCap THEN Append(toHost, tagged(Hello)) ELSE toHost
  /\ UNCHANGED <<ran, devTag, host, offers, sess>>

CompleteReq ==
  /\ ~job.on /\ ~job.reboot /\ shRx # <<>> /\ Head(shRx).kind = "tab" /\ Len(toHost) < WireCap
  /\ LET q == Head(shRx) IN
     put([Hello EXCEPT !.kind = "completions", !.id = q.id, !.n = q.n,
                       !.text = <<[line |-> q.line, offers |-> complete(q.line, q.partial)]>>])
  /\ shRx' = Tail(shRx)
  /\ UNCHANGED <<store, job, ran, devTag, host, offers, sess>>

WindowPass == NextWindow /\ UNCHANGED <<toHost, devTag, host, offers, sess>>

RemoteLine(line) ==
  /\ sess.remote < 1 /\ sess' = [sess EXCEPT !.remote = @ + 1]
  /\ Remote(line) /\ UNCHANGED <<toHost, devTag, host, offers>>

\* A frame is lost or damaged on the wire.
WireFault(gone) ==
  /\ fault /\ toHost # <<>>
  /\ toHost' = IF gone THEN Tail(toHost) ELSE <<[f |-> Damaged, own |-> TRUE]>> \o Tail(toHost)
  /\ UNCHANGED <<store, shRx, job, ran, devTag, host, offers>>

\* A crash or the reset button, perhaps after flashing an image of another checkout.
PowerCycle(tag) ==
  /\ fault /\ Rebooted /\ devTag' = tag /\ toHost' = <<[f |-> Hello, own |-> tag]>>
  /\ UNCHANGED <<ran, host, offers>>

\* A damaged stream (another framing) or the chatter of the log.
Chatter(f) ==
  /\ fault /\ Len(toHost) < WireCap /\ toHost' = Append(toHost, tagged(f))
  /\ UNCHANGED <<store, shRx, job, ran, devTag, host, offers>>

-----------------------------------------------------------------------------
(* The programs *)

\* encode, write: the frame of another checkout is refused by decode_frame, a full SHELL_RX drops it.
request(q) == IF devTag /\ Len(shRx) < RxDepth THEN shRx' = Append(shRx, q) ELSE UNCHANGED shRx

Req(kind, id, line, partial) == [kind |-> kind, id |-> id, n |-> sess.reqs + 1, line |-> line, partial |-> partial]
waiting(h, id) == [h EXCEPT !.at = "wait", !.id = id, !.n = sess.reqs + 1, !.next = 0, !.text = <<>>,
                            !.incomplete = FALSE]

\* open_console: the input buffer is cleared; with --reset the board boots first.  exec_cmd_id is
\* taken from the process id; a shell session counts its own ids from 1, TAB's is 1.
Open(kind, reset, pid) ==
  /\ host.at \in {"idle", "done"} /\ sess.progs < MaxPrograms
  /\ host' = [NoHost EXCEPT !.kind = kind, !.at = IF reset THEN "hello" ELSE "ready", !.last = pid]
  /\ sess' = [sess EXCEPT !.progs = @ + 1]
  /\ IF reset THEN Rebooted /\ toHost' = <<tagged(Hello)>> ELSE toHost' = <<>> /\ UNCHANGED <<store, shRx, job>>
  /\ offers' = <<>> /\ UNCHANGED <<ran, devTag>>

idOf == IF host.kind = "exec" THEN host.last ELSE host.last + 1

Send(line) ==
  /\ host.at = "ready" /\ host.kind \in {"exec", "shell"} /\ sess.reqs < MaxReqs
  /\ request(Req("cmd", idOf, line, "-"))
  /\ host' = [waiting(host, idOf) EXCEPT !.last = idOf]
  /\ sess' = [sess EXCEPT !.reqs = @ + 1]
  /\ UNCHANGED <<store, job, ran, toHost, devTag, offers>>

Tab(t) ==
  /\ host.at = "ready" /\ host.kind = "complete" /\ sess.reqs < MaxReqs
  /\ request(Req("tab", 1, t.line, t.partial))
  /\ host' = waiting(host, 1)
  /\ sess' = [sess EXCEPT !.reqs = @ + 1]
  /\ UNCHANGED <<store, job, ran, toHost, devTag, offers>>

\* A program of one request ends with its code; the shell goes back to its prompt.
Ends(h, code) == [h EXCEPT !.code = code, !.at = IF h.kind = "shell" THEN "ready" ELSE "done"]

\* LockstepGate::admit: evidence of another checkout, cleared by a Hello of this one.
admit(h, x) ==
  LET crc == x.f.kind = "crc" IN
  [h EXCEPT !.mismatch = IF ~crc /\ ~x.own THEN TRUE ELSE IF ~crc /\ x.f.kind = "hello" THEN FALSE ELSE @,
            !.crc = IF crc THEN (IF @ < FramingRun THEN @ + 1 ELSE @) ELSE 0,
            !.reported = @ \/ (crc /\ h.crc + 1 >= FramingRun)]

\* wait_for_hello.
AwaitHello ==
  /\ host.at = "hello" /\ toHost # <<>> /\ toHost' = Tail(toHost)
  /\ LET x == Head(toHost) IN
     host' = IF x.f.kind = "crc" THEN host
             ELSE IF ~x.own THEN [host EXCEPT !.at = "done", !.code = 125]
             ELSE IF x.f.kind = "hello" THEN [host EXCEPT !.at = "ready"] ELSE host
  /\ UNCHANGED <<store, shRx, job, ran, devTag, offers, sess>>

\* No Hello in time: sent anyway.
HelloTimeout ==
  /\ host.at = "hello" /\ toHost = <<>>
  /\ host' = [host EXCEPT !.at = "ready"]
  /\ UNCHANGED <<store, shRx, job, ran, toHost, devTag, offers, sess>>

\* A request given up before the end of its answer; the device may still send the rest.
abandons == sess' = [sess EXCEPT !.left = @ \cup (IF host.at = "wait" THEN {host.id} ELSE {})]

\* Slip: a gap in the chunk numbers goes unnoticed.
Fault_taken(h, f) ==
  LET text == h.text \o f.text
      inc == h.incomplete IN
  IF bytes(text) > MaxResponse THEN Ends([h EXCEPT !.incomplete = TRUE], 1)
  ELSE IF ~f.last THEN [h EXCEPT !.next = f.chunk + 1, !.text = text, !.incomplete = inc]
  ELSE Ends([h EXCEPT !.text = text, !.incomplete = inc], IF inc THEN 1 ELSE IF f.result # 0 THEN f.result ELSE 0)

\* read_response: a matching chunk; exec_line maps the result.
taken(h, f) ==
  LET text == h.text \o f.text
      inc == h.incomplete \/ f.chunk # h.next IN
  IF bytes(text) > MaxResponse THEN Ends([h EXCEPT !.incomplete = TRUE], 1)
  ELSE IF ~f.last THEN [h EXCEPT !.next = f.chunk + 1, !.text = text, !.incomplete = inc]
  ELSE Ends([h EXCEPT !.text = text, !.incomplete = inc], IF inc THEN 1 ELSE IF f.result # 0 THEN f.result ELSE 0)

Read ==
  /\ host.at = "wait" /\ toHost # <<>> /\ toHost' = Tail(toHost)
  /\ LET x == Head(toHost)
         h == admit(host, x)
         want == IF host.kind = "complete" THEN "completions" ELSE "response" IN
     IF x.own /\ x.f.kind = want /\ x.f.id = host.id
     THEN IF want = "response"
          THEN /\ host' = taken(h, x.f) /\ UNCHANGED offers
               /\ IF host'.at # "wait" /\ ~x.f.last THEN abandons ELSE UNCHANGED sess
          ELSE host' = Ends(h, 0) /\ offers' = x.f.text /\ UNCHANGED sess
     ELSE host' = h /\ UNCHANGED <<offers, sess>>
  /\ UNCHANGED <<store, shRx, job, ran, devTag>>

\* The idle deadline: with evidence of another checkout it is a mismatch, else a mute device.
ReadTimeout ==
  /\ host.at = "wait" /\ host' = Ends(host, IF host.mismatch THEN 125 ELSE 124) /\ abandons
  /\ UNCHANGED <<store, shRx, job, ran, toHost, devTag, offers>>

\* The user leaves the shell, or a wait is interrupted.
Quit ==
  /\ host.at \in {"wait", "hello"} \/ (host.at = "ready" /\ host.kind = "shell")
  /\ host' = [host EXCEPT !.at = "idle", !.code = 1] /\ abandons
  /\ UNCHANGED <<store, shRx, job, ran, toHost, devTag, offers>>

-----------------------------------------------------------------------------
SesInit ==
  /\ ShInit /\ toHost = <<>> /\ devTag = TRUE /\ host = NoHost /\ offers = <<>>
  /\ sess = [reqs |-> 0, progs |-> 0, faults |-> 0, remote |-> 0, left |-> {}]

SesNext ==
  \/ SendFrame \/ DeviceReboot \/ CompleteReq \/ WindowPass \/ AwaitHello \/ HelloTimeout \/ Read \/ ReadTimeout
  \/ Quit
  \/ \E w \in BOOLEAN : DispatchCmd(w) \/ WireFault(w) \/ PowerCycle(w)
  \/ \E f \in {Log, Damaged} : Chatter(f)
  \/ \E l \in RemoteLines : RemoteLine(l)
  \/ \E r \in BOOLEAN : Open("shell", r, 0) \/ \E id \in ExecIds : Open("exec", r, id)
  \/ Open("complete", FALSE, 0)
  \/ \E l \in Lines : Send(l)
  \/ \E t \in TabLines : Tab(t)

-----------------------------------------------------------------------------
(* Properties *)

\* Pass by pass: a prefix of output a, then output b from the same byte on (less the character
\* that the seam cuts).
Spliced(text, a, b) ==
  \E i \in 0..Len(a), j \in 0..Len(b) :
    /\ text = SubSeq(a, 1, i) \o SubSeq(b, j + 1, Len(b))
    /\ LET p == offset(a, i + 1)
           q == offset(b, j + 1) IN q \in {p, p + 1} \/ (q < p /\ j = Len(b))

(* `tower exec` reports what happened: exit 0 means that the device ran    *)
(* this very line with success and that the text printed is the whole      *)
(* output of its handler: nothing lost, doubled or taken from the late     *)
(* answer of another program's request, unless that request was given up   *)
(* under the same id.  When a radio line changes the store while the       *)
(* response is paged out, the old output goes over into the new one at one *)
(* place and at the same byte.                                             *)
OkIsWhole ==
  host.kind = "exec" /\ host.at = "done" /\ host.code = 0 /\ host.id \notin sess.left =>
    /\ host.n \in DOMAIN ran /\ ran[host.n].result = 0
    /\ LET r == ran[host.n] IN host.text = r.text \/ Spliced(host.text, r.text, r.now)

(* A line that changes the store is run once: the handler is run again for *)
(* the next window of a response, but only while it changes nothing.       *)
RerunsArePure ==
  job.on /\ job.more =>
    LET o == outcome(job.line, FALSE, TRUE) IN o.st = store /\ ~o.reboot

(* Paging always advances, whatever a concurrent change did to the output. *)
PagingAdvances == job.on /\ job.more => job.consumed > 0

(* After a factory reset nothing is stored before the reboot, also not by  *)
(* the radio's lines that run in between.                                  *)
WipeIsFinal ==
  \A n \in DOMAIN ran :
    ran[n].wiped /\ job.n = n /\ (job.on \/ job.reboot) => store = Wiped

(* The menus and commands TAB offers are ones the walk accepts.            *)
OffersResolve ==
  \A i \in DOMAIN offers : \A c \in offers[i].offers :
    resolve(offers[i].line).is = "menu" => resolve(Append(offers[i].line, c)).is # "none"

ShellSound == OkIsWhole /\ RerunsArePure /\ PagingAdvances /\ WipeIsFinal /\ OffersResolve

(* shell.rs: completion never suggests something execution won't accept.   *)
(* A completed line that is a command is not refused for its arguments.    *)
CompletionAccepted ==
  \A i \in DOMAIN offers : \A c \in offers[i].offers :
    LET fill == IF c.v = "?" THEN {asg(c.w, v) : v \in ValueChoices[c.w]} ELSE {c} IN
    resolve(Append(offers[i].line, c)).is = "cmd" =>
      \E f \in fill : outcome(Append(offers[i].line, f), FALSE, TRUE).result \notin {1, 2}
=============================================================================
