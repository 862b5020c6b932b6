---------------------------- MODULE ShellEngine -----------------------------
(***************************************************************************)
(* The device shell (firmware/src/shell.rs with crates/shell): the merged  *)
(* command tree, the settings table over the NS_SHELL namespace, one line  *)
(* run at a time with its response paged out window by window, TAB         *)
(* completion, and the lines of the radio remote shell that run between    *)
(* two awaits of the console's.                                            *)
(*                                                                         *)
(* A line is a sequence of tokens; a token is a word or name=value.  Text  *)
(* is a sequence of characters one or two bytes wide.                      *)
(***************************************************************************)
EXTENDS Integers, Sequences, FiniteSets, SequencesExt

CONSTANTS
  RespCap,    (* RESP_CAP, the paging window in bytes                      *)
  ShellChunk, (* SHELL_CHUNK, bytes of text per frame                      *)
  MaxTokens,  (* MAX_TOKENS                                                *)
  RxDepth     (* depth of SHELL_RX                                         *)

ASSUME RespCap >= 4 /\ ShellChunk >= 2

VARIABLES
  store,  (* NS_SHELL: what is stored under each setting, and frozen       *)
  shRx,   (* SHELL_RX: requests routed to the drain task                   *)
  job,    (* the line being streamed by the drain task                     *)
  ran     (* history: per request, the text its handler wrote on its first *)
          (* and on its latest pass                                        *)

shVars == <<store, shRx, job, ran>>

-----------------------------------------------------------------------------
(* The command tree and the settings table *)

Menu(p) == [path |-> p, kind |-> "menu", args |-> "none", only |-> FALSE, run |-> "none"]
Cmd(p, args, run) == [path |-> p, kind |-> "cmd", args |-> args, only |-> FALSE, run |-> run]
cmd_console_only(p, run) == [Cmd(p, "none", run) EXCEPT !.only = TRUE]

\* One entry of each shape: the read-only `print`s of the other menus differ in wording.
BASE_ROOT == <<Menu(<<"system">>), Cmd(<<"system", "reboot">>, "none", "reboot"),
               Menu(<<"system", "eeprom">>), cmd_console_only(<<"system", "eeprom", "wipe">>, "wipe"),
               Menu(<<"system", "settings">>), Cmd(<<"system", "settings", "print">>, "none", "print"),
               Cmd(<<"system", "settings", "set">>, "assign", "set"),
               Cmd(<<"system", "settings", "get">>, "settings", "get"),
               Cmd(<<"export">>, "none", "export")>>

\* An application: a command in an SDK menu, a menu of its own with the name of an SDK command.
AppRoot == <<Menu(<<"system">>), Cmd(<<"system", "hello">>, "none", "hello"),
             Menu(<<"export">>), Cmd(<<"export", "mode">>, "names", "hello")>>

Tree == BASE_ROOT \o AppRoot

SettingsTable == <<[name |-> "addr", kind |-> "addr"], [name |-> "mode", kind |-> "enum"]>>
Settings == {SettingsTable[i].name : i \in DOMAIN SettingsTable}

\* encode_value: what each kind accepts (`random` is resolved before).
ValueChoices == [addr |-> {"auto", "lit"}, mode |-> {"ascii", "wide"}]
Offers == [addr |-> {"auto", "random"}, mode |-> {"ascii", "wide"}]

tok(w) == [w |-> w, v |-> "-"]
asg(w, v) == [w |-> w, v |-> v]
words(line) == [i \in DOMAIN line |-> line[i].w]

Menus == {<<>>} \cup {n.path : n \in {m \in Range(Tree) : m.kind = "menu"}}
isMenu(p) == p \in Menus
cmds(p) == {i \in DOMAIN Tree : Tree[i].path = p /\ Tree[i].kind = "cmd"}

\* Menus of either tree are descended into together; a menu shadows a command; the base tree's
\* command comes first.
resolve(line) ==
  LET stops == {i \in DOMAIN line : ~isMenu(SubSeq(words(line), 1, i)) \/ line[i].v # "-"} IN
  IF stops = {} THEN [is |-> "menu", cmd |-> 0, at |-> Len(line)]
  ELSE LET i == CHOOSE i \in stops : \A j \in stops : i <= j
           c == cmds(SubSeq(words(line), 1, i)) IN
       IF line[i].v = "-" /\ c # {} THEN [is |-> "cmd", cmd |-> CHOOSE k \in c : \A l \in c : k <= l, at |-> i]
       ELSE [is |-> "none", cmd |-> 0, at |-> i]

-----------------------------------------------------------------------------
(* Text and its paging *)

ch(t, i, w) == [t |-> t, i |-> i, w |-> w]
msg(t) == <<ch(t, 1, 1), ch(t, 2, 1)>>
cost(c) == c.w
bytes(s) == FoldLeft(LAMBDA n, c : n + cost(c), 0, s)
offset(s, i) == bytes(SubSeq(s, 1, i - 1))

\* A setting's line: its name, and its value, whose characters may be wide.
valueText(v) == IF v = "wide" THEN <<ch(v, 1, 2), ch(v, 2, 2)>> ELSE <<ch(v, 1, 1)>>
defaultOf(name) == IF name = "addr" THEN "uid" ELSE "ascii"
effective(st, name) == IF st[name] \in {"unset", "auto"} THEN defaultOf(name) ELSE st[name]
write_setting(st, name, export) ==
  <<ch(name, 1, 1)>> \o
  valueText(IF export /\ name = "addr" /\ st[name] \in {"unset", "auto"} THEN "auto" ELSE effective(st, name))

listing(st, export) ==
  FoldLeft(LAMBDA acc, s : acc \o write_setting(st, s.name, export), <<>>, SettingsTable)

\* Window: what one pass keeps of the handler's output s.  A character cut by the end of the
\* window waits for the next one; one cut by its start (the output drifted) is skipped.
captured(s, skip) ==
  SelectSeq([i \in DOMAIN s |-> [c |-> s[i], in |-> offset(s, i) >= skip
                                                  /\ offset(s, i) + s[i].w <= skip + RespCap]],
            LAMBDA x : x.in)
skipped(s, skip) ==
  IF \E i \in DOMAIN s : offset(s, i) < skip /\ skip < offset(s, i) + s[i].w
  THEN 1 ELSE 0
window(s, skip) ==
  LET got == captured(s, skip)
      text == [i \in DOMAIN got |-> got[i].c]
      consumed == bytes(text) + skipped(s, skip) IN
  [text |-> text, consumed |-> consumed, more |-> skip + consumed < bytes(s)]

-----------------------------------------------------------------------------
(* Handlers: the outcome of a line *)

Says(text, result) == [text |-> text, result |-> result, reboot |-> FALSE, st |-> store]

\* name=value in one token, or the name and the value in two.
parse_assign(args) ==
  IF args = <<>> THEN tok("-")
  ELSE IF args[1].v # "-" THEN args[1]
  ELSE IF Len(args) = 1 THEN tok("-")
  ELSE asg(args[1].w, IF args[2].v = "-" THEN args[2].w ELSE "pair")

settings_set(args, remote) ==
  LET a == parse_assign(args) IN
  IF a.v = "-" THEN Says(msg("usage"), 2)
  ELSE IF Len(args) > (IF args[1].v # "-" THEN 1 ELSE 2) THEN Says(msg("space"), 2)
  ELSE IF a.w \notin Settings THEN Says(msg("unknown"), 1)
  ELSE IF remote /\ a.w = "addr" THEN Says(msg("denied"), 5)
  ELSE IF a.v \notin ValueChoices[a.w] /\ ~(a.w = "addr" /\ a.v = "random") THEN Says(msg("invalid"), 2)
  ELSE IF store.frozen THEN Says(msg("storage"), 3)
  ELSE [Says(msg("ok"), 0) EXCEPT !.st = [store EXCEPT ![a.w] = IF a.v = "random" THEN "lit" ELSE a.v]]

settings_get(args) ==
  IF args = <<>> THEN Says(msg("usage"), 2)
  ELSE IF args[1].w \notin Settings \/ args[1].v # "-" THEN Says(msg("unknown"), 1)
  ELSE Says(write_setting(store, args[1].w, FALSE) \o msg("constraint"), 0)

Wiped == [addr |-> "unset", mode |-> "unset", frozen |-> TRUE]

\* Atomic: old store or empty one.  Rebooted in either case; this boot's store is frozen.
cmd_eeprom_wipe(args, works) ==
  IF args # <<tok("confirm")>> THEN Says(msg("usage"), 2)
  ELSE IF works /\ ~store.frozen THEN [Says(msg("wiped"), 0) EXCEPT !.reboot = TRUE, !.st = Wiped]
  ELSE [Says(msg("failed"), 3) EXCEPT !.reboot = TRUE, !.st = [store EXCEPT !.frozen = TRUE]]

handler(run, args, remote, works) ==
  CASE run = "reboot" -> [Says(msg("rebooting"), 0) EXCEPT !.reboot = TRUE]
    [] run = "print" -> Says(listing(store, FALSE), 0)
    [] run = "export" -> Says(listing(store, TRUE), 0)
    [] run = "set" -> settings_set(args, remote)
    [] run = "get" -> settings_get(args)
    [] run = "wipe" -> cmd_eeprom_wipe(args, works)
    [] OTHER -> Says(msg("hello"), 0)

\* stream_with up to the first pass of the handler.
outcome(line, remote, works) ==
  LET r == resolve(line) IN
  IF Len(line) > MaxTokens THEN Says(msg("many"), 2)
  ELSE IF r.is # "cmd" THEN Says(msg("nosuch"), 1)
  ELSE IF Tree[r.cmd].only /\ remote THEN Says(msg("denied"), 5)
  ELSE handler(Tree[r.cmd].run, SubSeq(line, r.at + 1, Len(line)), remote, works)

-----------------------------------------------------------------------------
(* TAB completion, the cursor after a blank: candidates of the empty word;  *)
(* after `name=`: of the value.                                            *)

complete(line, partial) ==
  LET r == resolve(line) IN
  CASE r.is = "menu" -> {tok(Tree[i].path[Len(line) + 1]) :
                          i \in {k \in DOMAIN Tree : Len(Tree[k].path) = Len(line) + 1
                                                     /\ SubSeq(Tree[k].path, 1, Len(line)) = words(line)}}
    [] r.is = "cmd" /\ Tree[r.cmd].args = "assign" /\ partial # "-" ->
         IF partial \in Settings THEN {asg(partial, v) : v \in Offers[partial]} ELSE {}
    [] r.is = "cmd" /\ Tree[r.cmd].args = "assign" -> {asg(s, "?") : s \in Settings}
    [] r.is = "cmd" /\ Tree[r.cmd].args = "settings" -> {tok(s) : s \in Settings}
    [] r.is = "cmd" /\ Tree[r.cmd].args = "names" -> {tok("arg")}
    [] OTHER -> {}

-----------------------------------------------------------------------------
(* The drain task *)

NoJob == [on |-> FALSE, id |-> 0, n |-> 0, line |-> <<>>, skip |-> 0, chunk |-> 0, out |-> <<>>, more |-> FALSE,
          result |-> 0, reboot |-> FALSE, consumed |-> 0]

\* ConsoleSink::push: the window in pieces of at most ShellChunk bytes, none splitting a character.
pieceEnd(s, from) ==
  CHOOSE e \in from..Len(s) : /\ bytes(SubSeq(s, from, e)) <= ShellChunk
                              /\ e = Len(s) \/ bytes(SubSeq(s, from, e + 1)) > ShellChunk

passed(o, skip) == window(o.text, skip)

\* ShellCommand: the first pass.  Console lines run one at a time.
Dispatch(works) ==
  /\ ~job.on /\ ~job.reboot /\ shRx # <<>> /\ Head(shRx).kind = "cmd"
  /\ LET q == Head(shRx)
         o == outcome(q.line, FALSE, works)
         w == passed(o, 0) IN
     /\ job' = [on |-> TRUE, id |-> q.id, n |-> q.n, line |-> q.line, skip |-> 0, chunk |-> 0, out |-> w.text,
                more |-> w.more, consumed |-> w.consumed, result |-> o.result, reboot |-> o.reboot]
     /\ store' = o.st
     /\ ran' = (q.n :> [text |-> o.text, result |-> o.result, now |-> o.text, wiped |-> o.st = Wiped]) @@ ran
  /\ shRx' = Tail(shRx)

\* One frame of the window; the last, empty one carries the result.
frameOf(text, last) == [kind |-> "response", id |-> job.id, n |-> job.n, chunk |-> job.chunk, last |-> last,
                        result |-> IF last THEN job.result ELSE 0, text |-> text]

\* The window is out: the handler runs again for the next one.
NextWindow ==
  /\ job.on /\ job.out = <<>> /\ job.more
  /\ LET skip == job.skip + job.consumed
         o == outcome(job.line, FALSE, FALSE)
         w == passed(o, skip) IN
     /\ job' = [job EXCEPT !.skip = skip, !.out = w.text, !.more = w.more, !.consumed = w.consumed]
     /\ ran' = [ran EXCEPT ![job.n].now = o.text]
  /\ UNCHANGED <<store, shRx>>

\* A line of the radio remote shell, run while the console's job awaits its queue.
Remote(line) ==
  /\ store' = outcome(line, TRUE, FALSE).st
  /\ UNCHANGED <<shRx, job, ran>>

\* A reset, asked for or not: RAM is gone, the store is readable and writable again.
Rebooted ==
  /\ job' = NoJob /\ shRx' = <<>> /\ store' = [store EXCEPT !.frozen = FALSE]

ShInit == /\ store = [addr |-> "unset", mode |-> "unset", frozen |-> FALSE] /\ shRx = <<>> /\ job = NoJob
          /\ ran = <<>>
=============================================================================
