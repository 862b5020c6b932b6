------------------------------- MODULE MCHost -------------------------------
(***************************************************************************)
(* The programs of the host, which share no state inside one behaviour: a  *)
(* behaviour is one of the gateway service, the CLI client, the flasher, a *)
(* shell session, the line history, the console screen and the gateway     *)
(* screen; the variables of the others are 0.                              *)
(***************************************************************************)
EXTENDS GatewayService, CliClient, Flasher, HostSession, LineHistory, ConsoleTui, GatewayTui

VARIABLE part

Parts == {"service", "client", "flasher", "session", "history", "console", "gateway"}

-----------------------------------------------------------------------------
(* Values of the constants *)

ServiceWorld(n, f, e) == [ops |-> n, flaps |-> f, edges |-> e]
MCSvcWorlds == {ServiceWorld(2, 1, 0), ServiceWorld(1, 2, 0), ServiceWorld(3, 0, 0), ServiceWorld(1, 0, 2),
                ServiceWorld(0, 1, 2)}

Word(w) == tok(w)
SetTo(w, v) == <<Word("system"), Word("settings"), Word("set"), asg(w, v)>>
Wipe == <<Word("system"), Word("eeprom"), Word("wipe"), Word("confirm")>>

MCLines == {<<Word("system"), Word("settings"), Word("print")>>, Wipe,
            <<Word("system"), Word("settings"), Word("set"), Word("mode"), Word("wide")>>}
MCRemote == {SetTo("mode", "ascii"), Wipe, SetTo("addr", "random")}
MCTabs == {[line |-> <<>>, partial |-> "-"],
           [line |-> <<Word("system")>>, partial |-> "-"],
           [line |-> <<Word("system"), Word("settings"), Word("set")>>, partial |-> "mode"],
           [line |-> <<Word("system"), Word("settings"), Word("get")>>, partial |-> "-"],
           [line |-> SetTo("mode", "ascii"), partial |-> "-"]}

MCFile == << <<"b">>, <<"a">>, <<"a", "b">>, <<"a">> >>

ScreenWorld(n, tabs, logs, rows, faulty, ticks, views) ==
  [cmds |-> n, tabs |-> tabs, logs |-> logs, rows |-> rows, faults |-> faulty,
   ticks |-> ticks, keys |-> views]
MCTuiWorlds == {ScreenWorld(2, 0, 0, 1, 1, 2, 0), ScreenWorld(3, 0, 0, 1, 0, 0, 0),
                ScreenWorld(2, 0, 0, 1, 0, 0, 1), ScreenWorld(1, 1, 0, 1, 0, 0, 0), ScreenWorld(0, 2, 0, 1, 0, 0, 0),
                ScreenWorld(0, 0, 3, 2, 2, 0, 3)}
\* A world in which PauseFreezes does not hold, see the README.
MCPauseWorlds == {ScreenWorld(0, 0, 3, 2, 0, 0, 1)}

GatewayWorld(known, n, regs, chunks, ticks, plugs, radio, windows) ==
  [known |-> known, keys |-> n, regs |-> regs, queued |-> 0, chunks |-> chunks, ticks |-> ticks,
   plugs |-> plugs, radio |-> radio, windows |-> windows]
MCGtWorlds == {GatewayWorld({"Up", "Down", "Enter", "node", "Esc", "click"}, 3, 3, 0, 2, 0, 0, 0),
               [GatewayWorld({"node", "Down"}, 3, 2, 0, 0, 0, 0, 0) EXCEPT !.queued = 3],
               GatewayWorld({}, 0, 0, 3, 0, 0, 0, 0),
               GatewayWorld({"F1", "F5", "F8"}, 3, 0, 0, 0, 0, 5, 0),
               GatewayWorld({"F2", "Enter", "Down", "Esc"}, 7, 0, 0, 2, 3, 0, 0),
               GatewayWorld({"F2", "Enter", "Esc"}, 5, 0, 0, 3, 0, 0, 3)}
\* A world in which EveryOutcomeTold does not hold, see the README.
MCCableWorlds == {GatewayWorld({"F2", "Enter", "Down", "Esc"}, 7, 0, 0, 2, 3, 0, 0)}

-----------------------------------------------------------------------------
\* The variables of an absent part are 0.
MCInit ==
  /\ part \in Parts
  /\ IF part = "service" THEN SvcInit ELSE
       /\ conf = 0 /\ stage = 0 /\ probes = 0 /\ hosted = 0 /\ pub = 0 /\ link = 0 /\ mq = 0
       /\ ser = 0 /\ inq = 0 /\ todo = 0 /\ world = 0 /\ serialUp = 0 /\ brk = 0 /\ nev = 0
       /\ lost = 0 /\ diagShed = 0 /\ told = 0 /\ ops = 0 /\ flaps = 0 /\ edges = 0
  /\ IF part = "client" THEN CliInit ELSE
       /\ cli = 0 /\ reqs = 0 /\ rsps = 0 /\ gwKey = 0 /\ nodeKey = 0 /\ toNode = 0 /\ fromNode = 0
       /\ done = 0 /\ nextId = 0 /\ minted = 0 /\ cliCmds = 0 /\ front = 0
  /\ IF part = "flasher" THEN FlInit ELSE dev = 0 /\ flashJob = 0 /\ faults = 0
  /\ IF part = "session" THEN SesInit ELSE
       /\ store = 0 /\ shRx = 0 /\ job = 0 /\ ran = 0 /\ toHost = 0 /\ devTag = 0 /\ host = 0
       /\ offers = 0 /\ sess = 0
  /\ IF part = "history" THEN HistInit ELSE
       /\ hist = 0 /\ prompt = 0 /\ file = 0 /\ histRan = 0 /\ typed = 0 /\ blurred = 0
       /\ raced = 0 /\ keys = 0
  /\ IF part = "console" THEN CtInit ELSE
       /\ ct = 0 /\ toDevice = 0 /\ fromDevice = 0 /\ dv = 0 /\ seenOf = 0 /\ left = 0
  /\ IF part = "gateway" THEN GtInit ELSE
       /\ gt = 0 /\ evq = 0 /\ phase = 0 /\ gtWorld = 0 /\ worker = 0 /\ gtTold = 0 /\ allow = 0

\* Everything but the variables of part p stays
Still(p) ==
  /\ IF p = "service" THEN TRUE ELSE UNCHANGED svcVars
  /\ IF p = "client" THEN TRUE ELSE UNCHANGED cliVars
  /\ IF p = "flasher" THEN TRUE ELSE UNCHANGED flVars
  /\ IF p = "session" THEN TRUE ELSE UNCHANGED sesVars
  /\ IF p = "history" THEN TRUE ELSE UNCHANGED histVars
  /\ IF p = "console" THEN TRUE ELSE UNCHANGED ctVars
  /\ IF p = "gateway" THEN TRUE ELSE UNCHANGED gtVars
  /\ UNCHANGED part

MCNext ==
  \/ part = "service" /\ SvcNext /\ Still("service")
  \/ part = "client" /\ CliNext /\ Still("client")
  \/ part = "flasher" /\ FlNext /\ Still("flasher")
  \/ part = "session" /\ SesNext /\ Still("session")
  \/ part = "history" /\ HistNext /\ Still("history")
  \/ part = "console" /\ CtNext /\ Still("console")
  \/ part = "gateway" /\ GtNext /\ Still("gateway")

MCSpec ==
  MCInit /\ [][MCNext]_<<svcVars, cliVars, flVars, sesVars, histVars, ctVars, gtVars, part>>

-----------------------------------------------------------------------------
(* Properties: those of the part that runs *)

\* The gateway service (GatewayService): see ServiceSound.
ServiceHolds == part = "service" => ServiceSound

\* The CLI client and its front (CliClient): see ClientHonest.
ClientHolds == part = "client" => ClientHonest

\* The flasher and the ROM bootloader (Flasher): see FlashSound.
FlashHolds == part = "flasher" => FlashSound

\* A shell session over USB and over the radio (HostSession, ShellEngine;
\* ShellSound), and the line history two of them share (LineHistory, HistorySound).
SessionHolds == (part = "session" => ShellSound) /\ (part = "history" => HistorySound)

\* The console screen (ConsoleTui): see ConsoleScreenSound.
ConsoleScreenHolds == part = "console" => ConsoleScreenSound

\* The gateway screen and its pairing workers (GatewayTui): see GatewayScreenSound.
GatewayScreenHolds == part = "gateway" => GatewayScreenSound
=============================================================================
