---------------------------- MODULE LineHistory -----------------------------
(***************************************************************************)
(* The command history (cli/src/history.rs) that the console screen, the   *)
(* gateway screen's shell pane and `tower shell` share, and the prompt     *)
(* that uses it: Up / Down browsing, the Ctrl-R search, the editing keys   *)
(* of the two screens, and the file every session appends to.              *)
(*                                                                         *)
(* A line is a sequence of words; one editing key inserts or removes a     *)
(* word.  A word of a query occurs in a command that has it.  Each screen  *)
(* is a session; sessions start, run and end independently, and the file   *)
(* is all they share.                                                      *)
(***************************************************************************)
EXTENDS Integers, Sequences, FiniteSets, SequencesExt

CONSTANTS
  LineWords,    (* words that can be typed                                 *)
  MaxWords,     (* bound: words of a line                                  *)
  MaxEntries,   (* MAX_ENTRIES                                             *)
  Screens,      (* the sessions                                            *)
  StartFile,    (* what the history file held before                       *)
  MaxKeys,      (* bound: keys pressed                                     *)
  MaxHistRuns     (* bound: commands run                                     *)

ASSUME MaxEntries > 0

VARIABLES
  hist,     (* per session: the in-memory history                          *)
  prompt,   (* per session: the line, the cursor and the search            *)
  file,     (* the history file's lines, oldest first                      *)
  histRan,      (* history: the commands that were run and kept, in order      *)
  typed,    (* history: per session, the line its user edited last         *)
  blurred,  (* history: a session's user killed text of a browsed entry    *)
  raced,    (* history: which of them were appended inside another         *)
            (* session's rewrite                                           *)
  keys

histVars == <<hist, prompt, file, histRan, typed, blurred, raced, keys>>

NoNav == -1
NoHit == -1
NoSearch == [on |-> FALSE, query |-> <<>>, hit |-> NoHit, trail |-> <<>>, original |-> <<>>, ocursor |-> 0]

in_memory == [open |-> FALSE, console |-> FALSE, entries |-> <<>>, nav |-> NoNav, draft |-> <<>>,
              rewriting |-> FALSE]

EmptyPrompt == [line |-> <<>>, cursor |-> 0, search |-> NoSearch]

HistInit ==
  /\ hist = [s \in Screens |-> in_memory]
  /\ prompt = [s \in Screens |-> EmptyPrompt]
  /\ file = StartFile /\ histRan = StartFile /\ keys = 0
  /\ typed = [s \in Screens |-> <<>>] /\ blurred = [s \in Screens |-> FALSE] /\ raced = {}

newest(e) == IF Len(e) > MaxEntries THEN SubSeq(e, Len(e) - MaxEntries + 1, Len(e)) ELSE e

-----------------------------------------------------------------------------
(* History *)

stop_browsing(h) == [h EXCEPT !.nav = NoNav, !.draft = <<>>]

\* Up: the line shown, or the same line at the oldest entry or with no history.
nav_up(h, line) ==
  CASE h.nav = NoNav /\ h.entries = <<>> -> [h |-> h, line |-> line, moved |-> FALSE]
    [] h.nav = NoNav /\ h.entries # <<>> ->
         [h |-> [h EXCEPT !.nav = Len(h.entries) - 1, !.draft = line], line |-> Last(h.entries), moved |-> TRUE]
    [] h.nav = 0 -> [h |-> h, line |-> line, moved |-> FALSE]
    [] h.nav > 0 -> [h |-> [h EXCEPT !.nav = @ - 1], line |-> h.entries[h.nav], moved |-> TRUE]

nav_down(h, line) ==
  CASE h.nav = NoNav -> [h |-> h, line |-> line, moved |-> FALSE]
    [] h.nav # NoNav /\ h.nav + 1 < Len(h.entries) ->
         [h |-> [h EXCEPT !.nav = @ + 1], line |-> h.entries[h.nav + 2], moved |-> TRUE]
    [] OTHER -> [h |-> stop_browsing(h), line |-> h.draft, moved |-> TRUE]

\* Is the command kept?  The same command twice in a row is kept once.
kept(h, line) == line # <<>> /\ (h.entries = <<>> \/ Last(h.entries) # line)

push_entry(h, line) ==
  LET b == stop_browsing(h) IN
  IF kept(h, line) THEN [b EXCEPT !.entries = newest(Append(@, line))] ELSE b

-----------------------------------------------------------------------------
(* Search *)

occurs(entry, query) == \A w \in ToSet(query) : w \in ToSet(entry)

\* The newest index below top whose entry matches and is not excluded.
find_older(h, query, top, excluded) ==
  LET ok == {i \in 0 .. top - 1 : occurs(h.entries[i + 1], query) /\ h.entries[i + 1] \notin excluded} IN
  IF ok = {} THEN NoHit ELSE CHOOSE i \in ok : \A j \in ok : j <= i

\* A changed query searches from the newest command again.
restart(h, sr, query) ==
  [sr EXCEPT !.query = query, !.trail = <<>>,
             !.hit = IF query = <<>> THEN NoHit ELSE find_older(h, query, Len(h.entries), {})]

seen(h, sr) == {h.entries[sr.hit + 1]} \cup {h.entries[sr.trail[t] + 1] : t \in DOMAIN sr.trail}

search_older(h, sr) ==
  IF sr.hit = NoHit THEN sr
  ELSE LET i == find_older(h, sr.query, sr.hit, seen(h, sr)) IN
       IF i = NoHit THEN sr ELSE [sr EXCEPT !.trail = Append(@, sr.hit), !.hit = i]

search_newer(sr) ==
  IF sr.trail = <<>> THEN sr ELSE [sr EXCEPT !.trail = Front(@), !.hit = Last(sr.trail)]

\* The line and the cursor the search leaves.
finish(h, sr) ==
  IF sr.hit = NoHit THEN <<sr.original, sr.ocursor>>
  ELSE <<h.entries[sr.hit + 1], Len(h.entries[sr.hit + 1])>>

-----------------------------------------------------------------------------
(* The file *)

\* A screen starts: the file is read; one past MaxEntries is cut and written anew.
Load(s, console) ==
  /\ ~hist[s].open
  /\ hist' = [hist EXCEPT ![s] = [in_memory EXCEPT !.open = TRUE, !.console = console,
                !.entries = newest(file), !.rewriting = Len(file) > MaxEntries]]
  /\ UNCHANGED <<prompt, file, histRan, typed, blurred, raced, keys>>

\* The temporary file is renamed over the history, or it could not be written.
rewrite(s, ok) ==
  /\ hist[s].rewriting
  /\ hist' = [hist EXCEPT ![s].rewriting = FALSE]
  /\ file' = IF ok THEN hist[s].entries ELSE file
  /\ UNCHANGED <<prompt, histRan, typed, blurred, raced, keys>>

ready(s) == hist[s].open /\ ~hist[s].rewriting /\ keys < MaxKeys

press == keys' = keys + 1

\* A session ends, at any moment: nothing is saved at the end.
Close(s) ==
  /\ hist[s].open
  /\ hist' = [hist EXCEPT ![s] = in_memory] /\ prompt' = [prompt EXCEPT ![s] = EmptyPrompt]
  /\ typed' = [typed EXCEPT ![s] = <<>>] /\ blurred' = [blurred EXCEPT ![s] = FALSE]
  /\ UNCHANGED <<file, histRan, raced>> /\ press /\ keys < MaxKeys

\* The command is run: recorded, appended to the file at once, and the prompt is empty again.
submitted(s, h, line) ==
  /\ hist' = [hist EXCEPT ![s] = push_entry(h, line)]
  /\ prompt' = [prompt EXCEPT ![s] = EmptyPrompt]
  /\ typed' = [typed EXCEPT ![s] = <<>>] /\ blurred' = [blurred EXCEPT ![s] = FALSE]
  /\ IF kept(h, line)
       THEN /\ file' = Append(file, line) /\ histRan' = Append(histRan, line)
            /\ raced' = IF \E t \in Screens \ {s} : hist[t].rewriting
                        THEN raced \cup {Len(histRan) + 1} ELSE raced
       ELSE UNCHANGED <<file, histRan, raced>>

\* Enter.  An empty line is no command; a send that fails keeps the line for a retry.
Enter(s, sent) ==
  /\ ready(s) /\ press /\ ~prompt[s].search.on /\ Len(histRan) < Len(StartFile) + MaxHistRuns
  /\ IF prompt[s].line = <<>> \/ ~sent THEN UNCHANGED <<hist, prompt, file, histRan, typed, blurred, raced>>
     ELSE submitted(s, hist[s], prompt[s].line)

-----------------------------------------------------------------------------
(* Editing keys *)

lineNow(s) == prompt[s].line
before(s) == SubSeq(prompt[s].line, 1, prompt[s].cursor)
after(s) == SubSeq(prompt[s].line, prompt[s].cursor + 1, Len(prompt[s].line))

setLine(s, line, cur) ==
  prompt' = [prompt EXCEPT ![s].line = line, ![s].cursor = cur]

keepFile == UNCHANGED <<file, histRan, raced>>

editable(s) == ready(s) /\ press /\ ~prompt[s].search.on /\ keepFile

\* A character, or Backspace: the line is a fresh one.
Type(s, w) ==
  /\ editable(s) /\ Len(lineNow(s)) < MaxWords
  /\ setLine(s, before(s) \o <<w>> \o after(s), prompt[s].cursor + 1)
  /\ hist' = [hist EXCEPT ![s] = stop_browsing(@)]
  /\ typed' = [typed EXCEPT ![s] = prompt'[s].line] /\ blurred' = [blurred EXCEPT ![s] = FALSE]

Backspace(s) ==
  /\ editable(s)
  /\ hist' = [hist EXCEPT ![s] = stop_browsing(@)]
  /\ IF prompt[s].cursor > 0
       THEN setLine(s, Front(before(s)) \o after(s), prompt[s].cursor - 1)
       ELSE UNCHANGED prompt
  /\ typed' = [typed EXCEPT ![s] = prompt'[s].line] /\ blurred' = [blurred EXCEPT ![s] = FALSE]

\* Ctrl-U.  The gateway's screen clears the line and stops browsing; the console's removes
\* what is left of the cursor and does not.
KillLine(s) ==
  /\ editable(s)
  /\ IF hist[s].console
       THEN /\ setLine(s, after(s), 0) /\ UNCHANGED hist
            /\ blurred' = [blurred EXCEPT ![s] = @ \/ hist[s].nav # NoNav]
       ELSE /\ setLine(s, <<>>, 0) /\ hist' = [hist EXCEPT ![s] = stop_browsing(@)]
            /\ blurred' = [blurred EXCEPT ![s] = FALSE]
  /\ typed' = [typed EXCEPT ![s] = prompt'[s].line]

\* Ctrl-W (the console's screen only): the word left of the cursor.
KillWord(s) ==
  /\ editable(s) /\ hist[s].console /\ prompt[s].cursor > 0
  /\ setLine(s, Front(before(s)) \o after(s), prompt[s].cursor - 1)
  /\ blurred' = [blurred EXCEPT ![s] = @ \/ hist[s].nav # NoNav]
  /\ typed' = [typed EXCEPT ![s] = prompt'[s].line] /\ UNCHANGED hist

\* Left, Right, Home, End.
Move(s, cur) ==
  /\ editable(s) /\ cur \in 0 .. Len(lineNow(s))
  /\ cur \in {prompt[s].cursor - 1, prompt[s].cursor + 1, 0, Len(lineNow(s))}
  /\ setLine(s, lineNow(s), cur) /\ UNCHANGED <<hist, typed, blurred>>

Browse(s, step(_, _)) ==
  /\ editable(s)
  /\ LET r == step(hist[s], lineNow(s)) IN
     /\ hist' = [hist EXCEPT ![s] = r.h]
     /\ IF r.moved THEN setLine(s, r.line, Len(r.line)) ELSE UNCHANGED prompt
  /\ UNCHANGED <<typed, blurred>>

Up(s) == Browse(s, nav_up)
Down(s) == Browse(s, nav_down)

-----------------------------------------------------------------------------
(* The search's keys *)

StartSearch(s) ==
  /\ editable(s)
  /\ prompt' = [prompt EXCEPT ![s].search =
       [NoSearch EXCEPT !.on = TRUE, !.original = lineNow(s), !.ocursor = prompt[s].cursor]]
  /\ UNCHANGED <<hist, typed, blurred>>

searching(s) == ready(s) /\ press /\ prompt[s].search.on

Searched(s, sr) ==
  /\ searching(s) /\ prompt' = [prompt EXCEPT ![s].search = sr]
  /\ keepFile /\ UNCHANGED <<hist, typed, blurred>>

QueryWord(s, w) ==
  /\ Len(prompt[s].search.query) < MaxWords
  /\ Searched(s, restart(hist[s], prompt[s].search, Append(prompt[s].search.query, w)))
QueryBack(s) ==
  LET q == prompt[s].search.query IN
  Searched(s, restart(hist[s], prompt[s].search, IF q = <<>> THEN q ELSE Front(q)))
Older(s) == Searched(s, search_older(hist[s], prompt[s].search))
Newer(s) == Searched(s, search_newer(prompt[s].search))

\* Esc gives the line back as it was; Tab and the cursor keys take the match for editing;
\* Enter runs it.
EndSearch(s, how, sent) ==
  LET r == IF how = "cancel" THEN <<prompt[s].search.original, prompt[s].search.ocursor>>
           ELSE finish(hist[s], prompt[s].search)
      h == stop_browsing(hist[s])
  IN
  /\ searching(s)
  /\ how = "run" => Len(histRan) < Len(StartFile) + MaxHistRuns
  /\ IF how = "run" /\ r[1] # <<>> /\ sent THEN submitted(s, h, r[1])
     ELSE /\ hist' = [hist EXCEPT ![s] = h]
          /\ prompt' = [prompt EXCEPT ![s] = [line |-> r[1], cursor |-> r[2], search |-> NoSearch]]
          /\ typed' = [typed EXCEPT ![s] = r[1]] /\ blurred' = [blurred EXCEPT ![s] = FALSE]
          /\ keepFile

HistNext ==
  \E s \in Screens :
    \/ \E c \in BOOLEAN : Load(s, c) \/ rewrite(s, c) \/ Enter(s, c)
    \/ \E w \in LineWords : Type(s, w) \/ QueryWord(s, w)
    \/ Close(s) \/ Backspace(s) \/ KillLine(s) \/ KillWord(s) \/ Up(s) \/ Down(s)
    \/ \E cur \in 0 .. MaxWords : Move(s, cur)
    \/ StartSearch(s) \/ QueryBack(s) \/ Older(s) \/ Newer(s)
    \/ \E how \in {"cancel", "edit", "run"}, sent \in BOOLEAN : EndSearch(s, how, sent)

HistSpec == HistInit /\ [][HistNext]_histVars

-----------------------------------------------------------------------------
(* What the history keeps *)

\* The search shows a command that has the query's words, offers each distinct command once
\* and at its newest use, and every index it or the browsing holds is an entry (an index
\* kept over a change of the entries would end the program).
SearchSound ==
  \A s \in Screens :
    LET sr == prompt[s].search
        h == hist[s]
        e(i) == h.entries[i + 1]
    IN
    /\ h.nav # NoNav => h.nav < Len(h.entries)
    /\ prompt[s].cursor <= Len(prompt[s].line)
    /\ sr.on /\ sr.hit # NoHit =>
         LET shown == Append(sr.trail, sr.hit) IN
         \A t \in DOMAIN shown :
           /\ shown[t] < Len(h.entries)
           /\ occurs(e(shown[t]), sr.query)
           /\ \A u \in DOMAIN shown : u # t => e(shown[u]) # e(shown[t])
           /\ \A j \in shown[t] + 1 .. Len(h.entries) - 1 : e(j) # e(shown[t])

\* Browsing and searching never cost the user the line that was typed: it is on the prompt,
\* or Down gives it back, or Esc does.  Killing text of a browsed entry on the console's
\* screen is the exception: browsing goes on and drops what was left.
TypedKept ==
  \A s \in Screens :
    \/ lineNow(s) = typed[s] \/ blurred[s]
    \/ hist[s].nav # NoNav /\ hist[s].draft = typed[s]

without(lines, gone) ==
  LET some == SelectSeq([i \in DOMAIN lines |-> [at |-> i, line |-> lines[i]]], LAMBDA x : x.at \notin gone) IN
  [i \in DOMAIN some |-> some[i].line]

\* The newest commands run, by any session, are in the file once each and in the order they
\* were run, and a session that starts has them.  A session that starts on a history past its
\* limit writes the file anew: that can cost the commands appended meanwhile, and no others.
FileKeeps ==
  \E gone \in SUBSET raced : newest(file) = newest(without(histRan, gone))

\* What the shared history promises its users.
HistorySound == SearchSound /\ TypedKept /\ FileKeeps

\* Every command is in the file once it was run, with any number of sessions side by side
\* (as the module's own documentation has it).
SideBySide == newest(file) = newest(histRan)
=============================================================================
