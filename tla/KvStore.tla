------------------------------ MODULE KvStore ------------------------------
(***************************************************************************)
(* The power-loss-safe key-value store of crates/kv/src/lib.rs as the      *)
(* firmware drives it (firmware/src/storage.rs), at the granularity of its *)
(* EEPROM: one 32-bit word program at a time.                              *)
(*                                                                         *)
(* Two halves of HalfWords words hold append-only records, each followed   *)
(* by a superblock of three words.  A record is a header word (tag | len), *)
(* a CRC word and the value words; a CRC is modelled by the very data it   *)
(* covers, so it matches that data only.                                   *)
(*                                                                         *)
(* Every operation first fixes the sequence of word programs it will issue *)
(* (the store has one caller at a time, so nothing changes underneath it), *)
(* then issues them one by one.  Between and inside any two of them the    *)
(* power may fail or the backend may report an error; the word being       *)
(* programmed is then as before, erased, garbled or done.                  *)
(***************************************************************************)
EXTENDS Integers, SequencesExt

CONSTANTS
  Keys,       \* record tags (non-zero)
  Vals,       \* values: non-empty sequences of words
  HalfWords,  \* half_len in words
  Budget,     \* budget_words of one maintain slice
  Threshold,  \* FLIP_THRESHOLD in words
  Garble(_),  \* words a torn program may leave at an index of a half
  Start,      \* EEPROM contents at the first power-on
  MaxOps,     \* bound: calls of set, delete, compact and wipe
  CutOps,     \* bound: those of a life with a power cut or a backend error
  MaxCuts     \* bound: power cuts and backend errors

VARIABLES
  mem,    \* EEPROM: half -> its words, then its superblock
  dict,   \* what get_bytes reads from it, key by key: Read(mem)
  on,     \* the device has booted (Kv::new ran)
  maint,  \* RAM: MaintState (the flip under way and the blanking cursor)
  frozen, \* RAM: Kv::frozen, set by a wipe until the reboot
  awake,  \* the maintenance task runs (else it waits for MAINT_WAKE)
  busy,   \* an operation is under way
  todo,   \* its word programs still to come
  then,   \* MaintState once it succeeds, or failed past `keep`
  keep,   \* so many of them may fail and leave MaintState alone
  more,   \* the maintenance task goes on (or is woken) afterwards
  full,   \* it will return KvError::Full
  needs,  \* size of the record it wants to append (0: none)
  goal,   \* the dictionary it is to leave
  ok,     \* its result once it is over (Ok, or an error or a cut)
  slices, \* history: slices of the maintenance task's current round
  ops,    \* calls so far
  cuts    \* failures so far

kvRam == <<on, maint, frozen, awake>>
call  == <<busy, todo, then, keep, more, full, needs, goal, ok>>
eeprom == <<mem, dict>>
vars  == <<eeprom, kvRam, call, slices, ops, cuts>>

Halves == {0, 1}
NoVal  == <<>>

\* Words.
Zero       == <<"zero">>
Hdr(k, n)  == <<"hdr", k, n>>
Crc(k, v)  == <<"crc", k, v>>
Magic      == <<"magic">>
Gen(g)     == <<"gen", g>>
GenCrc(g)  == <<"gencrc", g>>

\* A record, as the words `append` lays out; size is record_size.
Record(k, v) == <<Hdr(k, Len(v)), Crc(k, v)>> \o v
RecSize(n)   == 2 + n

-----------------------------------------------------------------------------
(***************************************************************************)
(* Reading: read_gen, active, scan_half, walk_latest                       *)
(***************************************************************************)

\* read_gen: 0 stands for "no valid superblock" (generations start at 1).
ReadGen(m, h) ==
  LET gen == m[h][HalfWords + 2]
  IN  IF m[h][HalfWords + 1] = Magic /\ gen[1] = "gen" /\ m[h][HalfWords + 3] = GenCrc(gen[2])
      THEN gen[2] ELSE 0

NoHalf == 2

Active(m) ==
  LET g0 == ReadGen(m, 0)
      g1 == ReadGen(m, 1)
  IN  IF g0 = 0 /\ g1 = 0 THEN NoHalf ELSE IF g0 >= g1 THEN 0 ELSE 1

Generation(m) == LET h == Active(m) IN IF h = NoHalf THEN 0 ELSE ReadGen(m, h)

\* The checks scan_half makes of the record at word offset o.
Readable(m, h, o) ==
  /\ o + 2 <= HalfWords
  /\ m[h][o + 1][1] = "hdr"
  /\ LET n == m[h][o + 1][3]
     IN  /\ o + RecSize(n) <= HalfWords
         /\ m[h][o + 2] = Crc(m[h][o + 1][2], SubSeq(m[h], o + 3, o + 2 + n))

TagAt(m, h, o)  == m[h][o + 1][2]
LenAt(m, h, o)  == m[h][o + 1][3]
WordsAt(m, h, o) == SubSeq(m[h], o + 1, o + RecSize(LenAt(m, h, o)))

\* scan_half: the offsets of the records of the log from offset `from` ...
Log(m, h, from) ==
  LET offs[o \in 0 .. HalfWords] ==
        IF Readable(m, h, o) THEN <<o>> \o offs[o + RecSize(LenAt(m, h, o))] ELSE <<>>
  IN  offs[from]

\* ... and the offset where the log ends.
LogEnd(m, h) ==
  LET l == Log(m, h, 0)
  IN  IF l = <<>> THEN 0 ELSE Last(l) + RecSize(LenAt(m, h, Last(l)))

\* walk_latest over the log up to `end`, tombstones dropped.
Live(m, h, end) ==
  LET l == SelectSeq(Log(m, h, 0), LAMBDA o : o < end)
  IN  SelectSeq(l, LAMBDA o :
        /\ LenAt(m, h, o) # 0
        /\ \A p \in ToSet(l) : p > o => TagAt(m, h, p) # TagAt(m, h, o))

WordsOf(m, h, offsets) == FlattenSeq([i \in DOMAIN offsets |-> WordsAt(m, h, offsets[i])])

LiveWords(m, h, end) == WordsOf(m, h, Live(m, h, end))

\* live_bytes, in words
LiveSize(m) == IF Active(m) = NoHalf THEN 0 ELSE Len(LiveWords(m, Active(m), HalfWords))

\* get_bytes for every key: a tombstone reads as absent.
Read(m) ==
  LET h == Active(m)
      l == IF h = NoHalf THEN <<>> ELSE Log(m, h, 0)
  IN  [k \in Keys |->
        LET mine == SelectSeq(l, LAMBDA o : TagAt(m, h, o) = k)
        IN  IF mine = <<>> THEN NoVal ELSE Tail(Tail(WordsAt(m, h, Last(mine))))]

-----------------------------------------------------------------------------
(***************************************************************************)
(* Writing: each operator is a sequence of word programs                   *)
(***************************************************************************)

Program(h, at, w) == [half |-> h, at |-> at, word |-> w]
Put(m, p)   == [m EXCEPT ![p.half][p.at] = p.word]
Apply(m, s) == FoldLeft(Put, m, s)

\* Words laid out from offset o on, in address order.
WriteAt(h, o, words) == [i \in DOMAIN words |-> Program(h, o + i, words[i])]

\* write_gen
WriteGen(h, g) == WriteAt(h, HalfWords, <<Magic, Gen(g), GenCrc(g)>>)

\* clear_word: read-first
ClearWord(m, h, o) == IF m[h][o + 1] = Zero THEN <<>> ELSE <<Program(h, o + 1, Zero)>>

\* blank / blank_step_span: the non-zero words of [from, to), zeroed in order.
Blank(m, h, from, to) ==
  LET dirty == SelectSeq([i \in 1 .. to |-> i], LAMBDA i : i > from /\ m[h][i] # Zero)
  IN  [i \in DOMAIN dirty |-> Program(h, dirty[i], Zero)]

\* append: body first, header word last.
Append_(h, o, k, v) ==
  Tail(WriteAt(h, o, Record(k, v))) \o <<Head(WriteAt(h, o, Record(k, v)))>>

\* append_end: clear the log end, terminate past the new record, append.
AppendEnd(m, h, free, k, v) ==
  LET next == free + RecSize(Len(v))
  IN  ClearWord(m, h, free)
      \o (IF next + 2 <= HalfWords THEN ClearWord(m, h, next) ELSE <<>>)
      \o Append_(h, free, k, v)

\* init of a region without a valid superblock
Format(m) == IF Active(m) # NoHalf THEN <<>> ELSE ClearWord(m, 0, 0) \o WriteGen(0, 1)

\* flip: blank the other half, copy the live set, commit its superblock.
Flip(m, h) ==
  Blank(m, 1 - h, 0, HalfWords)
  \o WriteAt(1 - h, 0, LiveWords(m, h, HalfWords))
  \o WriteGen(1 - h, ReadGen(m, h) + 1)

-----------------------------------------------------------------------------
(***************************************************************************)
(* Incremental maintenance: FlipState, flip_step, flip_commit, maintain    *)
(***************************************************************************)

\* The flip of half src at generation gen: its plan covers the log up to
\* `end`; the other half is blank up to `blanked`, `copied` words are in.
NoFlip == [src |-> NoHalf, gen |-> 0, end |-> 0, blanked |-> 0, copied |-> 0]

FlipStart(m) ==
  [src |-> Active(m), gen |-> Generation(m), end |-> LogEnd(m, Active(m)),
   blanked |-> 0, copied |-> 0]

Fresh(m, st) == st.src # NoHalf /\ st.src = Active(m) /\ st.gen = Generation(m)

\* The programs flip_step has still to issue.
FlipBlanks(m, st) == Blank(m, 1 - st.src, st.blanked, HalfWords)
FlipCopies(m, st) ==
  LET w == LiveWords(m, st.src, st.end)
  IN  WriteAt(1 - st.src, st.copied, SubSeq(w, st.copied + 1, Len(w)))

\* flip_commit: the rest of the flip, the records appended since the plan
\* (verbatim, tombstones too), then the superblock.
FlipCommit(m, st) ==
  FlipBlanks(m, st) \o FlipCopies(m, st)
  \o WriteAt(1 - st.src, Len(LiveWords(m, st.src, st.end)),
             WordsOf(m, st.src, Log(m, st.src, st.end)))
  \o WriteGen(1 - st.src, st.gen + 1)

\* MaintState: the flip, and BlankCursor.
FreshMaint == [flip |-> NoFlip, bgen |-> 0, boff |-> 0]

\* What an operation does: its programs, MaintState once they succeed, how
\* many may fail before MaintState has changed, whether the maintenance task
\* goes on, and whether the call ends in KvError::Full.
Plan(programs, mt, kept, goesOn, isFull) ==
  [programs |-> programs, then |-> mt, keep |-> kept, more |-> goesOn, full |-> isFull]

\* Progress of flip_step after the first n of its programs.
FlipProgress(m, st, n) ==
  LET b == Len(FlipBlanks(m, st))
  IN  IF n < b
      THEN [st EXCEPT !.blanked = FlipBlanks(m, st)[n + 1].at - 1]
      ELSE [st EXCEPT !.blanked = HalfWords, !.copied = @ + n - b]

\* maintain's trigger: free space is low and a flip would reclaim enough.
WantsFlip(m) ==
  /\ HalfWords - LogEnd(m, Active(m)) < Threshold
  /\ LiveSize(m) + Threshold <= HalfWords

\* maintain: drive the flip, start one when space runs low, else pre-blank.
MaintainPlan(m) ==
  LET st    == IF Fresh(m, maint.flip) THEN maint.flip ELSE NoFlip
      mt    == [maint EXCEPT !.flip = st]
      h     == Active(m)
      steps == FlipBlanks(m, st) \o FlipCopies(m, st)
      off   == IF mt.bgen = Generation(m) THEN mt.boff ELSE 0
      dead  == Blank(m, 1 - h, off, HalfWords)
      slice == IF Len(dead) > Budget THEN SubSeq(dead, 1, Budget) ELSE dead
      reach == IF Len(dead) > Budget THEN dead[Budget + 1].at - 1 ELSE HalfWords
  IN  IF h = NoHalf THEN Plan(<<>>, maint, 0, FALSE, FALSE)
      ELSE IF st # NoFlip
      THEN IF Len(steps) > Budget
           THEN Plan(SubSeq(steps, 1, Budget),
                     [mt EXCEPT !.flip = FlipProgress(m, st, Budget)], Budget, TRUE, FALSE)
           ELSE Plan(FlipCommit(m, st), [mt EXCEPT !.flip = NoFlip], Len(steps), TRUE, FALSE)
      ELSE IF WantsFlip(m)
      THEN Plan(<<>>, [mt EXCEPT !.flip = FlipStart(m)], 0, TRUE, FALSE)
      ELSE Plan(slice, [mt EXCEPT !.bgen = Generation(m), !.boff = reach],
                Len(slice), reach < HalfWords, FALSE)

-----------------------------------------------------------------------------
(***************************************************************************)
(* The operations                                                          *)
(***************************************************************************)

Fits(m, v) == LogEnd(m, Active(m)) + RecSize(Len(v)) <= HalfWords

Appending(m, k, v) == AppendEnd(m, Active(m), LogEnd(m, Active(m)), k, v)

\* set_bytes_with without the second flip after a finished pending one.
Fault_OneFlip(m, k, v) ==
  LET m1    == Apply(m, Format(m))
      pend  == Fresh(m1, maint.flip)
      shift == IF Fits(m1, v) THEN <<>>
               ELSE IF pend THEN FlipCommit(m1, maint.flip) ELSE Flip(m1, Active(m1))
      m2    == Apply(m1, shift)
      mt    == IF shift = <<>> THEN maint ELSE [maint EXCEPT !.flip = NoFlip]
      kept  == IF shift = <<>> THEN HalfWords * 4 ELSE Len(Format(m))
  IN  IF Fits(m2, v)
      THEN Plan(Format(m) \o shift \o Appending(m2, k, v), mt, kept, TRUE, FALSE)
      ELSE Plan(Format(m) \o shift, mt, kept, TRUE, TRUE)

\* set_bytes_with: append; on a full half finish the pending flip or flip,
\* flip again if a finished pending flip left no room, else Full.
SetPlan(m, k, v) ==
  LET m1     == Apply(m, Format(m))
      pend   == Fresh(m1, maint.flip)
      shift  == IF Fits(m1, v) THEN <<>>
                ELSE IF pend THEN FlipCommit(m1, maint.flip) ELSE Flip(m1, Active(m1))
      m2     == Apply(m1, shift)
      again  == IF ~Fits(m2, v) /\ pend THEN Flip(m2, Active(m2)) ELSE <<>>
      m3     == Apply(m2, again)
      mt     == IF shift = <<>> THEN maint ELSE [maint EXCEPT !.flip = NoFlip]
      kept   == IF shift = <<>> THEN HalfWords * 4 ELSE Len(Format(m))
  IN  IF Fits(m3, v)
      THEN Plan(Format(m) \o shift \o again \o Appending(m3, k, v), mt, kept, TRUE, FALSE)
      ELSE Plan(Format(m) \o shift \o again, mt, kept, TRUE, TRUE)

\* compact_with: finish the pending flip, or flip in line.
CompactPlan(m) ==
  Plan(IF Active(m) = NoHalf THEN <<>>
       ELSE IF Fresh(m, maint.flip) THEN FlipCommit(m, maint.flip)
       ELSE Flip(m, Active(m)),
       [maint EXCEPT !.flip = NoFlip], 0, TRUE, FALSE)

\* wipe as a plain erase of the whole region.
Fault_Erase(m) ==
  Plan(Blank(m, 0, 0, HalfWords + 3) \o Blank(m, 1, 0, HalfWords + 3), FreshMaint, 0, FALSE, FALSE)

\* wipe: a flip to an empty live set, then the old half is scrubbed.
WipePlan(m) ==
  LET h == Active(m)
  IN  Plan(IF h # NoHalf
           THEN Blank(m, 1 - h, 0, HalfWords) \o WriteGen(1 - h, Generation(m) + 1)
                \o Blank(m, h, 0, HalfWords)
           ELSE Blank(m, 1, 0, HalfWords) \o WriteGen(1, 1)
                \o Blank(m, 0, 0, HalfWords) \o Blank(m, 0, HalfWords, HalfWords + 3),
           FreshMaint, 0, FALSE, FALSE)

Begin(plan, target, size) ==
  /\ ~busy /\ busy' = TRUE
  /\ todo' = plan.programs /\ then' = plan.then /\ keep' = plan.keep
  /\ more' = plan.more /\ full' = plan.full
  /\ goal' = target /\ needs' = size /\ ok' = TRUE
  /\ UNCHANGED <<eeprom, cuts>>

\* Kv::new: init, its result ignored; the maintenance task starts.
Boot ==
  /\ ~on /\ on' = TRUE
  /\ Begin(Plan(Format(mem), FreshMaint, 0, TRUE, FALSE), dict, 0)
  /\ maint' = FreshMaint /\ frozen' = FALSE /\ awake' = TRUE /\ slices' = 0
  /\ UNCHANGED ops

\* Kv::writable guards every write.
Call ==
  /\ on /\ ~frozen
  /\ ops < (IF cuts = 0 THEN MaxOps ELSE CutOps) /\ ops' = ops + 1 /\ slices' = 0

Set(k, v) ==
  /\ Call /\ Begin(SetPlan(mem, k, v), [dict EXCEPT ![k] = v], RecSize(Len(v)))
  /\ UNCHANGED kvRam

\* delete_with: a tombstone, only over a live value.
Delete(k) ==
  /\ Call /\ dict[k] # NoVal
  /\ Begin(SetPlan(mem, k, NoVal), [dict EXCEPT ![k] = NoVal], RecSize(0))
  /\ UNCHANGED kvRam

Compact == Call /\ Begin(CompactPlan(mem), dict, 0) /\ UNCHANGED kvRam

\* tower_kv::wipe alone, the firmware's freeze forgotten.
Fault_WipeUnfrozen ==
  /\ Call /\ Begin([WipePlan(mem) EXCEPT !.then = maint], [k \in Keys |-> NoVal], 0)
  /\ UNCHANGED kvRam

\* Kv::wipe: the store freezes and forgets its flip, whatever comes of it.
Wipe ==
  /\ Call /\ Begin(WipePlan(mem), [k \in Keys |-> NoVal], 0)
  /\ frozen' = TRUE /\ maint' = FreshMaint
  /\ UNCHANGED <<on, awake>>

\* The maintenance task: one slice (a frozen store has nothing to maintain).
Maintain ==
  /\ on /\ awake /\ ~frozen
  /\ Begin(MaintainPlan(mem), dict, 0) /\ slices' = slices + 1
  /\ UNCHANGED <<kvRam, ops>>

Becomes(m) == mem' = m /\ dict' = Read(m)

\* One word program lands.
ProgramWord ==
  /\ busy /\ todo # <<>>
  /\ Becomes(Put(mem, Head(todo))) /\ todo' = Tail(todo)
  /\ keep' = IF keep = 0 THEN 0 ELSE keep - 1
  /\ UNCHANGED <<kvRam, busy, then, more, full, needs, goal, ok, slices, ops, cuts>>

\* The call is over: what is left of it in the model is cleared.
Over ==
  /\ busy' = FALSE /\ todo' = <<>> /\ then' = FreshMaint /\ keep' = 0
  /\ more' = FALSE /\ full' = FALSE /\ needs' = 0 /\ UNCHANGED <<goal, slices, ops>>

\* The call returns: Ok, or Full after whatever flips it did.
Return ==
  /\ busy /\ todo = <<>> /\ Over /\ ok' = ~full
  /\ maint' = then /\ awake' = more
  /\ UNCHANGED <<eeprom, on, frozen, cuts>>

Failing == cuts < MaxCuts /\ ops <= CutOps /\ cuts' = cuts + 1

\* What a failed program leaves in its word.
Torn(p) == {Put(mem, [p EXCEPT !.word = w]) : w \in {mem[p.half][p.at], p.word, Zero} \cup Garble(p.at)}

\* The backend reports an error: `?` ends the operation, and a slice of the
\* maintenance task ends the task's round.
WriteError ==
  /\ Failing
  /\ busy /\ todo # <<>> /\ Over /\ ok' = FALSE
  /\ \E m \in Torn(Head(todo)) : Becomes(m)
  /\ maint' = IF keep > 0 THEN maint ELSE then
  /\ awake' = (slices = 0)
  /\ UNCHANGED <<on, frozen>>

\* A power cut, inside a program or between two; the RAM is gone.
PowerCut ==
  /\ Failing
  /\ on /\ on' = FALSE /\ Over /\ ok' = (ok /\ ~busy)
  /\ \E m \in IF todo = <<>> THEN {mem} ELSE Torn(Head(todo)) : Becomes(m)
  /\ maint' = FreshMaint /\ frozen' = FALSE /\ awake' = FALSE

Init ==
  /\ mem \in Start
  /\ on = FALSE /\ maint = FreshMaint /\ frozen = FALSE /\ awake = FALSE
  /\ busy = FALSE /\ todo = <<>> /\ then = FreshMaint /\ keep = 0
  /\ more = FALSE /\ full = FALSE /\ needs = 0 /\ ok = TRUE
  /\ dict = Read(mem) /\ goal = dict
  /\ slices = 0 /\ ops = 0 /\ cuts = 0

Next ==
  \/ Boot
  \/ \E k \in Keys, v \in Vals : Set(k, v)
  \/ \E k \in Keys : Delete(k)
  \/ Compact \/ Wipe \/ Maintain
  \/ ProgramWord \/ Return \/ WriteError \/ PowerCut

Spec == Init /\ [][Next]_vars

-----------------------------------------------------------------------------
(***************************************************************************)
(* Properties                                                              *)
(***************************************************************************)

\* Type invariant.
TypeOK ==
  /\ \A h \in Halves : DOMAIN mem[h] = 1 .. HalfWords + 3
  /\ maint.flip.src \in Halves \cup {NoHalf} /\ maint.boff \in 0 .. HalfWords
  /\ \A i \in DOMAIN todo : todo[i].half \in Halves /\ todo[i].at \in 1 .. HalfWords + 3
  /\ busy \in BOOLEAN /\ full \in BOOLEAN
  /\ ops \in 0 .. MaxOps /\ cuts \in 0 .. MaxCuts

\* The store is the dictionary of KvDict: whatever is cut, in whatever word,
\* get_bytes reads every key as before or after the interrupted operation,
\* and maintenance never changes what is read.
Dict == INSTANCE KvDict
IsDictionary == Dict!Spec

\* Full is returned only when the live records and the new one do not fit in
\* one half, however the log, a half-done flip and a torn one stand.
FullIsHonest == busy /\ full /\ todo = <<>> => LiveSize(mem) + needs > HalfWords

\* Maintenance settles: left alone, the task needs at most two flips (the
\* first may carry superseded records over verbatim) and one pre-blanking of
\* the dead half, each a bounded number of slices, before it has nothing to
\* do.  It can neither livelock nor wear the EEPROM out by flipping for ever.
MaintenanceSettles ==
  LET span == (HalfWords + Budget - 1) \div Budget
  IN  slices <= 2 * (2 * span + 2) + span

\* The store's own books: Full is the truth, maintenance comes to an end, and no
\* operation programs a word outside the region.
StoreSound == TypeOK /\ FullIsHonest /\ MaintenanceSettles

\* The generation (the wear gauge, and what picks the active half) never goes
\* down, not even when a superblock is torn or the store is wiped.
GenerationMonotone == [][Generation(mem') >= Generation(mem)]_vars
=============================================================================
