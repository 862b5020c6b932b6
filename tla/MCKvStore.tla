----------------------------- MODULE MCKvStore -----------------------------
(***************************************************************************)
(* A small store: two keys, a one-word value and a two-word value whose    *)
(* words read like a tombstone record of key 1.                            *)
(***************************************************************************)
EXTENDS KvStore

MCKeys     == {1, 2}
Plain      == << <<"val", 1>> >>
RecordLike == <<Hdr(1, 0), Crc(1, NoVal)>>
MCVals     == {Plain, RecordLike}

\* The worst a torn program can leave: any word of a record in the log, of a
\* superblock behind it.  To the code the words of the other kind are junk.
AnyWord(i) ==
  {<<"junk">>} \cup
  IF i > HalfWords THEN {Magic, Gen(1), Gen(2), GenCrc(1), GenCrc(2)}
  ELSE UNION {ToSet(Record(k, v)) : k \in MCKeys, v \in MCVals \cup {NoVal}}

\* A region holding these words in half 0, with or without a superblock.
Region(words, super) ==
  [h \in Halves |-> [i \in 1 .. HalfWords + 3 |->
     IF h = 0 /\ i \in DOMAIN words THEN words[i]
     ELSE IF h = 0 /\ i > HalfWords THEN super[i - HalfWords] ELSE Zero]]
NoSuper == <<Zero, Zero, Zero>>

\* A blank part; bytes left by other software that read like records; a
\* store in use, one record short of full.
MCStart ==
  { Region(<<>>, NoSuper),
    Region(Record(1, Plain) \o Record(2, RecordLike), NoSuper),
    Region(Record(1, Plain) \o Record(2, Plain), <<Magic, Gen(1), GenCrc(1)>>) }
=============================================================================
