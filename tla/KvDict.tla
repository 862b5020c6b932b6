------------------------------- MODULE KvDict -------------------------------
(***************************************************************************)
(* What the key-value store promises its callers (crates/kv/src/lib.rs,    *)
(* firmware/docs/storage.md): a dictionary.  One operation is under way at *)
(* a time; `goal` is the dictionary it is to leave.  The change happens in *)
(* one indivisible step or not at all, an operation that reports success   *)
(* has made it, and a power cut or an error at any point leaves every key  *)
(* with its value from before or after.                                    *)
(***************************************************************************)
CONSTANTS Keys, Vals, NoVal

VARIABLES
  dict,   \* what get_bytes reads back for every key
  busy,   \* an operation is under way
  goal,   \* the dictionary it is to leave
  ok      \* the last operation returned Ok

dictVars == <<dict, busy, goal, ok>>

Empty == [k \in Keys |-> NoVal]

Init == dict \in [Keys -> Vals \cup {NoVal}] /\ busy = FALSE /\ goal = dict /\ ok = TRUE

\* set_bytes, delete (v = NoVal), compact and maintain (goal = dict), wipe.
Request ==
  /\ ~busy /\ busy' = TRUE /\ ok' = TRUE
  /\ UNCHANGED dict
  /\ \/ goal' = dict
     \/ goal' = Empty
     \/ \E k \in Keys, v \in Vals \cup {NoVal} : goal' = [dict EXCEPT ![k] = v]

Land == busy /\ UNCHANGED <<busy, goal, ok>> /\ dict' = goal

ReturnOk == busy /\ busy' = FALSE /\ UNCHANGED <<dict, goal, ok>> /\ dict = goal

\* An error or a power cut; a cut may come right after the change landed.
Abort ==
  /\ busy /\ busy' = FALSE /\ ok' = FALSE
  /\ dict' \in {dict, goal} /\ UNCHANGED goal

Next == Request \/ Land \/ ReturnOk \/ Abort

Spec == Init /\ [][Next]_dictVars
=============================================================================
