----------------------------- MODULE FileStore -----------------------------
(***************************************************************************)
(* What a save promises, without a disk: a map from files to contents and  *)
(* at most one save in progress.  A save that returns success has          *)
(* delivered the new content.  One that fails may have lost the old        *)
(* content before (Drop), and may have delivered the new one all the same, *)
(* but whole: no file ever holds a mixture, and no save touches another    *)
(* file than its own.                                                      *)
(***************************************************************************)
CONSTANTS File, Content

VARIABLES
  store,     \* File -> {} when the file cannot be read, {c} when it reads c
  job,       \* {} when idle, {<<f, c>>} while content c is saved into f
  result     \* what the last save returned: "none", "ok" or "failed"

vars == <<store, job, result>>

Init ==
  /\ DOMAIN store = File
  /\ \A f \in File : \A b, c \in store[f] : b = c
  /\ job = {}
  /\ result = "none"

Start(f, c) ==
  /\ job = {}
  /\ job' = {<<f, c>>}
  /\ UNCHANGED <<store, result>>

Drop(j) ==
  /\ job = {j}
  /\ store' = [store EXCEPT ![j[1]] = {}]
  /\ UNCHANGED <<job, result>>

Commit(j) ==
  /\ job = {j}
  /\ store' = [store EXCEPT ![j[1]] = {j[2]}]
  /\ job' = {}
  /\ result' = "ok"

Fail(j) ==
  /\ job = {j}
  /\ job' = {}
  /\ result' = "failed"
  /\ store' \in {store, [store EXCEPT ![j[1]] = {j[2]}]}

Next ==
  \/ \E f \in File, c \in Content : Start(f, c)
  \/ \E j \in job : Drop(j) \/ Commit(j) \/ Fail(j)

Spec == Init /\ [][Next]_vars
=============================================================================
