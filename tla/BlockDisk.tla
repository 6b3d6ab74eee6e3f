----------------------------- MODULE BlockDisk -----------------------------
(***************************************************************************)
(* What the driver of a disk promises its callers, one call at a time.     *)
(* A read that succeeds returns the sectors' contents.  A write that       *)
(* succeeds survives a power loss; one that fails may have been done in    *)
(* part.  A failed call may leave the device busy with it (loose), and a   *)
(* call made before the device has come to rest is promised nothing.       *)
(***************************************************************************)
EXTENDS Integers, Sequences

CONSTANTS
  Sector, Data,
  Content(_, _)      \* Content(w, s): what write number w puts into sector s

VARIABLES
  disk,      \* Sector -> what a read would return
  safe,      \* Sector -> the set of what a power loss may leave there
  job,       \* {} or the call in progress, {[op, from, len, id]}
  reply,     \* of the last call: [rc : 0 or less, data : what a read returned]
  loose

vars == <<disk, safe, job, reply, loose>>

NoReply == [rc |-> 0, data |-> <<>>]

Range(j) == {s \in Sector : s >= j.from /\ s < j.from + j.len}
Writing(s, v) == \E j \in job : j.op = "write" /\ s \in Range(j) /\ v = Content(j.id, s)

Init ==
  /\ disk \in [Sector -> Data]
  /\ safe = [s \in Sector |-> {disk[s]}]
  /\ job = {} /\ loose = FALSE
  /\ reply = NoReply

Begin(j) == job = {} /\ job' = {j} /\ reply' = NoReply /\ UNCHANGED <<disk, safe, loose>>

Put(s, v) ==
  /\ loose \/ Writing(s, v)
  /\ disk' = [disk EXCEPT ![s] = v]
  /\ \E old \in SUBSET safe[s] : safe' = [safe EXCEPT ![s] = old \cup {v}]
  /\ loose' \in {loose, FALSE}
  /\ UNCHANGED <<job, reply>>

\* A sector reaches the medium for good.
Settle(s) ==
  /\ safe' = [safe EXCEPT ![s] = {disk[s]}]
  /\ UNCHANGED <<disk, job, reply, loose>>

Succeed(j) ==
  /\ job = {j} /\ job' = {}
  /\ reply'.rc = 0
  /\ ~loose => IF j.op = "read"
               THEN reply'.data = [k \in 1 .. j.len |-> disk[j.from + k - 1]]
               ELSE \A s \in Range(j) : disk[s] = Content(j.id, s) /\ safe[s] = {disk[s]}
  /\ loose' \in {loose, FALSE}
  /\ UNCHANGED <<disk, safe>>

Fail(j) ==
  /\ job = {j} /\ job' = {}
  /\ reply'.rc < 0 /\ loose' \in BOOLEAN
  /\ UNCHANGED <<disk, safe>>

\* The device has come to rest; or it reported a failure nobody looked at.
Rest == loose' = FALSE /\ job = {} /\ UNCHANGED <<disk, safe, job, reply>>
Hide == loose' = TRUE /\ job # {} /\ UNCHANGED <<disk, safe, job, reply>>

PowerLoss ==
  /\ disk' \in [Sector -> Data] /\ \A s \in Sector : disk'[s] \in safe[s]
  /\ safe' = [s \in Sector |-> {disk'[s]}]
  /\ job' = {} /\ loose' = FALSE
  /\ UNCHANGED reply

Next ==
  \/ \E j \in job' : Begin(j)
  \/ \E s \in Sector, v \in Data : Put(s, v)
  \/ \E s \in Sector : Settle(s)
  \/ \E j \in job : Succeed(j) \/ Fail(j)
  \/ Rest \/ Hide
  \/ PowerLoss

Spec == Init /\ [][Next]_vars
=============================================================================
