------------------------------- MODULE AtaPio -------------------------------
(***************************************************************************)
(* ata_read and ata_write (src/Block/ata_pio.c) on a drive.  A poll of the *)
(* status register that gives up after its 1000000 tries is a time-out,    *)
(* possible whenever the drive is not where the poll wants it.  Registers  *)
(* are written in one step with the command: a drive latches them then.    *)
(***************************************************************************)
EXTENDS AtaDrive

VARIABLES
  pc,          \* idle, or where the call is
  call,        \* its arguments: [op, from, len, id]
  lba, cnt,    \* the loop's own
  todo,        \* sectors left of the current command
  got,         \* sectors read so far
  reply,       \* what the last call returned
  calls,
  \* history variables, read by the properties only
  clean,       \* the drive was at rest when the call began, and hid no error since
  orphan       \* a call gave up on a write command that may still want its data

driver == <<pc, call, lba, cnt, todo, got, reply, calls>>
hist   == <<clean, orphan>>
vars   == <<drive, driver, hist>>

NoCall  == [op |-> "read", from |-> 0, len |-> 0, id |-> 0]
NoReply == [rc |-> 0, data |-> <<>>]

Init ==
  /\ DriveInit
  /\ pc = "idle" /\ call = NoCall /\ lba = 0 /\ cnt = 0 /\ todo = 0 /\ got = <<>>
  /\ reply = NoReply /\ calls = 0
  /\ clean = TRUE /\ orphan = FALSE

\* The count a command of the loop writes, in a register where 0 means MaxBurst.
CountRegister(n) == IF n > MaxBurst - 1 THEN 0 ELSE n
Burst(n) == IF n = 0 THEN MaxBurst ELSE n

Begin(op, from, len) ==
  /\ pc = "idle" /\ calls < MaxCalls
  /\ calls' = calls + 1
  /\ call' = [op |-> op, from |-> from, len |-> len, id |-> calls + 1]
  /\ lba' = from /\ cnt' = len /\ got' = <<>>
  /\ pc' = IF op = "read" THEN "issue" ELSE "bsy"
  /\ todo' = 0 /\ reply' = NoReply
  /\ clean' = (status = "rest")
  /\ UNCHANGED <<drive, orphan>>

Return(rc, data) == pc' = "idle" /\ reply' = [rc |-> rc, data |-> data]

\* Mutant: the next command is for the sectors of the last one.
NextRound_SameLba(again, data) ==
  LET n == Burst(CountRegister(cnt))
  IN  /\ cnt' = cnt - n /\ lba' = lba
      /\ IF cnt = n THEN Return(0, data) ELSE pc' = again /\ UNCHANGED reply

\* One round of the loop is over.
NextRound(again, data) ==
  LET n == Burst(CountRegister(cnt))
  IN  /\ cnt' = cnt - n /\ lba' = lba + n
      /\ IF cnt = n THEN Return(0, data) ELSE pc' = again /\ UNCHANGED reply

Issue(op) ==
  LET n == Burst(CountRegister(cnt))
  IN  /\ Command(op, lba, n)
      /\ todo' = n

-----------------------------------------------------------------------------
(* ata_read *)

IssueRead ==
  /\ pc = "issue"
  /\ Issue("read")
  /\ pc' = "rdrq"
  /\ UNCHANGED <<inbuf, medium, cache, faults, losses, call, lba, cnt, got, reply, calls, hist>>

\* insw: a drive that waits for data offers none, and does not move.
TakeSector ==
  IF cmd.op = "read"
  THEN /\ got' = Append(got, Current(cmd.at))
       /\ status' = IF cmd.left = 1 THEN "rest" ELSE "busy"
       /\ Advance
  ELSE got' = Append(got, Garbage) /\ UNCHANGED <<status, cmd>>

ReadSector ==
  /\ pc = "rdrq" /\ status = "drq"
  /\ TakeSector
  /\ todo' = todo - 1
  /\ IF todo = 1 THEN NextRound("issue", got') ELSE UNCHANGED <<pc, cnt, lba, reply>>
  /\ UNCHANGED <<inbuf, err, medium, cache, faults, losses, call, calls, hist>>

\* Sectors of the drive's command that are handed over and not yet stored.
Held == IF inbuf = {} THEN 0 ELSE 1
WantsData == status # "rest" /\ cmd.op = "write" /\ cmd.left > Held

Stopped(rc) ==
  /\ Return(rc, <<>>)
  /\ orphan' = (orphan \/ WantsData)
  /\ UNCHANGED <<drive, call, lba, cnt, todo, got, calls, clean>>

ReadError   == pc = "rdrq" /\ status = "rest" /\ err /\ Stopped(-1)
ReadTimeout == pc = "rdrq" /\ status # "drq" /\ ~err /\ Stopped(-1)

-----------------------------------------------------------------------------
(* ata_write *)

\* Mutant: the wait for an idle drive takes a drive that is busy for one.
NotBusy_Always == TRUE

\* wait_bsy_clear_to: BSY alone is looked at, neither DRQ nor ERR.
NotBusy == status # "busy"

IssueWrite ==
  /\ pc = "bsy" /\ NotBusy
  /\ Issue("write")
  /\ pc' = "wdrq"
  /\ UNCHANGED <<inbuf, medium, cache, faults, losses, call, lba, cnt, got, reply, calls, hist>>

\* outsw: a drive that offers data takes none.
GiveSector(v) ==
  IF cmd.op = "write" THEN inbuf' = {v} /\ status' = "busy" ELSE UNCHANGED <<inbuf, status>>

\* Sectors of the caller's buffer handed over so far.
Sent == call.len - cnt + Burst(CountRegister(cnt)) - todo

WriteSector ==
  /\ pc = "wdrq" /\ status = "drq"
  /\ GiveSector(Content(call.id, call.from + Sent))
  /\ todo' = todo - 1
  /\ pc' = IF todo = 1 THEN "last" ELSE pc
  /\ UNCHANGED <<cmd, err, medium, cache, faults, losses, call, lba, cnt, got, reply, calls, hist>>

WriteError   == pc = "wdrq" /\ status = "rest" /\ err /\ Stopped(-2)
WriteTimeout == pc = "wdrq" /\ status # "drq" /\ ~err /\ Stopped(-2)

\* Mutant: no flush after the data.
IssueFlush_Skipped ==
  /\ pc = "last" /\ NotBusy
  /\ pc' = "flush"
  /\ UNCHANGED <<drive, call, lba, cnt, todo, got, reply, calls, hist>>

IssueFlush ==
  /\ pc = "last" /\ NotBusy
  /\ Command("flush", 0, 0)
  /\ pc' = "flush"
  /\ UNCHANGED <<inbuf, medium, cache, faults, losses, call, lba, cnt, todo, got, reply, calls, hist>>

Flushed ==
  /\ pc = "flush" /\ NotBusy
  /\ NextRound("bsy", <<>>)
  /\ UNCHANGED <<drive, call, todo, got, calls, hist>>

\* Mutant: waits for ever.
BusyTimeout_Never == FALSE /\ Stopped(-1)

BusyTimeout ==
  /\ pc \in {"bsy", "last", "flush"} /\ status = "busy"
  /\ Stopped(CASE pc = "bsy" -> -1 [] pc = "last" -> -3 [] pc = "flush" -> -4)

DriverStep ==
  \/ IssueRead \/ ReadSector \/ ReadError \/ ReadTimeout
  \/ IssueWrite \/ WriteSector \/ WriteError \/ WriteTimeout
  \/ IssueFlush \/ Flushed \/ BusyTimeout

-----------------------------------------------------------------------------

\* The drive works on its own.  Nobody looks at ERR once the last sector of a
\* command is handed over.
Work ==
  /\ DriveStep
  /\ clean' = (clean /\ ~(err' /\ ~err /\ pc \in {"last", "flush"}))
  /\ UNCHANGED <<driver, orphan>>

PowerLoss ==
  /\ DriveOff
  /\ pc' = "idle" /\ clean' = TRUE
  /\ call' = NoCall /\ lba' = 0 /\ cnt' = 0 /\ todo' = 0 /\ got' = <<>>
  /\ UNCHANGED <<reply, calls, orphan>>

Next ==
  \/ \E op \in {"read", "write"}, from \in Sector, len \in 1 .. NumSectors :
       from + len <= NumSectors /\ Begin(op, from, len)
  \/ DriverStep
  \/ Work
  \/ PowerLoss

Spec == Init /\ [][Next]_vars

\* The processor runs the driver; of the drive nothing is assumed.
FairSpec == Spec /\ WF_vars(DriverStep)

-----------------------------------------------------------------------------
(* Properties. *)

TypeOK ==
  /\ status \in {"rest", "busy", "drq"}
  /\ cmd \in [op : {"none", "read", "write", "flush"}, at : 0 .. NumSectors, left : 0 .. MaxBurst]
  /\ inbuf \in SUBSET Data /\ err \in BOOLEAN
  /\ medium \in [Sector -> Data] /\ cache \in [Sector -> SUBSET Data]
  /\ pc \in {"idle", "issue", "rdrq", "bsy", "wdrq", "last", "flush"}
  /\ lba \in 0 .. NumSectors /\ cnt \in 0 .. NumSectors /\ todo \in 0 .. MaxBurst
  /\ got \in Seq(Data \cup {Garbage})
  /\ reply.rc \in -4 .. 0

\* While a call that found the drive at rest polls for a sector, drive and
\* driver agree on the command, on the sector and on how many are left, or the
\* drive has stopped with an error that the poll will see.
InStep ==
  clean /\ pc \in {"rdrq", "wdrq"} =>
    \/ /\ status # "rest"
       /\ cmd.op = call.op
       /\ cmd.left - Held = todo
       /\ cmd.at + Held = lba + Burst(CountRegister(cnt)) - todo
    \/ status = "rest" /\ err

\* Unless a call gave up on a write command that may still want its data, a
\* sector only ever holds what was written to that sector: neither a late
\* answer to a read nor an error makes later data go astray.
OwnSector ==
  ~orphan => \A s \in Sector : \A v \in cache[s] \cup {medium[s]} : v[2] = s

\* The disk as the callers see it: the cache over the medium.  After a failed
\* call, until the drive is at rest, and in calls that did not find it so,
\* nothing is promised.
Job == IF pc = "idle" THEN {} ELSE {call}
Loose == IF pc = "idle" THEN status # "rest" ELSE ~clean
Contract == INSTANCE BlockDisk WITH
  disk <- [s \in Sector |-> Current(s)],
  safe <- [s \in Sector |-> {medium[s]} \cup cache[s]],
  job <- Job, loose <- Loose

\* ata_read returns the sectors asked for, and what ata_write returned 0 for
\* survives a power loss, with errors, time-outs, late answers and a write
\* cache that is destaged in any order.
ImplementsBlockDisk == Contract!Spec

\* Every call returns, whatever the drive does: each poll has a limit.
EveryCallReturns == pc # "idle" ~> pc = "idle"
=============================================================================
