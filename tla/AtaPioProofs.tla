---------------------------- MODULE AtaPioProofs ----------------------------
(***************************************************************************)
(* For every number of sectors, every length of a command and any number   *)
(* of calls, errors and power losses: a call that found the drive at rest  *)
(* stays in step with it; driver and drive keep their types and ranges;    *)
(* data reaches the sector it was for unless a call gave up on a write;    *)
(* and the two together are the disk that BlockDisk promises.              *)
(***************************************************************************)
EXTENDS AtaPio, TLAPS

(* The driver counts sectors and the drive counts its own; nothing in the  *)
(* protocol compares the two.                                              *)

Numbers ==
  /\ cmd \in [op : {"none", "read", "write", "flush"}, at : Int, left : Int]
  /\ todo \in Int /\ lba \in Int /\ cnt \in Int

\* Where the call is agrees with what it was asked to do, and it has work left.
Called ==
  /\ pc \in {"idle", "issue", "rdrq", "bsy", "wdrq", "last", "flush"}
  /\ pc \in {"issue", "rdrq"} => call.op = "read"
  /\ pc \in {"bsy", "wdrq", "last", "flush"} => call.op = "write"
  /\ pc # "idle" => cnt >= 1
  /\ pc \in {"rdrq", "wdrq"} => todo >= 1

\* A drive holds a sector only while it works on a write, and has ERR set only
\* when it has stopped.
Device ==
  /\ status \in {"rest", "busy", "drq"}
  /\ inbuf # {} => (status = "busy" /\ cmd.op = "write")
  /\ err => status = "rest"

\* Between the data: a drive that was found at rest is at rest before each
\* command, stores the last sector after the data, and flushes after that.
Between ==
  clean =>
    /\ pc \in {"issue", "bsy"} => status = "rest"
    /\ pc = "last" => \/ status = "rest"
                      \/ status = "busy" /\ cmd.op = "write" /\ inbuf # {} /\ cmd.left = 1
    /\ pc = "flush" => \/ status = "rest"
                       \/ status = "busy" /\ cmd.op = "flush"

StepInv == Numbers /\ Called /\ Device /\ Between /\ InStep

-----------------------------------------------------------------------------

\* A command is for at least one sector and for no more than are left.
LEMMA BurstBounds ==
  ASSUME NEW n \in Int, n >= 1
  PROVE  Burst(CountRegister(n)) \in Int /\ Burst(CountRegister(n)) \in 1 .. n
BY DriveConstants DEF Burst, CountRegister

LEMMA BurstInt ==
  ASSUME NEW n \in Int
  PROVE  Burst(CountRegister(n)) \in Int
BY DriveConstants DEF Burst, CountRegister

LEMMA HeldValue == Held = (IF inbuf = {} THEN 0 ELSE 1) /\ Held \in Int
BY DEF Held

\* The drive's own counter moves within the integers.
LEMMA AdvanceType ==
  ASSUME Numbers, Advance
  PROVE  /\ cmd' \in [op : {"none", "read", "write", "flush"}, at : Int, left : Int]
         /\ cmd'.op = cmd.op /\ cmd'.at = cmd.at + 1 /\ cmd'.left = cmd.left - 1
<1>1. cmd.at + 1 \in Int /\ cmd.left - 1 \in Int /\ cmd.op \in {"none", "read", "write", "flush"}
  BY DEF Numbers
<1>2. cmd' = [op |-> cmd.op, at |-> cmd.at + 1, left |-> cmd.left - 1]
  BY DEF Numbers, Advance
<1> QED
  BY <1>1, <1>2

LEMMA Initially == Init => StepInv
BY DEF Init, DriveInit, NoCmd, StepInv, Numbers, Called, Device, Between, InStep

LEMMA BeginKeeps ==
  ASSUME StepInv, NEW op \in {"read", "write"}, NEW from \in Sector, NEW len \in 1 .. NumSectors,
         Begin(op, from, len)
  PROVE  StepInv'
<1>1. pc' \in {"issue", "bsy"} /\ call'.op = op /\ (pc' = "issue" <=> op = "read")
  BY DEF Begin
<1>2. cnt' = len /\ lba' = from /\ todo' = 0 /\ clean' = (status = "rest")
  BY DEF Begin
<1>3. UNCHANGED <<status, cmd, inbuf, err>>
  BY DEF Begin, drive
<1>4. cnt' \in Int /\ cnt' >= 1 /\ lba' \in Int
  BY <1>2, DriveConstants DEF Sector
<1>5. Numbers' /\ Called' /\ Device'
  BY <1>1, <1>2, <1>3, <1>4 DEF StepInv, Numbers, Called, Device
<1>6. Between' /\ InStep'
  BY <1>1, <1>2, <1>3 DEF Between, InStep
<1> QED
  BY <1>5, <1>6 DEF StepInv

\* A command reaches a drive at rest with the driver's own numbers.
LEMMA IssueKeeps ==
  ASSUME StepInv, NEW op \in {"read", "write"}, call.op = op,
         pc # "idle", clean => status = "rest",
         Issue(op), pc' = (IF op = "read" THEN "rdrq" ELSE "wdrq"),
         UNCHANGED <<inbuf, call, lba, cnt, clean>>
  PROVE  StepInv'
<1> DEFINE n == Burst(CountRegister(cnt))
<1>1. n \in Int /\ n >= 1 /\ todo' = n
  BY BurstBounds DEF StepInv, Numbers, Called, Issue
<1>2. Numbers' /\ Called'
  BY <1>1 DEF StepInv, Numbers, Called, Issue, Command
<1>3. CASE status = "rest"
  <2>1. status' = "busy" /\ ~err' /\ cmd' = [op |-> op, at |-> lba, left |-> n]
    BY <1>3 DEF Issue, Command
  <2>2. inbuf = {} /\ inbuf' = {} /\ Held' = 0
    BY <1>3 DEF StepInv, Device, Held
  <2>3. lba \in Int
    BY DEF StepInv, Numbers
  <2>4. lba + n - n = lba
    BY <1>1, <2>3
  <2> QED
    BY <1>1, <1>2, <2>1, <2>2, <2>3, <2>4 DEF StepInv, Device, Between, InStep
<1>4. CASE status # "rest"
  BY <1>2, <1>4 DEF StepInv, Device, Between, InStep, Issue, Command
<1> QED
  BY <1>3, <1>4

LEMMA IssueReadKeeps ==
  ASSUME StepInv, IssueRead
  PROVE  StepInv'
<1>1. call.op = "read" /\ pc = "issue" /\ pc' = "rdrq" /\ (clean => status = "rest")
  BY DEF IssueRead, StepInv, Called, Between
<1> QED
  BY <1>1, IssueKeeps DEF IssueRead, hist

LEMMA IssueWriteKeeps ==
  ASSUME StepInv, IssueWrite
  PROVE  StepInv'
<1>1. call.op = "write" /\ pc = "bsy" /\ pc' = "wdrq" /\ (clean => status = "rest")
  BY DEF IssueWrite, StepInv, Called, Between
<1> QED
  BY <1>1, IssueKeeps DEF IssueWrite, hist

\* The next round has work left, or the call is over.
LEMMA RoundBounds ==
  ASSUME StepInv, pc # "idle", NEW again, NEW data, NextRound(again, data)
  PROVE  /\ cnt' \in Int /\ lba' \in Int
         /\ pc' \in {"idle", again} /\ (pc' # "idle" => cnt' >= 1)
<1> DEFINE n == Burst(CountRegister(cnt))
<1>1. cnt \in Int /\ lba \in Int /\ n \in Int /\ n \in 1 .. cnt
  BY BurstBounds DEF StepInv, Numbers, Called
<1>2. cnt' = cnt - n /\ lba' = lba + n
  BY DEF NextRound
<1>3. CASE cnt = n
  BY <1>1, <1>2, <1>3 DEF NextRound, Return
<1>4. CASE cnt # n
  BY <1>1, <1>2, <1>4 DEF NextRound
<1> QED
  BY <1>3, <1>4

LEMMA ReadSectorKeeps ==
  ASSUME StepInv, ReadSector
  PROVE  StepInv'
<1>1. /\ pc = "rdrq" /\ status = "drq" /\ call.op = "read" /\ inbuf = {} /\ Held = 0 /\ ~err
      /\ todo \in Int /\ todo >= 1 /\ todo' = todo - 1
      /\ UNCHANGED <<inbuf, err, call, clean>>
  BY DEF StepInv, Numbers, Called, Device, Held, ReadSector, hist
<1>2. Numbers' /\ Device'
  <2>1. cmd' \in [op : {"none", "read", "write", "flush"}, at : Int, left : Int]
    <3>1. CASE cmd.op = "read"
      BY <3>1, AdvanceType DEF StepInv, ReadSector, TakeSector
    <3>2. CASE cmd.op # "read"
      BY <3>2 DEF StepInv, Numbers, ReadSector, TakeSector
    <3> QED
      BY <3>1, <3>2
  <2>2. cnt' \in Int /\ lba' \in Int
    <3>1. CASE todo = 1
      BY <1>1, <3>1, RoundBounds DEF ReadSector
    <3>2. CASE todo # 1
      BY <1>1, <3>2 DEF ReadSector, StepInv, Numbers
    <3> QED
      BY <3>1, <3>2
  <2>3. status' \in {"rest", "busy", "drq"}
    BY <1>1 DEF ReadSector, TakeSector
  <2> QED
    BY <1>1, <2>1, <2>2, <2>3 DEF Numbers, Device
<1>3. clean => /\ cmd.op = "read" /\ cmd.left = todo
               /\ cmd.at = lba + Burst(CountRegister(cnt)) - todo
               /\ cmd.left \in Int /\ cmd.at \in Int
  BY <1>1 DEF StepInv, InStep, Numbers
<1>4. CASE todo = 1
  <2>1. /\ pc' \in {"idle", "issue"} /\ (pc' # "idle" => cnt' >= 1)
    BY <1>1, <1>4, RoundBounds DEF ReadSector
  <2>2. clean => status' = "rest"
    BY <1>1, <1>3, <1>4 DEF ReadSector, TakeSector
  <2> QED
    BY <1>1, <1>2, <2>1, <2>2 DEF StepInv, Called, Between, InStep
<1>5. CASE todo # 1
  <2>1. pc' = "rdrq" /\ cnt' = cnt /\ lba' = lba
    BY <1>1, <1>5 DEF ReadSector
  <2>2. Called'
    BY <1>1, <1>5, <2>1 DEF StepInv, Called
  <2>3. ASSUME clean
        PROVE  /\ status' = "busy"
               /\ cmd'.op = "read" /\ cmd'.left = cmd.left - 1 /\ cmd'.at = cmd.at + 1
    BY <1>1, <1>3, <1>5, <2>3, AdvanceType DEF StepInv, ReadSector, TakeSector
  <2>4. ASSUME clean
        PROVE  /\ status' # "rest" /\ cmd'.op = call'.op
               /\ cmd'.left - Held' = todo'
               /\ cmd'.at + Held' = lba' + Burst(CountRegister(cnt')) - todo'
    <3>1. Held' = 0
      BY <1>1 DEF Held
    <3>2. Burst(CountRegister(cnt)) \in Int /\ lba \in Int
      BY BurstInt DEF StepInv, Numbers
    <3>3. /\ cmd.left - 1 - 0 = todo - 1
          /\ cmd.at + 1 + 0 = lba + Burst(CountRegister(cnt)) - (todo - 1)
      BY <1>1, <1>3, <2>4, <3>2
    <3>4. Burst(CountRegister(cnt')) = Burst(CountRegister(cnt))
      BY <2>1
    <3> QED
      BY <1>1, <2>1, <2>3, <2>4, <3>1, <3>3, <3>4
  <2> QED
    BY <1>1, <1>2, <2>1, <2>2, <2>4 DEF StepInv, Between, InStep
<1> QED
  BY <1>4, <1>5

LEMMA StoppedKeeps ==
  ASSUME StepInv, NEW rc, Stopped(rc)
  PROVE  StepInv'
BY DEF StepInv, Numbers, Called, Device, Between, InStep, Stopped, Return, drive

LEMMA WriteSectorKeeps ==
  ASSUME StepInv, WriteSector
  PROVE  StepInv'
<1>1. /\ pc = "wdrq" /\ status = "drq" /\ call.op = "write" /\ inbuf = {} /\ Held = 0 /\ ~err
      /\ todo \in Int /\ todo >= 1 /\ todo' = todo - 1
      /\ UNCHANGED <<cmd, err, call, lba, cnt, clean>>
      /\ pc' = IF todo = 1 THEN "last" ELSE "wdrq"
  BY DEF StepInv, Numbers, Called, Device, Held, WriteSector, hist
<1>2. Numbers' /\ Called'
  BY <1>1 DEF StepInv, Numbers, Called
<1>3. Device'
  BY <1>1 DEF StepInv, Device, WriteSector, GiveSector
<1>4. ASSUME clean
      PROVE  /\ status' = "busy" /\ inbuf' # {} /\ Held' = 1
             /\ cmd.op = "write" /\ cmd.left = todo
             /\ cmd.at = lba + Burst(CountRegister(cnt)) - todo
             /\ cmd.left \in Int /\ cmd.at \in Int
  <2>1. /\ cmd.op = "write" /\ cmd.left = todo
        /\ cmd.at = lba + Burst(CountRegister(cnt)) - todo
        /\ cmd.left \in Int /\ cmd.at \in Int
    BY <1>1, <1>4 DEF StepInv, InStep, Numbers
  <2>2. status' = "busy" /\ inbuf' # {}
    BY <1>1, <2>1 DEF WriteSector, GiveSector
  <2> QED
    BY <2>1, <2>2 DEF Held
<1>5. Between'
  BY <1>1, <1>4 DEF Between
<1>6. InStep'
  <2>1. SUFFICES ASSUME clean, todo # 1
                 PROVE  /\ cmd.left - 1 = todo - 1
                        /\ cmd.at + 1 = lba + Burst(CountRegister(cnt)) - (todo - 1)
    BY <1>1, <1>4 DEF InStep
  <2>2. Burst(CountRegister(cnt)) \in Int /\ lba \in Int
    BY BurstInt DEF StepInv, Numbers
  <2> QED
    BY <1>1, <1>4, <2>1, <2>2
<1> QED
  BY <1>2, <1>3, <1>5, <1>6 DEF StepInv

LEMMA IssueFlushKeeps ==
  ASSUME StepInv, IssueFlush
  PROVE  StepInv'
BY DEF StepInv, Numbers, Called, Device, Between, InStep, IssueFlush, NotBusy, Command, hist

LEMMA FlushedKeeps ==
  ASSUME StepInv, Flushed
  PROVE  StepInv'
<1>1. /\ pc = "flush" /\ call.op = "write" /\ status # "busy"
      /\ UNCHANGED <<status, cmd, inbuf, err, call, todo, clean>>
  BY DEF StepInv, Called, Flushed, NotBusy, hist, drive
<1>2. /\ cnt' \in Int /\ lba' \in Int
      /\ pc' \in {"idle", "bsy"} /\ (pc' # "idle" => cnt' >= 1)
  BY <1>1, RoundBounds DEF Flushed
<1> QED
  BY <1>1, <1>2 DEF StepInv, Numbers, Called, Device, Between, InStep

-----------------------------------------------------------------------------
(* The drive's own steps. *)

LEMMA StoreKeeps ==
  ASSUME StepInv, StoreSector, UNCHANGED driver, clean' => clean
  PROVE  StepInv'
<1>1. /\ status = "busy" /\ cmd.op = "write" /\ inbuf # {} /\ Held = 1
      /\ inbuf' = {} /\ Held' = 0 /\ err' = err
      /\ status' = IF cmd.left = 1 THEN "rest" ELSE "busy"
      /\ cmd.left \in Int /\ cmd.at \in Int
  BY DEF StepInv, Numbers, StoreSector, Held
<1>2. /\ cmd' \in [op : {"none", "read", "write", "flush"}, at : Int, left : Int]
      /\ cmd'.op = "write" /\ cmd'.at = cmd.at + 1 /\ cmd'.left = cmd.left - 1
  BY <1>1, AdvanceType DEF StepInv, StoreSector
<1>3. UNCHANGED <<pc, call, lba, cnt, todo>>
  BY DEF driver
<1>4. Numbers' /\ Called'
  BY <1>2, <1>3 DEF StepInv, Numbers, Called
<1>5. Device' /\ Between'
  BY <1>1, <1>2, <1>3 DEF StepInv, Device, Between
<1>6. InStep'
  <2>1. SUFFICES ASSUME clean, pc \in {"rdrq", "wdrq"}
                 PROVE  /\ cmd.left # 1 /\ cmd'.op = call.op
                        /\ cmd'.left - 0 = todo
                        /\ cmd'.at + 0 = lba + Burst(CountRegister(cnt)) - todo
    BY <1>1, <1>3 DEF InStep
  <2>2. /\ cmd.op = call.op /\ cmd.left - 1 = todo
        /\ cmd.at + 1 = lba + Burst(CountRegister(cnt)) - todo /\ todo >= 1
    BY <1>1, <2>1 DEF StepInv, InStep, Called
  <2> QED
    BY <1>1, <1>2, <2>2
<1> QED
  BY <1>4, <1>5, <1>6 DEF StepInv

LEMMA WorkKeeps ==
  ASSUME StepInv, Work
  PROVE  StepInv'
<1>1. UNCHANGED <<pc, call, lba, cnt, todo>> /\ (clean' => clean)
  BY DEF Work, driver
<1>2. CASE OfferSector
  BY <1>1, <1>2 DEF OfferSector, StepInv, Numbers, Called, Device, Between, InStep, Held
<1>3. CASE AskSector
  BY <1>1, <1>3 DEF AskSector, StepInv, Numbers, Called, Device, Between, InStep, Held
<1>4. CASE StoreSector
  BY <1>1, <1>4, StoreKeeps DEF Work
<1>5. CASE FlushDone
  BY <1>1, <1>5 DEF FlushDone, StepInv, Numbers, Called, Device, Between, InStep
<1>6. CASE Fault
  BY <1>1, <1>6 DEF Fault, StepInv, Numbers, Called, Device, Between, InStep
<1>7. CASE \E s \in Sector : Destage(s)
  BY <1>1, <1>7 DEF Destage, StepInv, Numbers, Called, Device, Between, InStep, Held
<1> QED
  BY <1>2, <1>3, <1>4, <1>5, <1>6, <1>7 DEF Work, DriveStep

LEMMA PowerLossKeeps ==
  ASSUME StepInv, PowerLoss
  PROVE  StepInv'
BY DEF PowerLoss, DriveOff, NoCmd, NoCall, StepInv, Numbers, Called, Device, Between, InStep

LEMMA StutterKeeps ==
  ASSUME StepInv, UNCHANGED vars
  PROVE  StepInv'
BY DEF vars, drive, driver, hist, StepInv, Numbers, Called, Device, Between, InStep, Held

LEMMA NextKeeps ==
  ASSUME StepInv, [Next]_vars
  PROVE  StepInv'
<1>1. CASE \E op \in {"read", "write"}, from \in Sector, len \in 1 .. NumSectors :
             from + len <= NumSectors /\ Begin(op, from, len)
  BY <1>1, BeginKeeps
<1>2. CASE DriverStep
  <2>1. CASE ReadError \/ ReadTimeout \/ WriteError \/ WriteTimeout \/ BusyTimeout
    BY <2>1, StoppedKeeps DEF ReadError, ReadTimeout, WriteError, WriteTimeout, BusyTimeout
  <2> QED
    BY <1>2, <2>1, IssueReadKeeps, ReadSectorKeeps, IssueWriteKeeps, WriteSectorKeeps,
       IssueFlushKeeps, FlushedKeeps DEF DriverStep
<1>3. CASE Work
  BY <1>3, WorkKeeps
<1>4. CASE PowerLoss
  BY <1>4, PowerLossKeeps
<1>5. CASE UNCHANGED vars
  BY <1>5, StutterKeeps
<1> QED
  BY <1>1, <1>2, <1>3, <1>4, <1>5 DEF Next

\* A call that found the drive at rest never gives or takes a sector that the
\* drive does not have in hand (ata_pio.c:52-55, 76-80).
THEOREM DriverInStep == Spec => []InStep
<1>1. Init => StepInv
  BY Initially
<1>2. StepInv /\ [Next]_vars => StepInv'
  BY NextKeeps
<1>3. StepInv => InStep
  BY DEF StepInv
<1> QED
  BY <1>1, <1>2, <1>3, PTL DEF Spec

-----------------------------------------------------------------------------
(* Types and ranges. *)

\* A command in hand has sectors left, and they are on the disk.
DriveTypes ==
  /\ status \in {"rest", "busy", "drq"}
  /\ cmd \in [op : {"none", "read", "write", "flush"}, at : 0 .. NumSectors, left : 0 .. MaxBurst]
  /\ inbuf \in SUBSET Data /\ err \in BOOLEAN
  /\ medium \in [Sector -> Data] /\ cache \in [Sector -> SUBSET Data]
  /\ status # "rest" /\ cmd.op \in {"read", "write"} =>
       cmd.left >= 1 /\ cmd.at + cmd.left <= NumSectors

\* What is left of a call ends where the caller's sectors end.
DriverTypes ==
  /\ pc \in {"idle", "issue", "rdrq", "bsy", "wdrq", "last", "flush"}
  /\ call \in [op : {"read", "write"}, from : Sector, len : 0 .. NumSectors, id : 0 .. MaxCalls]
  /\ lba \in 0 .. NumSectors /\ cnt \in 0 .. NumSectors /\ todo \in 0 .. MaxBurst
  /\ got \in Seq(Data \cup {Garbage}) /\ reply.rc \in -4 .. 0
  /\ calls \in 0 .. MaxCalls
  /\ pc # "idle" => /\ cnt >= 1
                    /\ lba + cnt = call.from + call.len
                    /\ call.from + call.len <= NumSectors
  /\ pc \in {"rdrq", "wdrq"} => todo \in 1 .. Burst(CountRegister(cnt))

TypeInv == StepInv /\ DriveTypes /\ DriverTypes

-----------------------------------------------------------------------------

LEMMA Typed == TypeInv => TypeOK
BY DEF TypeInv, DriveTypes, DriverTypes, TypeOK

\* A command is never for more sectors than are left, nor than a command holds.
LEMMA BurstRange ==
  ASSUME NEW n \in 0 .. NumSectors, n >= 1
  PROVE  /\ Burst(CountRegister(n)) \in Int
         /\ Burst(CountRegister(n)) \in 1 .. n /\ Burst(CountRegister(n)) \in 1 .. MaxBurst
BY DriveConstants DEF Burst, CountRegister

LEMMA ContentType == ASSUME NEW w \in 0 .. MaxCalls, NEW s \in Sector PROVE Content(w, s) \in Data
BY DEF Content, Data

LEMMA CurrentType == ASSUME DriveTypes, NEW s \in Sector PROVE Current(s) \in Data
<1>1. cache[s] \in SUBSET Data /\ medium[s] \in Data
  BY DEF DriveTypes
<1> QED
  BY <1>1 DEF Current

\* The drive's own counters move within a command.
LEMMA AdvanceRange ==
  ASSUME cmd \in [op : {"none", "read", "write", "flush"}, at : 0 .. NumSectors, left : 0 .. MaxBurst],
         cmd.left >= 1, cmd.at + cmd.left <= NumSectors, Advance
  PROVE  /\ cmd' \in [op : {"none", "read", "write", "flush"}, at : 0 .. NumSectors, left : 0 .. MaxBurst]
         /\ cmd.left # 1 => cmd'.left >= 1 /\ cmd'.at + cmd'.left <= NumSectors
         /\ cmd'.op = cmd.op
<1>1. cmd' = [op |-> cmd.op, at |-> cmd.at + 1, left |-> cmd.left - 1]
  BY DEF Advance
<1>2. /\ cmd.at + 1 \in 0 .. NumSectors /\ cmd.left - 1 \in 0 .. MaxBurst
      /\ cmd.left # 1 => cmd.left - 1 >= 1
      /\ (cmd.at + 1) + (cmd.left - 1) <= NumSectors
  BY DriveConstants
<1>3. cmd.op \in {"none", "read", "write", "flush"}
  OBVIOUS
<1> QED
  BY <1>1, <1>2, <1>3

LEMMA TypesInitially == Init => TypeInv
<1> SUFFICES ASSUME Init PROVE TypeInv
  OBVIOUS
<1>1. 0 \in Sector /\ 0 \in 0 .. MaxCalls /\ 0 \in 0 .. MaxBurst /\ 0 \in 0 .. NumSectors
  BY DriveConstants DEF Sector
<1>2. \A s \in Sector : Content(0, s) \in Data
  BY <1>1, ContentType
<1>3. DriveTypes
  BY <1>1, <1>2 DEF Init, DriveInit, DriveTypes, NoCmd
<1>4. DriverTypes
  BY <1>1 DEF Init, DriverTypes, NoCall, NoReply
<1> QED
  BY <1>3, <1>4, Initially DEF TypeInv

LEMMA BeginTypes ==
  ASSUME DriveTypes, DriverTypes,
         NEW op \in {"read", "write"}, NEW from \in Sector, NEW len \in 1 .. NumSectors,
         from + len <= NumSectors, Begin(op, from, len)
  PROVE  DriveTypes' /\ DriverTypes'
<1>1. DriveTypes'
  BY DEF Begin, drive, DriveTypes
<1>2. /\ calls \in Int /\ calls + 1 \in 0 .. MaxCalls /\ from \in 0 .. NumSectors
      /\ len \in 0 .. NumSectors /\ 0 \in 0 .. MaxBurst
  BY DriveConstants DEF Begin, DriverTypes, Sector
<1>3. call' = [op |-> op, from |-> from, len |-> len, id |-> calls + 1]
  BY DEF Begin
<1> QED
  BY <1>1, <1>2, <1>3 DEF Begin, DriverTypes, NoReply

\* The command register gets sectors of the disk.
LEMMA IssueTypes ==
  ASSUME DriveTypes, DriverTypes, NEW op \in {"read", "write"}, pc # "idle",
         Issue(op), pc' \in {"rdrq", "wdrq"},
         UNCHANGED <<inbuf, medium, cache, call, lba, cnt, got, reply, calls>>
  PROVE  DriveTypes' /\ DriverTypes'
<1> DEFINE n == Burst(CountRegister(cnt))
<1>1. /\ n \in Int /\ n \in 1 .. cnt /\ n \in 1 .. MaxBurst
      /\ lba \in 0 .. NumSectors /\ cnt \in 0 .. NumSectors /\ lba + cnt <= NumSectors
  BY BurstRange DEF DriverTypes
<1>2. todo' = n /\ cnt' = cnt
  BY DEF Issue
<1>3. DriverTypes'
  <2>1. todo' \in 0 .. MaxBurst /\ todo' \in 1 .. Burst(CountRegister(cnt'))
    BY <1>1, <1>2
  <2> QED
    BY <2>1 DEF DriverTypes
<1>4. CASE status = "rest"
  <2>1. status' = "busy" /\ err' = FALSE /\ cmd' = [op |-> op, at |-> lba, left |-> n]
    BY <1>4 DEF Issue, Command
  <2>2. n \in 0 .. MaxBurst /\ n >= 1 /\ lba + n <= NumSectors
    BY <1>1, DriveConstants
  <2> QED
    BY <1>1, <1>3, <2>1, <2>2 DEF DriveTypes
<1>5. CASE status # "rest"
  BY <1>3, <1>5 DEF Issue, Command, DriveTypes
<1> QED
  BY <1>4, <1>5

\* The next round starts where this one ended.
LEMMA RoundTypes ==
  ASSUME DriverTypes, pc # "idle", NEW again \in {"issue", "bsy"}, NEW data,
         NextRound(again, data), UNCHANGED <<call, calls>>,
         got' \in Seq(Data \cup {Garbage}), todo' \in 0 .. MaxBurst
  PROVE  DriverTypes'
<1> DEFINE n == Burst(CountRegister(cnt))
<1>1. /\ n \in Int /\ n \in 1 .. cnt
      /\ lba \in 0 .. NumSectors /\ cnt \in 0 .. NumSectors
      /\ lba + cnt = call.from + call.len /\ call.from + call.len <= NumSectors
      /\ call.from \in Int /\ call.len \in Int
  BY BurstRange DEF DriverTypes, Sector
<1>2. cnt' = cnt - n /\ lba' = lba + n
  BY DEF NextRound
<1>3. cnt' \in 0 .. NumSectors /\ lba' \in 0 .. NumSectors /\ lba' + cnt' = call.from + call.len
  <2> HIDE DEF n
  <2>1. cnt - n \in 0 .. NumSectors /\ lba + n \in 0 .. NumSectors
    BY <1>1, DriveConstants
  <2>2. (lba + n) + (cnt - n) = lba + cnt
    BY <1>1
  <2> QED
    BY <1>1, <1>2, <2>1, <2>2
<1>4. pc' \in {"idle", again} /\ reply'.rc \in -4 .. 0
  BY DEF NextRound, Return, DriverTypes
<1>5. pc' # "idle" => cnt' >= 1
  BY <1>1, <1>2 DEF NextRound, Return
<1> QED
  BY <1>1, <1>3, <1>4, <1>5 DEF DriverTypes

LEMMA ReadSectorTypes ==
  ASSUME StepInv, DriveTypes, DriverTypes, ReadSector
  PROVE  DriveTypes' /\ DriverTypes'
<1>1. /\ pc = "rdrq" /\ status = "drq" /\ todo' = todo - 1
      /\ todo \in 1 .. Burst(CountRegister(cnt)) /\ todo \in 0 .. MaxBurst
      /\ UNCHANGED <<inbuf, err, medium, cache, call, calls>>
  BY DEF ReadSector, DriverTypes
<1>2. DriveTypes' /\ got' \in Seq(Data \cup {Garbage})
  <2>1. CASE cmd.op = "read"
    <3>1. /\ cmd.left \in 1 .. MaxBurst /\ cmd.at \in 0 .. NumSectors
          /\ cmd.at + cmd.left <= NumSectors
      BY <1>1, <2>1 DEF DriveTypes
    <3>2. cmd.at \in Sector
      BY <3>1, DriveConstants DEF Sector
    <3>3. got' = Append(got, Current(cmd.at)) /\ Current(cmd.at) \in Data
      BY <2>1, <3>2, CurrentType DEF ReadSector, TakeSector
    <3>4. status' = IF cmd.left = 1 THEN "rest" ELSE "busy"
      BY <2>1 DEF ReadSector, TakeSector
    <3>5. Advance
      BY <2>1 DEF ReadSector, TakeSector
    <3>6. /\ cmd' \in [op : {"none", "read", "write", "flush"}, at : 0 .. NumSectors, left : 0 .. MaxBurst]
          /\ cmd.left # 1 => cmd'.left >= 1 /\ cmd'.at + cmd'.left <= NumSectors
      BY <3>1, <3>5, AdvanceRange DEF DriveTypes
    <3>7. got' \in Seq(Data \cup {Garbage})
      BY <3>3 DEF DriverTypes
    <3> QED
      BY <1>1, <3>4, <3>6, <3>7 DEF DriveTypes
  <2>2. CASE cmd.op # "read"
    <3>1. got' = Append(got, Garbage) /\ UNCHANGED <<status, cmd>>
      BY <2>2 DEF ReadSector, TakeSector
    <3>2. got' \in Seq(Data \cup {Garbage})
      BY <3>1 DEF DriverTypes
    <3> QED
      BY <1>1, <3>1, <3>2 DEF DriveTypes
  <2> QED
    BY <2>1, <2>2
<1>3. cnt \in 0 .. NumSectors /\ cnt >= 1
  BY <1>1 DEF DriverTypes
<1>4. Burst(CountRegister(cnt)) \in Int
  BY <1>3, BurstRange
<1>5. todo' \in 0 .. MaxBurst
  BY <1>1, <1>4, DriveConstants
<1>6. CASE todo = 1
  BY <1>1, <1>2, <1>5, <1>6, RoundTypes DEF ReadSector
<1>7. CASE todo # 1
  <2>1. UNCHANGED <<pc, cnt, lba, reply>>
    BY <1>7 DEF ReadSector
  <2>2. todo' \in 1 .. Burst(CountRegister(cnt'))
    BY <1>1, <1>4, <1>7, <2>1
  <2> QED
    BY <1>1, <1>2, <1>5, <2>1, <2>2 DEF DriverTypes
<1> QED
  BY <1>2, <1>6, <1>7

LEMMA StoppedTypes ==
  ASSUME DriveTypes, DriverTypes, NEW rc \in -4 .. 0, Stopped(rc)
  PROVE  DriveTypes' /\ DriverTypes'
BY DEF Stopped, Return, drive, DriveTypes, DriverTypes

LEMMA WriteSectorTypes ==
  ASSUME StepInv, DriveTypes, DriverTypes, WriteSector
  PROVE  DriveTypes' /\ DriverTypes'
<1> DEFINE n == Burst(CountRegister(cnt))
<1>1. /\ pc = "wdrq" /\ status = "drq" /\ todo' = todo - 1
      /\ todo \in 1 .. n /\ todo \in 0 .. MaxBurst
      /\ UNCHANGED <<cmd, err, medium, cache, call, lba, cnt, got, reply, calls>>
  BY DEF WriteSector, DriverTypes
<1>2. /\ n \in Int /\ n \in 1 .. cnt
      /\ lba \in 0 .. NumSectors /\ cnt \in 0 .. NumSectors
      /\ lba + cnt = call.from + call.len /\ call.from + call.len <= NumSectors
      /\ call.from \in 0 .. NumSectors - 1 /\ call.len \in 0 .. NumSectors
  BY <1>1, BurstRange DEF DriverTypes, Sector
<1>3. call.from + Sent \in Sector
  <2> HIDE DEF n
  <2>1. call.from + (call.len - cnt + n - todo) = lba + n - todo
    BY <1>1, <1>2, DriveConstants
  <2>2. lba + n - todo \in 0 .. NumSectors - 1
    BY <1>1, <1>2, DriveConstants
  <2>3. Sent = call.len - cnt + n - todo
    BY DEF Sent, n
  <2> QED
    BY <2>1, <2>2, <2>3 DEF Sector
<1>4. {Content(call.id, call.from + Sent)} \in SUBSET Data
  BY <1>3, ContentType DEF DriverTypes
<1>5. DriveTypes'
  BY <1>1, <1>4 DEF WriteSector, GiveSector, DriveTypes
<1>6. todo' \in 0 .. MaxBurst /\ (todo # 1 => todo' \in 1 .. n)
  BY <1>1, <1>2, DriveConstants
<1> QED
  BY <1>1, <1>5, <1>6 DEF WriteSector, DriverTypes

LEMMA DriverStepTypes ==
  ASSUME StepInv, DriveTypes, DriverTypes, DriverStep
  PROVE  DriveTypes' /\ DriverTypes'
<1>1. CASE IssueRead
  BY <1>1, IssueTypes DEF IssueRead
<1>2. CASE ReadSector
  BY <1>2, ReadSectorTypes
<1>3. CASE ReadError \/ ReadTimeout \/ WriteError \/ WriteTimeout \/ BusyTimeout
  <2>1. Stopped(-1) \/ Stopped(-2) \/ Stopped(-3) \/ Stopped(-4)
    BY <1>3 DEF ReadError, ReadTimeout, WriteError, WriteTimeout, BusyTimeout
  <2>2. -1 \in -4 .. 0 /\ -2 \in -4 .. 0 /\ -3 \in -4 .. 0 /\ -4 \in -4 .. 0
    OBVIOUS
  <2> QED
    BY <2>1, <2>2, StoppedTypes
<1>4. CASE IssueWrite
  BY <1>4, IssueTypes DEF IssueWrite
<1>5. CASE WriteSector
  BY <1>5, WriteSectorTypes
<1>6. CASE IssueFlush
  <2>1. DriverTypes'
    BY <1>6 DEF IssueFlush, DriverTypes
  <2>2. 0 \in 0 .. NumSectors /\ 0 \in 0 .. MaxBurst
    BY DriveConstants
  <2>3. DriveTypes'
    <3>1. UNCHANGED <<inbuf, medium, cache>>
      BY <1>6 DEF IssueFlush
    <3>2. CASE status = "rest"
      <4>1. status' = "busy" /\ err' = FALSE /\ cmd' = [op |-> "flush", at |-> 0, left |-> 0]
        BY <1>6, <3>2 DEF IssueFlush, Command
      <4>2. cmd' \in [op : {"none", "read", "write", "flush"}, at : 0 .. NumSectors, left : 0 .. MaxBurst]
        BY <2>2, <4>1
      <4> QED
        BY <3>1, <4>1, <4>2 DEF DriveTypes
    <3>3. CASE status # "rest"
      BY <1>6, <3>1, <3>3 DEF IssueFlush, Command, DriveTypes
    <3> QED
      BY <3>2, <3>3
  <2> QED
    BY <2>1, <2>3
<1>7. CASE Flushed
  <2>1. DriveTypes'
    BY <1>7 DEF Flushed, drive, DriveTypes
  <2> QED
    BY <1>7, <2>1, RoundTypes DEF Flushed, DriverTypes
<1> QED
  BY <1>1, <1>2, <1>3, <1>4, <1>5, <1>6, <1>7 DEF DriverStep

\* The drive works, with or without a driver that listens.
LEMMA DriveStepTypes ==
  ASSUME StepInv, DriveTypes, DriveStep
  PROVE  DriveTypes'
<1>1. CASE OfferSector \/ AskSector \/ FlushDone
  BY <1>1 DEF OfferSector, AskSector, FlushDone, DriveTypes
<1>2. CASE StoreSector
  <2>1. /\ status = "busy" /\ cmd.op = "write" /\ Advance
        /\ cmd.left \in 1 .. MaxBurst /\ cmd.at \in 0 .. NumSectors
        /\ cmd.at + cmd.left <= NumSectors
    BY <1>2 DEF StoreSector, DriveTypes
  <2>2. cmd.at \in Sector
    BY <2>1, DriveConstants DEF Sector
  <2>3. /\ cmd' \in [op : {"none", "read", "write", "flush"}, at : 0 .. NumSectors, left : 0 .. MaxBurst]
        /\ cmd.left # 1 => cmd'.left >= 1 /\ cmd'.at + cmd'.left <= NumSectors
    BY <2>1, AdvanceRange DEF DriveTypes
  <2>4. cache' \in [Sector -> SUBSET Data] /\ inbuf' \in SUBSET Data
    BY <1>2 DEF StoreSector, DriveTypes
  <2> QED
    BY <1>2, <2>3, <2>4 DEF StoreSector, DriveTypes
<1>3. CASE Fault
  BY <1>3 DEF Fault, DriveTypes
<1>4. ASSUME NEW s \in Sector, Destage(s)
      PROVE  DriveTypes'
  <2>1. Current(s) \in Data
    BY CurrentType
  <2> QED
    BY <1>4, <2>1 DEF Destage, DriveTypes
<1> QED
  BY <1>1, <1>2, <1>3, <1>4 DEF DriveStep

LEMMA PowerLossTypes ==
  ASSUME DriveTypes, DriverTypes, PowerLoss
  PROVE  DriveTypes' /\ DriverTypes'
<1>1. 0 \in Sector /\ 0 \in 0 .. MaxCalls /\ 0 \in 0 .. MaxBurst /\ 0 \in 0 .. NumSectors
  BY DriveConstants DEF Sector
<1>2. DriveTypes'
  <2>1. cmd' = [op |-> "none", at |-> 0, left |-> 0]
    BY DEF PowerLoss, DriveOff, NoCmd
  <2>2. cmd' \in [op : {"none", "read", "write", "flush"}, at : 0 .. NumSectors, left : 0 .. MaxBurst]
    BY <1>1, <2>1
  <2>3. /\ status' = "rest" /\ inbuf' = {} /\ err' = FALSE /\ medium' = medium
        /\ cache' = [s \in Sector |-> {}]
    BY DEF PowerLoss, DriveOff
  <2> QED
    BY <2>2, <2>3 DEF DriveTypes
<1>3. DriverTypes'
  <2>1. call' = [op |-> "read", from |-> 0, len |-> 0, id |-> 0]
    BY DEF PowerLoss, NoCall
  <2>2. call' \in [op : {"read", "write"}, from : Sector, len : 0 .. NumSectors, id : 0 .. MaxCalls]
    BY <1>1, <2>1
  <2> QED
    BY <1>1, <2>2 DEF PowerLoss, DriverTypes
<1> QED
  BY <1>2, <1>3

LEMMA NextTypes == TypeInv /\ [Next]_vars => TypeInv'
<1> SUFFICES ASSUME TypeInv, [Next]_vars PROVE TypeInv'
  OBVIOUS
<1>1. StepInv /\ DriveTypes /\ DriverTypes /\ StepInv'
  BY NextKeeps DEF TypeInv
<1>2. CASE \E op \in {"read", "write"}, from \in Sector, len \in 1 .. NumSectors :
             from + len <= NumSectors /\ Begin(op, from, len)
  BY <1>1, <1>2, BeginTypes DEF TypeInv
<1>3. CASE DriverStep
  BY <1>1, <1>3, DriverStepTypes DEF TypeInv
<1>4. CASE Work
  <2>1. DriveTypes'
    BY <1>1, <1>4, DriveStepTypes DEF Work
  <2>2. DriverTypes'
    BY <1>1, <1>4 DEF Work, driver, DriverTypes
  <2> QED
    BY <1>1, <2>1, <2>2 DEF TypeInv
<1>5. CASE PowerLoss
  BY <1>1, <1>5, PowerLossTypes DEF TypeInv
<1>6. CASE UNCHANGED vars
  BY <1>1, <1>6 DEF vars, drive, driver, TypeInv, DriveTypes, DriverTypes
<1> QED
  BY <1>2, <1>3, <1>4, <1>5, <1>6 DEF Next

\* No command takes the drive's position, or the driver's, past the last sector
\* of the disk, and no counter leaves its range (ata_pio.c:44-58, 69-86),
\* although a drive that is late, or in the middle of another command, takes part.
THEOREM TypesAndRanges == Spec => []TypeOK
<1>1. Spec => []TypeInv
  BY TypesInitially, NextTypes, PTL DEF Spec
<1> QED
  BY <1>1, Typed, PTL

-----------------------------------------------------------------------------
(* Data ends up in the sector it was for. *)

\* Sectors of the command in hand that the driver has seen to.
Passed == Burst(CountRegister(cnt)) - todo

\* A drive that wants data for a write has a driver that is giving it, sector
\* by sector, and means the same sector.
Wanted ==
  WantsData =>
    /\ pc = "wdrq"
    /\ cmd.left - Held = todo
    /\ cmd.at + Held = lba + Passed

OwnData ==
  /\ \A v \in inbuf : v[2] = cmd.at
  /\ \A s \in Sector : \A v \in cache[s] \cup {medium[s]} : v[2] = s

OwnInv == ~orphan => Wanted /\ OwnData

LEMMA OwnInitially == Init => OwnInv
BY DEF Init, DriveInit, Content, OwnInv, Wanted, WantsData, OwnData

\* A step of the driver that leaves the drive alone.
LEMMA IdleOwn ==
  ASSUME OwnInv, UNCHANGED drive, orphan' = (orphan \/ WantsData) \/ (orphan' = orphan /\ pc # "wdrq")
  PROVE  OwnInv'
BY DEF drive, OwnInv, Wanted, WantsData, OwnData, Held

LEMMA IssueOwn ==
  ASSUME TypeInv, OwnInv, NEW op \in {"read", "write"}, pc \in {"issue", "bsy"},
         Issue(op), pc' = (IF op = "read" THEN "rdrq" ELSE "wdrq"),
         UNCHANGED <<inbuf, medium, cache, lba, cnt, orphan>>
  PROVE  OwnInv'
<1> DEFINE n == Burst(CountRegister(cnt))
<1>1. n \in Int /\ lba \in Int /\ todo' = n
  BY BurstInt DEF TypeInv, StepInv, Numbers, Issue
<1>2. CASE status = "rest"
  <2>1. status' = "busy" /\ cmd' = [op |-> op, at |-> lba, left |-> n]
    BY <1>2 DEF Issue, Command
  <2>2. inbuf = {} /\ inbuf' = {} /\ Held' = 0
    BY <1>2 DEF TypeInv, StepInv, Device, Held
  <2>3. Wanted'
    <3>1. n - 0 = n /\ lba + 0 = lba + (n - n)
      BY <1>1
    <3> QED
      BY <1>1, <2>1, <2>2, <3>1 DEF Wanted, WantsData, Passed
  <2> QED
    BY <2>2, <2>3 DEF OwnInv, OwnData
<1>3. CASE status # "rest"
  BY <1>3 DEF Issue, Command, OwnInv, Wanted, WantsData, OwnData, Held
<1> QED
  BY <1>2, <1>3

LEMMA ReadSectorOwn ==
  ASSUME TypeInv, OwnInv, ReadSector
  PROVE  OwnInv'
<1>1. inbuf = {} /\ inbuf' = {} /\ UNCHANGED <<medium, cache, orphan>> /\ pc = "rdrq" /\ status = "drq"
  BY DEF ReadSector, hist, TypeInv, StepInv, Device
<1>2. CASE cmd.op = "read"
  <2>1. cmd'.op = "read"
    BY <1>2, AdvanceType DEF TypeInv, StepInv, ReadSector, TakeSector
  <2> QED
    BY <1>1, <2>1 DEF OwnInv, Wanted, WantsData, OwnData
<1>3. CASE cmd.op # "read"
  BY <1>1, <1>3 DEF ReadSector, TakeSector, OwnInv, Wanted, WantsData, OwnData, Held
<1> QED
  BY <1>2, <1>3

LEMMA WriteSectorOwn ==
  ASSUME TypeInv, OwnInv, WriteSector
  PROVE  OwnInv'
<1>1. /\ pc = "wdrq" /\ status = "drq" /\ inbuf = {} /\ Held = 0
      /\ todo' = todo - 1 /\ (todo # 1 => pc' = "wdrq")
      /\ UNCHANGED <<cmd, medium, cache, call, lba, cnt, orphan>>
  BY DEF WriteSector, hist, TypeInv, StepInv, Device, Held
<1>2. CASE cmd.op = "write" /\ ~orphan
  <2>1. /\ cmd.left \in 1 .. MaxBurst /\ cmd.at \in 0 .. NumSectors /\ todo \in 0 .. MaxBurst
        /\ lba \in 0 .. NumSectors
    BY <1>1, <1>2 DEF TypeInv, DriveTypes, DriverTypes
  <2>2. WantsData
    BY <1>1, <1>2, <2>1, DriveConstants DEF WantsData
  <2>3. cmd.left = todo /\ cmd.at = lba + Passed
    BY <1>1, <1>2, <2>1, <2>2, DriveConstants DEF OwnInv, Wanted
  <2>4. /\ inbuf' = {Content(call.id, call.from + Sent)} /\ status' = "busy" /\ Held' = 1
    BY <1>1, <1>2 DEF WriteSector, GiveSector, Held
  <2>5. call.from + Sent = lba + Passed
    <3> DEFINE n == Burst(CountRegister(cnt))
    <3>1. /\ n \in Int /\ cnt \in Int /\ call.from \in Int /\ call.len \in Int
          /\ lba + cnt = call.from + call.len
      BY <1>1, BurstInt DEF TypeInv, DriverTypes, Sector
    <3>2. Sent = call.len - cnt + n - todo /\ Passed = n - todo
      BY DEF Sent, Passed
    <3> HIDE DEF n
    <3> QED
      BY <2>1, <3>1, <3>2
  <2>6. OwnData'
    BY <1>1, <1>2, <2>3, <2>4, <2>5 DEF OwnInv, OwnData, Content
  <2>7. WantsData' => todo # 1
    BY <1>1, <2>1, <2>3, <2>4, DriveConstants DEF WantsData
  <2>8. cmd.left - 1 = todo - 1 /\ cmd.at + 1 = lba + Passed'
    <3>1. Burst(CountRegister(cnt)) \in Int
      BY BurstInt DEF TypeInv, StepInv, Numbers
    <3>2. Passed' = Burst(CountRegister(cnt)) - (todo - 1)
      BY <1>1 DEF Passed
    <3> QED
      BY <2>1, <2>3, <3>1, <3>2 DEF Passed
  <2> QED
    BY <1>1, <1>2, <2>4, <2>6, <2>7, <2>8 DEF OwnInv, Wanted
<1>3. CASE cmd.op # "write"
  BY <1>1, <1>3 DEF WriteSector, GiveSector, OwnInv, Wanted, WantsData, OwnData
<1>4. CASE orphan
  BY <1>1, <1>4 DEF OwnInv
<1> QED
  BY <1>2, <1>3, <1>4

LEMMA IssueFlushOwn ==
  ASSUME TypeInv, OwnInv, IssueFlush
  PROVE  OwnInv'
BY DEF TypeInv, StepInv, Device, IssueFlush, Command, hist, OwnInv, Wanted, WantsData, OwnData, Held

LEMMA DriverStepOwn ==
  ASSUME TypeInv, OwnInv, DriverStep
  PROVE  OwnInv'
<1>1. CASE IssueRead
  BY <1>1, IssueOwn DEF IssueRead, hist
<1>2. CASE IssueWrite
  BY <1>2, IssueOwn DEF IssueWrite, hist
<1>3. CASE ReadError \/ ReadTimeout \/ WriteError \/ WriteTimeout \/ BusyTimeout
  <2>1. orphan' = (orphan \/ WantsData) /\ UNCHANGED drive
    BY <1>3 DEF ReadError, ReadTimeout, WriteError, WriteTimeout, BusyTimeout, Stopped
  <2> QED
    BY <2>1, IdleOwn
<1>4. CASE Flushed
  BY <1>4, IdleOwn DEF Flushed, hist
<1> QED
  BY <1>1, <1>2, <1>3, <1>4, ReadSectorOwn, WriteSectorOwn, IssueFlushOwn DEF DriverStep

LEMMA StoreOwn ==
  ASSUME TypeInv, OwnInv, StoreSector, UNCHANGED driver, orphan' = orphan
  PROVE  OwnInv'
<1> SUFFICES ASSUME ~orphan PROVE Wanted' /\ OwnData'
  BY DEF OwnInv
<1>1. /\ status = "busy" /\ cmd.op = "write" /\ inbuf # {} /\ inbuf' = {} /\ Held = 1 /\ Held' = 0
      /\ cache' = [cache EXCEPT ![cmd.at] = inbuf] /\ medium' = medium
      /\ UNCHANGED <<pc, call, lba, cnt, todo>>
  BY DEF StoreSector, Held, driver
<1>2. /\ cmd.left \in 1 .. MaxBurst /\ cmd.at \in 0 .. NumSectors
      /\ todo \in 0 .. MaxBurst /\ lba \in 0 .. NumSectors
      /\ cache \in [Sector -> SUBSET Data]
  BY <1>1 DEF TypeInv, DriveTypes, DriverTypes
<1>3. cmd'.at = cmd.at + 1 /\ cmd'.left = cmd.left - 1
  BY AdvanceType DEF TypeInv, StepInv, StoreSector
<1>4. OwnData'
  <2>1. \A v \in inbuf : v[2] = cmd.at
    BY DEF OwnInv, OwnData
  <2>2. \A s \in Sector : cache'[s] = IF s = cmd.at THEN inbuf ELSE cache[s]
    BY <1>1, <1>2
  <2> QED
    BY <1>1, <2>1, <2>2 DEF OwnInv, OwnData
<1>5. Wanted'
  <2>1. SUFFICES ASSUME WantsData'
                 PROVE  pc = "wdrq" /\ cmd'.left - 0 = todo /\ cmd'.at + 0 = lba + Passed
    BY <1>1 DEF Wanted, Passed
  <2>2. WantsData
    BY <1>1, <1>2, <1>3, <2>1, DriveConstants DEF WantsData
  <2>3. pc = "wdrq" /\ cmd.left - 1 = todo /\ cmd.at + 1 = lba + Passed
    BY <1>1, <2>2 DEF OwnInv, Wanted
  <2>4. cmd'.left \in Int /\ cmd'.at \in Int
    BY <1>2, <1>3, DriveConstants
  <2> QED
    BY <1>3, <2>3, <2>4
<1> QED
  BY <1>4, <1>5

LEMMA DestageOwn ==
  ASSUME TypeInv, OwnInv, UNCHANGED driver, orphan' = orphan, NEW s \in Sector, Destage(s)
  PROVE  OwnInv'
<1>1. Wanted => Wanted'
  BY DEF Destage, driver, Wanted, WantsData, Held, Passed
<1>2. cache[s] # {} /\ Current(s) \in cache[s]
  BY DEF Destage, Current
<1>3. \A t \in Sector : cache'[t] \cup {medium'[t]} \subseteq cache[t] \cup {medium[t]}
  BY <1>2 DEF Destage, TypeInv, DriveTypes
<1>4. UNCHANGED <<inbuf, cmd>>
  BY DEF Destage
<1>5. OwnData => OwnData'
  BY <1>3, <1>4 DEF OwnData
<1> QED
  BY <1>1, <1>5 DEF OwnInv

LEMMA WorkOwn ==
  ASSUME TypeInv, OwnInv, Work
  PROVE  OwnInv'
<1>1. UNCHANGED driver /\ orphan' = orphan
  BY DEF Work
<1>2. CASE OfferSector \/ AskSector \/ FlushDone \/ Fault
  BY <1>1, <1>2 DEF OfferSector, AskSector, FlushDone, Fault, driver, OwnInv, Wanted, WantsData, OwnData,
     Held, Passed
<1>3. CASE StoreSector
  BY <1>1, <1>3, StoreOwn
<1>4. CASE \E s \in Sector : Destage(s)
  BY <1>1, <1>4, DestageOwn
<1> QED
  BY <1>2, <1>3, <1>4 DEF Work, DriveStep

LEMMA NextOwn == TypeInv /\ OwnInv /\ [Next]_vars => OwnInv'
<1> SUFFICES ASSUME TypeInv, OwnInv, [Next]_vars PROVE OwnInv'
  OBVIOUS
<1>1. CASE \E op \in {"read", "write"}, from \in Sector, len \in 1 .. NumSectors :
             from + len <= NumSectors /\ Begin(op, from, len)
  BY <1>1, IdleOwn DEF Begin
<1>2. CASE PowerLoss
  BY <1>2 DEF PowerLoss, DriveOff, OwnInv, Wanted, WantsData, OwnData
<1>3. CASE UNCHANGED vars
  BY <1>3 DEF vars, drive, driver, hist, OwnInv, Wanted, WantsData, OwnData, Held, Passed
<1> QED
  BY <1>1, <1>2, <1>3, DriverStepOwn, WorkOwn DEF Next

\* Unless a call gave up on a write command that still wanted data, no late
\* answer, error or retry puts one sector's data into another, on the medium or
\* in the cache (ata_pio.c:63-86).
THEOREM SectorsKeepTheirOwn == Spec => []OwnSector
<1>1. OwnInv => OwnSector
  BY DEF OwnInv, OwnData, OwnSector
<1>2. Spec => [](TypeInv /\ OwnInv)
  BY TypesInitially, NextTypes, OwnInitially, NextOwn, PTL DEF Spec
<1> QED
  BY <1>1, <1>2, PTL

-----------------------------------------------------------------------------
(* What a call has done so far. *)

\* A sector handed over, and a sector of the cache, is one content.
Single ==
  /\ inbuf = {} \/ \E v \in Data : inbuf = {v}
  /\ \A s \in Sector : cache[s] = {} \/ \E v \in Data : cache[s] = {v}

Begun == pc # "idle" => lba >= call.from

\* What a read has so far is what the disk holds.
Read(n) == Len(got) = n /\ \A k \in 1 .. n : got[k] = Current(call.from + k - 1)

ReadSoFar ==
  clean => /\ pc = "issue" => Read(call.len - cnt)
           /\ pc = "rdrq" => Read(call.len - cnt + Passed)

\* What a write has so far is on the disk, up to the sector in hand, and after
\* the flush it is on the medium.
Written(to) == \A s \in Sector : call.from <= s /\ s < to => Current(s) = Content(call.id, s)
RoundEnd == lba + Burst(CountRegister(cnt))

WrittenSoFar ==
  clean =>
    /\ pc = "bsy" => Written(lba)
    /\ pc \in {"wdrq", "last"} /\ status # "rest" =>
         /\ Written(cmd.at) /\ cmd.at >= call.from
         /\ \A v \in inbuf : v = Content(call.id, cmd.at)
    /\ pc = "last" /\ status # "rest" => cmd.at + 1 = RoundEnd
    /\ pc = "last" /\ status = "rest" => Written(RoundEnd)
    /\ pc = "flush" => Written(RoundEnd)
    /\ pc = "flush" /\ status = "rest" => \A s \in Sector : cache[s] = {}

DataInv == Single /\ Begun /\ ReadSoFar /\ WrittenSoFar

-----------------------------------------------------------------------------

\* What a read finds depends on the medium and the cache only.
LEMMA SameDisk ==
  ASSUME UNCHANGED <<medium, cache>>
  PROVE  \A s \in Sector : Current(s)' = Current(s)
BY DEF Current

\* Moving a sector to the medium changes nothing that a read can see.
LEMMA DestagedDisk ==
  ASSUME TypeInv, NEW s \in Sector, Destage(s)
  PROVE  \A t \in Sector : Current(t)' = Current(t)
<1>1. /\ \A t \in Sector : medium'[t] = IF t = s THEN Current(s) ELSE medium[t]
      /\ \A t \in Sector : cache'[t] = IF t = s THEN {} ELSE cache[t]
  BY DEF Destage, TypeInv, DriveTypes
<1> TAKE t \in Sector
<1>2. CASE t = s
  <2>1. cache'[t] = {} /\ medium'[t] = Current(s)
    BY <1>1, <1>2
  <2>2. Current(t)' = medium'[t]
    BY <2>1 DEF Current
  <2> QED
    BY <1>2, <2>1, <2>2
<1>3. CASE t # s
  <2>1. cache'[t] = cache[t] /\ medium'[t] = medium[t]
    BY <1>1, <1>3
  <2> QED
    BY <2>1 DEF Current
<1> QED
  BY <1>2, <1>3

LEMMA DataInitially == Init => DataInv
BY DEF Init, DriveInit, DataInv, Single, Begun, ReadSoFar, WrittenSoFar

LEMMA BeginData ==
  ASSUME TypeInv, DataInv, NEW op \in {"read", "write"}, NEW from \in Sector, NEW len \in 1 .. NumSectors,
         Begin(op, from, len)
  PROVE  DataInv'
<1>1. /\ call' = [op |-> op, from |-> from, len |-> len, id |-> calls + 1]
      /\ lba' = from /\ cnt' = len /\ got' = <<>> /\ pc' \in {"issue", "bsy"} /\ UNCHANGED <<inbuf, cache>>
  BY DEF Begin, drive
<1>2. from \in Int /\ len \in Int
  BY DriveConstants DEF Sector
<1>3. len - len = 0 /\ from >= from
  BY <1>2
<1>4. Single' /\ Begun'
  BY <1>1, <1>3 DEF DataInv, Single, Begun
<1>5. ReadSoFar'
  <2>1. Len(got') = 0
    BY <1>1
  <2>2. call'.len - cnt' = 0 /\ \A k \in 1 .. 0 : FALSE
    BY <1>1, <1>3
  <2> QED
    BY <1>1, <2>1, <2>2 DEF ReadSoFar, Read
<1>6. WrittenSoFar'
  <2>1. \A s \in Sector : ~(from <= s /\ s < from)
    BY <1>2 DEF Sector
  <2> QED
    BY <1>1, <2>1 DEF WrittenSoFar, Written
<1> QED
  BY <1>4, <1>5, <1>6 DEF DataInv

LEMMA IssueReadData ==
  ASSUME TypeInv, DataInv, IssueRead
  PROVE  DataInv'
<1>1. /\ pc = "issue" /\ pc' = "rdrq" /\ UNCHANGED <<inbuf, medium, cache, call, lba, cnt, got, clean>>
      /\ todo' = Burst(CountRegister(cnt))
  BY DEF IssueRead, Issue, hist
<1>2. Passed' = 0
  BY <1>1, BurstInt DEF Passed, TypeInv, StepInv, Numbers
<1>3. call.len \in Int /\ cnt \in Int
  BY DEF TypeInv, DriverTypes
<1>4. call.len - cnt + 0 = call.len - cnt
  BY <1>3
<1>5. \A s : Current(s)' = Current(s)
  BY <1>1 DEF Current
<1>6. clean => Read(call.len - cnt)'
  BY <1>1, <1>5 DEF DataInv, ReadSoFar, Read
<1> QED
  BY <1>1, <1>2, <1>4, <1>6 DEF DataInv, Single, Begun, ReadSoFar, WrittenSoFar

LEMMA IssueWriteData ==
  ASSUME TypeInv, DataInv, IssueWrite
  PROVE  DataInv'
<1>1. /\ pc = "bsy" /\ pc' = "wdrq" /\ UNCHANGED <<inbuf, medium, cache, call, lba, cnt, got, clean>>
  BY DEF IssueWrite, hist
<1>2. ASSUME clean
      PROVE  cmd'.at = lba /\ inbuf' = {} /\ Written(lba) /\ lba >= call.from
  BY <1>1, <1>2 DEF IssueWrite, Issue, Command, TypeInv, StepInv, Device, Between, DataInv, Begun, WrittenSoFar
<1>3. \A s \in Sector : Current(s)' = Current(s)
  BY <1>1, SameDisk
<1>4. WrittenSoFar'
  BY <1>1, <1>2, <1>3 DEF WrittenSoFar, Written
<1> QED
  BY <1>1, <1>4 DEF DataInv, Single, Begun, ReadSoFar

LEMMA StoppedData ==
  ASSUME DataInv, NEW rc, Stopped(rc)
  PROVE  DataInv'
BY DEF Stopped, Return, drive, DataInv, Single, Begun, ReadSoFar, WrittenSoFar

\* The next sector of a read is the one the driver asked for.
LEMMA TakenSector ==
  ASSUME TypeInv, DataInv, ReadSector, clean
  PROVE  LET m == call.len - cnt + Passed
         IN  Len(got') = m + 1 /\ \A k \in 1 .. m + 1 : got'[k] = Current(call.from + k - 1)'
<1> DEFINE m == call.len - cnt + Passed
<1>1. pc = "rdrq" /\ status = "drq" /\ UNCHANGED <<medium, cache, call>>
  BY DEF ReadSector
<1>2. inbuf = {} /\ Held = 0 /\ cmd.op = "read"
  BY <1>1 DEF TypeInv, StepInv, Device, InStep, Called, Held
<1>3. /\ todo \in Int /\ lba \in Int /\ cnt \in Int /\ call.len \in Int /\ call.from \in Int
      /\ cmd.at \in Int /\ Burst(CountRegister(cnt)) \in Int
      /\ lba + cnt = call.from + call.len
  BY <1>1, BurstInt DEF TypeInv, StepInv, Numbers, DriverTypes, Sector
<1>4. cmd.at = lba + Burst(CountRegister(cnt)) - todo
  BY <1>1, <1>2, <1>3 DEF TypeInv, StepInv, InStep
<1>5. m \in Int /\ call.from + (m + 1) - 1 = cmd.at
  BY <1>3, <1>4 DEF Passed
<1>6. got' = Append(got, Current(cmd.at)) /\ got \in Seq(Data \cup {Garbage})
  BY <1>2 DEF ReadSector, TakeSector, TypeInv, DriverTypes
<1>7. Len(got) = m /\ \A k \in 1 .. m : got[k] = Current(call.from + k - 1)
  BY <1>1 DEF DataInv, ReadSoFar, Read
<1> HIDE DEF m
<1>8. /\ Len(got') = m + 1
      /\ \A k \in 1 .. m + 1 : got'[k] = IF k <= m THEN got[k] ELSE Current(cmd.at)
  BY <1>5, <1>6, <1>7
<1>9. \A k \in 1 .. m + 1 : got'[k] = Current(call.from + k - 1)
  BY <1>5, <1>7, <1>8
<1>10. \A k \in 1 .. m + 1 : Current(call.from + k - 1)' = Current(call.from + k - 1)
  BY <1>1 DEF Current
<1> QED
  BY <1>8, <1>9, <1>10 DEF m

LEMMA ReadSectorData ==
  ASSUME TypeInv, DataInv, ReadSector
  PROVE  DataInv'
<1> DEFINE n == Burst(CountRegister(cnt))
<1>1. /\ pc = "rdrq" /\ todo' = todo - 1 /\ UNCHANGED <<inbuf, medium, cache, call, clean>>
  BY DEF ReadSector, hist
<1>2. /\ n \in Int /\ cnt \in Int /\ todo \in Int /\ lba \in Int /\ call.len \in Int /\ n >= 1
      /\ call.from \in Int
  BY <1>1, BurstBounds DEF TypeInv, DriverTypes, Sector
<1>3. CASE todo = 1
  <2>1. cnt' = cnt - n /\ lba' = lba + n /\ pc' \in {"idle", "issue"}
    BY <1>3 DEF ReadSector, NextRound, Return
  <2>2. Begun'
    BY <1>1, <1>2, <2>1 DEF DataInv, Begun
  <2>3. call.len - (cnt - n) = call.len - cnt + Passed + 1
    BY <1>2, <1>3 DEF Passed
  <2>4. ReadSoFar'
    BY <1>1, <2>1, <2>3, TakenSector DEF ReadSoFar, Read
  <2> QED
    BY <1>1, <2>1, <2>2, <2>4 DEF DataInv, Single, WrittenSoFar
<1>4. CASE todo # 1
  <2>1. UNCHANGED <<cnt, lba, pc>>
    BY <1>4 DEF ReadSector
  <2>2. Passed' = n - (todo - 1) /\ Passed = n - todo
    BY <1>1, <2>1 DEF Passed
  <2>3. call.len - cnt + Passed' = call.len - cnt + Passed + 1
    <3> HIDE DEF n
    <3> QED
      BY <1>2, <2>2
  <2>4. ReadSoFar'
    BY <1>1, <2>1, <2>3, TakenSector DEF ReadSoFar, Read
  <2> QED
    BY <1>1, <2>1, <2>4 DEF DataInv, Single, Begun, WrittenSoFar
<1> QED
  BY <1>3, <1>4

LEMMA WriteSectorData ==
  ASSUME TypeInv, DataInv, WriteSector
  PROVE  DataInv'
<1> DEFINE n == Burst(CountRegister(cnt))
           w == Content(call.id, call.from + Sent)
<1>1. /\ pc = "wdrq" /\ status = "drq" /\ inbuf = {} /\ Held = 0
      /\ UNCHANGED <<cmd, medium, cache, call, lba, cnt, clean>>
      /\ pc' = IF todo = 1 THEN "last" ELSE "wdrq"
  BY DEF WriteSector, hist, TypeInv, StepInv, Device, Held
<1>2. /\ n \in Int /\ cnt \in Int /\ todo \in Int /\ lba \in Int /\ call.len \in Int
      /\ call.from \in Int /\ cmd.at \in Int /\ todo \in 1 .. n
      /\ lba + cnt = call.from + call.len
      /\ n \in 1 .. cnt /\ cnt \in 0 .. NumSectors /\ lba \in 0 .. NumSectors
      /\ call.from + call.len <= NumSectors
  BY <1>1, BurstBounds DEF TypeInv, StepInv, Numbers, DriverTypes, Sector
<1>3. call.from + Sent = lba + n - todo
  <2> HIDE DEF n
  <2>1. Sent = call.len - cnt + n - todo
    BY DEF Sent, n
  <2> QED
    BY <1>2, <2>1
<1>4. lba >= call.from
  BY <1>1 DEF DataInv, Begun
<1>5. w \in Data
  <2> HIDE DEF n
  <2>1. call.from + Sent \in Sector
    BY <1>2, <1>3, <1>4, DriveConstants DEF TypeInv, DriverTypes, Sector
  <2> QED
    BY <2>1, ContentType DEF TypeInv, DriverTypes
<1>6. inbuf' \in {{}, {w}}
  BY <1>1 DEF WriteSector, GiveSector
<1>7. Single'
  BY <1>1, <1>5, <1>6 DEF DataInv, Single
<1>8. ASSUME clean
      PROVE  /\ cmd.at = lba + n - todo
             /\ inbuf' = {Content(call.id, cmd.at)} /\ status' = "busy"
             /\ Written(cmd.at) /\ cmd.at >= call.from
  <2>1. cmd.op = "write" /\ cmd.at + 0 = lba + n - todo
    BY <1>1, <1>8 DEF TypeInv, StepInv, InStep, Called
  <2>2. cmd.at = lba + n - todo
    BY <1>2, <2>1
  <2>3. inbuf' = {w} /\ status' = "busy"
    BY <1>1, <2>1 DEF WriteSector, GiveSector
  <2>4. Written(cmd.at) /\ cmd.at >= call.from
    BY <1>1, <1>8 DEF DataInv, WrittenSoFar
  <2> QED
    BY <1>3, <2>2, <2>3, <2>4
<1>9. \A s \in Sector : Current(s)' = Current(s)
  BY <1>1, SameDisk
<1>10. ASSUME clean, todo = 1
       PROVE  cmd.at + 1 = lba + n
  <2> HIDE DEF n
  <2> QED
    BY <1>2, <1>8, <1>10
<1>11. WrittenSoFar'
  BY <1>1, <1>8, <1>9, <1>10 DEF WrittenSoFar, Written, RoundEnd
<1> QED
  BY <1>1, <1>4, <1>7, <1>11 DEF DataInv, Begun, ReadSoFar

LEMMA IssueFlushData ==
  ASSUME TypeInv, DataInv, IssueFlush
  PROVE  DataInv'
<1>1. /\ pc = "last" /\ pc' = "flush"
      /\ UNCHANGED <<inbuf, medium, cache, call, lba, cnt, clean>>
  BY DEF IssueFlush, hist
<1>2. ASSUME clean
      PROVE  status = "rest" /\ status' = "busy" /\ Written(RoundEnd)
  BY <1>1, <1>2 DEF IssueFlush, NotBusy, Command, TypeInv, StepInv, Between, DataInv, WrittenSoFar
<1>3. \A s \in Sector : Current(s)' = Current(s)
  BY <1>1, SameDisk
<1>4. WrittenSoFar'
  BY <1>1, <1>2, <1>3 DEF WrittenSoFar, Written, RoundEnd
<1> QED
  BY <1>1, <1>4 DEF DataInv, Single, Begun, ReadSoFar

LEMMA FlushedData ==
  ASSUME TypeInv, DataInv, Flushed
  PROVE  DataInv'
<1>1. /\ pc = "flush" /\ pc' \in {"idle", "bsy"} /\ lba' = RoundEnd
      /\ UNCHANGED <<inbuf, medium, cache, call, clean>>
  BY DEF Flushed, NextRound, Return, RoundEnd, drive, hist
<1>2. RoundEnd >= call.from
  <2>1. lba >= call.from /\ call.from \in Int /\ lba \in Int
    BY <1>1 DEF DataInv, Begun, TypeInv, DriverTypes, Sector
  <2>2. Burst(CountRegister(cnt)) \in Int /\ Burst(CountRegister(cnt)) >= 1
    BY <1>1, BurstBounds DEF TypeInv, DriverTypes
  <2> QED
    BY <2>1, <2>2 DEF RoundEnd
<1>3. \A s \in Sector : Current(s)' = Current(s)
  BY <1>1, SameDisk
<1>4. clean => Written(RoundEnd)
  BY <1>1 DEF DataInv, WrittenSoFar
<1>5. WrittenSoFar'
  BY <1>1, <1>3, <1>4 DEF WrittenSoFar, Written
<1> QED
  BY <1>1, <1>2, <1>5 DEF DataInv, Single, Begun, ReadSoFar

\* A sector stored is the next one of the call, or nothing was promised.
LEMMA StoreData ==
  ASSUME TypeInv, DataInv, StoreSector, UNCHANGED driver, clean' <=> clean
  PROVE  DataInv'
<1>1. /\ status = "busy" /\ cmd.op = "write" /\ inbuf # {} /\ inbuf' = {} /\ Held = 1
      /\ cache' = [cache EXCEPT ![cmd.at] = inbuf] /\ medium' = medium
      /\ status' = IF cmd.left = 1 THEN "rest" ELSE "busy"
      /\ UNCHANGED <<pc, call, lba, cnt, todo, got>>
  BY DEF StoreSector, Held, driver
<1>2. /\ cmd.left \in Int /\ cmd.at \in Int /\ cache \in [Sector -> SUBSET Data]
      /\ todo \in Int /\ lba \in Int /\ call.from \in Int
      /\ (clean /\ pc \in {"rdrq", "wdrq"} => todo >= 1)
  BY <1>1 DEF TypeInv, DriveTypes, DriverTypes, StepInv, Numbers, Sector, Called
<1>3. cmd'.at = cmd.at + 1 /\ cmd'.left = cmd.left - 1
  BY AdvanceType DEF TypeInv, StepInv, StoreSector
<1>4. PICK v \in Data : inbuf = {v}
  BY <1>1 DEF DataInv, Single
<1>5. \A s \in Sector : cache'[s] = IF s = cmd.at THEN {v} ELSE cache[s]
  BY <1>1, <1>2, <1>4
<1>6. \A s \in Sector : s # cmd.at => Current(s)' = Current(s)
  BY <1>1, <1>5 DEF Current
<1>7. \A s \in Sector : s = cmd.at => Current(s)' = v
  <2>1. SUFFICES ASSUME NEW s \in Sector, s = cmd.at PROVE Current(s)' = v
    OBVIOUS
  <2>2. cache'[s] = {v}
    BY <1>5, <2>1
  <2>3. Current(s)' = (CHOOSE x \in {v} : TRUE)
    BY <2>2 DEF Current
  <2> QED
    BY <2>3
<1>8. Single'
  BY <1>1, <1>5 DEF DataInv, Single
<1>9. clean => pc \in {"idle", "wdrq", "last"}
  BY <1>1 DEF TypeInv, StepInv, Called, Between, InStep, DriverTypes
<1>10. ASSUME clean, pc \in {"wdrq", "last"}
       PROVE  /\ \A s \in Sector : call.from <= s /\ s < cmd.at + 1 => Current(s)' = Content(call.id, s)
              /\ cmd.at + 1 >= call.from
              /\ pc = "wdrq" => cmd.left # 1
              /\ pc = "last" => cmd.left = 1 /\ cmd.at + 1 = RoundEnd
  <2>1. Written(cmd.at) /\ cmd.at >= call.from /\ v = Content(call.id, cmd.at)
    BY <1>1, <1>4, <1>10 DEF DataInv, WrittenSoFar
  <2>2. \A s \in Sector : call.from <= s /\ s < cmd.at + 1 => Current(s)' = Content(call.id, s)
    <3>1. SUFFICES ASSUME NEW s \in Sector, call.from <= s, s < cmd.at + 1
                   PROVE  Current(s)' = Content(call.id, s)
      OBVIOUS
    <3>2. s \in Int /\ (s = cmd.at \/ s < cmd.at)
      BY <1>2, <3>1 DEF Sector
    <3> QED
      BY <1>2, <1>6, <1>7, <2>1, <3>1, <3>2 DEF Written
  <2>3. pc = "wdrq" => cmd.left # 1
    <3>1. pc = "wdrq" => cmd.left - 1 = todo
      BY <1>1, <1>10 DEF TypeInv, StepInv, InStep
    <3> QED
      BY <1>2, <1>10, <3>1
  <2>4. pc = "last" => cmd.left = 1 /\ cmd.at + 1 = RoundEnd
    BY <1>1, <1>10 DEF TypeInv, StepInv, Between, DataInv, WrittenSoFar
  <2> QED
    BY <1>1, <1>2, <2>1, <2>2, <2>3, <2>4 DEF Written
<1>11. WrittenSoFar'
  BY <1>1, <1>3, <1>9, <1>10 DEF WrittenSoFar, Written, RoundEnd
<1>12. Begun' /\ ReadSoFar'
  BY <1>1, <1>9 DEF DataInv, Begun, ReadSoFar
<1> QED
  BY <1>8, <1>11, <1>12 DEF DataInv

LEMMA WorkData ==
  ASSUME TypeInv, DataInv, Work
  PROVE  DataInv'
<1>1. UNCHANGED driver /\ (clean' => clean)
      /\ UNCHANGED <<pc, call, lba, cnt, todo, got>>
  BY DEF Work, driver
<1>2. CASE OfferSector \/ AskSector
  <2>1. UNCHANGED <<inbuf, cmd, medium, cache>> /\ status = "busy" /\ status' = "drq"
    BY <1>2 DEF OfferSector, AskSector
  <2>2. \A s : Current(s)' = Current(s)
    BY <2>1 DEF Current
  <2> QED
    BY <1>1, <2>1, <2>2 DEF DataInv, Single, Begun, ReadSoFar, Read, Passed, WrittenSoFar, Written, RoundEnd
<1>3. CASE StoreSector
  <2>1. clean' <=> clean
    BY <1>3 DEF Work, StoreSector
  <2> QED
    BY <1>1, <1>3, <2>1, StoreData
<1>4. CASE FlushDone
  <2>1. /\ UNCHANGED <<inbuf, cmd, medium, cache>> /\ status = "busy" /\ status' = "rest"
        /\ cmd.op = "flush" /\ \A s \in Sector : cache[s] = {}
    BY <1>4 DEF FlushDone
  <2>2. \A s : Current(s)' = Current(s)
    BY <2>1 DEF Current
  <2>3. clean => pc \notin {"last", "wdrq"}
    BY <2>1 DEF TypeInv, StepInv, Called, Between, InStep
  <2> QED
    BY <1>1, <2>1, <2>2, <2>3 DEF DataInv, Single, Begun, ReadSoFar, Read, Passed, WrittenSoFar, Written, RoundEnd
<1>5. CASE Fault
  <2>1. /\ UNCHANGED <<cmd, medium, cache>> /\ status = "busy" /\ status' = "rest" /\ inbuf' = {} /\ err'
    BY <1>5 DEF Fault
  <2>2. \A s : Current(s)' = Current(s)
    BY <2>1 DEF Current
  <2>3. clean' => pc \notin {"last", "flush"}
    BY <2>1 DEF Work, TypeInv, StepInv, Device
  <2> QED
    BY <1>1, <2>1, <2>2, <2>3 DEF DataInv, Single, Begun, ReadSoFar, Read, Passed, WrittenSoFar, Written, RoundEnd
<1>6. ASSUME NEW s \in Sector, Destage(s)
      PROVE  DataInv'
  <2>1. UNCHANGED <<inbuf, cmd, status>> /\ cache[s] # {}
        /\ \A t \in Sector : cache'[t] = IF t = s THEN {} ELSE cache[t]
    BY <1>6 DEF Destage, TypeInv, DriveTypes
  <2>2. \A t \in Sector : Current(t)' = Current(t)
    BY <1>6, DestagedDisk
  <2>3. Single' /\ Begun'
    BY <1>1, <2>1 DEF DataInv, Single, Begun
  <2>4. WrittenSoFar'
    BY <1>1, <2>1, <2>2 DEF DataInv, WrittenSoFar, Written, RoundEnd
  <2>5. ASSUME NEW n \in Int, Read(n), call.from + n <= NumSectors
        PROVE  \A k \in 1 .. n : got'[k] = Current(call.from + k - 1)'
    <3>1. TAKE k \in 1 .. n
    <3>2. call.from + k - 1 \in Sector
      BY <2>5, DriveConstants DEF TypeInv, DriverTypes, Sector
    <3> QED
      BY <1>1, <2>2, <2>5, <3>2 DEF Read
  <2>6. ReadSoFar'
    <3>1. ASSUME pc = "issue", clean
          PROVE  Read(call.len - cnt)'
      <4>1. call.len - cnt \in Int /\ call.from + (call.len - cnt) <= NumSectors
        BY <3>1, DriveConstants DEF TypeInv, DriverTypes, Sector
      <4> QED
        BY <1>1, <2>5, <3>1, <4>1 DEF DataInv, ReadSoFar, Read
    <3>2. ASSUME pc = "rdrq", clean
          PROVE  Read(call.len - cnt + Passed)'
      <4> DEFINE n == Burst(CountRegister(cnt))
      <4>1. n \in 1 .. cnt /\ todo \in 1 .. n /\ n \in Int
        BY <3>2, BurstBounds DEF TypeInv, DriverTypes
      <4>2. call.len - cnt + Passed \in Int /\ call.from + (call.len - cnt + Passed) <= NumSectors
        <5>1. Passed = n - todo
          BY DEF Passed
        <5> HIDE DEF n
        <5> QED
          BY <3>2, <4>1, <5>1, DriveConstants DEF TypeInv, DriverTypes, Sector
      <4> QED
        BY <1>1, <2>5, <3>2, <4>2 DEF DataInv, ReadSoFar, Read, Passed
    <3> QED
      BY <1>1, <3>1, <3>2 DEF ReadSoFar
  <2> QED
    BY <2>3, <2>4, <2>6 DEF DataInv
<1> QED
  BY <1>2, <1>3, <1>4, <1>5, <1>6 DEF Work, DriveStep

LEMMA PowerLossData ==
  ASSUME PowerLoss
  PROVE  DataInv'
BY DEF PowerLoss, DriveOff, DataInv, Single, Begun, ReadSoFar, WrittenSoFar

LEMMA StutterData ==
  ASSUME DataInv, UNCHANGED vars
  PROVE  DataInv'
<1>1. \A s : Current(s)' = Current(s)
  BY DEF vars, drive, Current
<1> QED
  BY <1>1 DEF vars, drive, driver, hist, DataInv, Single, Begun, ReadSoFar, Read, Passed,
     WrittenSoFar, Written, RoundEnd

LEMMA NextData == TypeInv /\ DataInv /\ [Next]_vars => DataInv'
<1> SUFFICES ASSUME TypeInv, DataInv, [Next]_vars PROVE DataInv'
  OBVIOUS
<1>1. CASE \E op \in {"read", "write"}, from \in Sector, len \in 1 .. NumSectors :
             from + len <= NumSectors /\ Begin(op, from, len)
  BY <1>1, BeginData
<1>2. CASE DriverStep
  <2>1. CASE ReadError \/ ReadTimeout \/ WriteError \/ WriteTimeout \/ BusyTimeout
    BY <2>1, StoppedData DEF ReadError, ReadTimeout, WriteError, WriteTimeout, BusyTimeout
  <2> QED
    BY <1>2, <2>1, IssueReadData, ReadSectorData, IssueWriteData, WriteSectorData,
       IssueFlushData, FlushedData DEF DriverStep
<1> QED
  BY <1>1, <1>2, WorkData, PowerLossData, StutterData DEF Next

-----------------------------------------------------------------------------
(* The refinement. *)

LEMMA StartsAsDisk == Init => Contract!Init
<1> SUFFICES ASSUME Init PROVE Contract!Init
  OBVIOUS
<1>1. TypeInv /\ \A s \in Sector : Current(s) \in Data
  BY TypesInitially, CurrentType DEF TypeInv
<1>2. \A s \in Sector : {medium[s]} \cup cache[s] = {Current(s)}
  BY DEF Init, DriveInit, Current
<1> QED
  BY <1>1, <1>2 DEF Init, DriveInit, NoReply, Job, Loose, Contract!Init, Contract!NoReply

\* A step of the driver or the drive that changes no content, no answer and
\* nothing of what the caller may count on.
LEMMA Unseen ==
  ASSUME \A s \in Sector : Current(s)' = Current(s), UNCHANGED <<medium, cache, call, reply>>,
         (pc = "idle") <=> (pc' = "idle"), Loose' = Loose
  PROVE  UNCHANGED Contract!vars
BY DEF Contract!vars, Job

LEMMA BeginRefines ==
  ASSUME TypeInv, NEW op \in {"read", "write"}, NEW from \in Sector, NEW len \in 1 .. NumSectors,
         Begin(op, from, len)
  PROVE  Contract!Next
<1>1. \A s \in Sector : Current(s)' = Current(s)
  BY SameDisk DEF Begin, drive
<1>2. Job = {} /\ Job' = {call'} /\ Loose' = Loose /\ reply' = NoReply /\ UNCHANGED <<medium, cache>>
  BY DEF Begin, drive, Job, Loose
<1>3. Contract!Begin(call')
  BY <1>1, <1>2 DEF Contract!Begin, Contract!NoReply, NoReply
<1> QED
  BY <1>2, <1>3 DEF Contract!Next

LEMMA StoppedRefines ==
  ASSUME TypeInv, pc # "idle", NEW rc \in {-1, -2, -3, -4}, Stopped(rc)
  PROVE  Contract!Next
<1>1. \A s \in Sector : Current(s)' = Current(s)
  BY SameDisk DEF Stopped, drive
<1>2. /\ Job = {call} /\ Job' = {} /\ Loose' \in BOOLEAN /\ UNCHANGED <<medium, cache>>
      /\ reply'.rc = rc /\ rc < 0
  BY DEF Stopped, Return, drive, Job, Loose
<1>3. Contract!Fail(call)
  BY <1>1, <1>2 DEF Contract!Fail
<1> QED
  BY <1>2, <1>3 DEF Contract!Next

LEMMA ReadSectorRefines ==
  ASSUME TypeInv, DataInv, ReadSector
  PROVE  [Contract!Next]_(Contract!vars)
<1>1. /\ pc = "rdrq" /\ call.op = "read" /\ UNCHANGED <<medium, cache, call, clean>>
      /\ \A s \in Sector : Current(s)' = Current(s)
  BY SameDisk DEF ReadSector, hist, TypeInv, StepInv, Called
<1>2. CASE pc' # "idle"
  <2>1. UNCHANGED reply
    BY <1>2 DEF ReadSector, NextRound, Return
  <2> QED
    BY <1>1, <1>2, <2>1, Unseen DEF Loose
<1>3. CASE pc' = "idle"
  <2> DEFINE n == Burst(CountRegister(cnt))
  <2>1. todo = 1 /\ cnt = n /\ reply' = [rc |-> 0, data |-> got']
    BY <1>1, <1>3 DEF ReadSector, NextRound, Return
  <2>2. ASSUME clean
        PROVE  got' = [k \in 1 .. call.len |-> Current(call.from + k - 1)]
    <3>1. call.len \in Int /\ cnt \in Int
      BY <1>1 DEF TypeInv, DriverTypes
    <3>2. call.len - cnt + Passed + 1 = call.len
      BY <2>1, <3>1 DEF Passed
    <3>3. Len(got') = call.len /\ \A k \in 1 .. call.len : got'[k] = Current(call.from + k - 1)'
      BY <2>2, <3>2, TakenSector
    <3>4. got' \in Seq(Data \cup {Garbage})
      BY ReadSectorTypes DEF TypeInv, DriverTypes
    <3>5. \A k \in 1 .. call.len : Current(call.from + k - 1)' = Current(call.from + k - 1)
      BY <1>1 DEF Current
    <3> QED
      BY <3>1, <3>3, <3>4, <3>5
  <2>3. ASSUME clean
        PROVE  status' = "rest"
    BY <1>1, <2>1, <2>3, ReadSectorKeeps
       DEF ReadSector, TakeSector, TypeInv, StepInv, Device, InStep, Held, Numbers
  <2>4. Job = {call} /\ Job' = {} /\ Loose = ~clean /\ Loose' \in {Loose, FALSE}
    BY <1>1, <1>3, <2>3 DEF Job, Loose
  <2>5. clean => \A k \in 1 .. call.len : call.from + k - 1 \in Sector
    BY <1>1, DriveConstants DEF TypeInv, DriverTypes, Sector
  <2>6. clean => reply'.data = [k \in 1 .. call.len |-> [s \in Sector |-> Current(s)][call.from + k - 1]]
    BY <2>1, <2>2, <2>5
  <2>7. Contract!Succeed(call)
    BY <1>1, <2>1, <2>4, <2>6 DEF Contract!Succeed
  <2> QED
    BY <2>4, <2>7 DEF Contract!Next
<1> QED
  BY <1>2, <1>3

LEMMA FlushedRefines ==
  ASSUME TypeInv, DataInv, Flushed
  PROVE  [Contract!Next]_(Contract!vars)
<1>1. /\ pc = "flush" /\ call.op = "write" /\ UNCHANGED <<medium, cache, call, clean, status>>
      /\ \A s \in Sector : Current(s)' = Current(s)
  BY SameDisk DEF Flushed, drive, hist, TypeInv, StepInv, Called
<1>2. CASE pc' # "idle"
  <2>1. UNCHANGED reply
    BY <1>2 DEF Flushed, NextRound, Return
  <2> QED
    BY <1>1, <1>2, <2>1, Unseen DEF Loose
<1>3. CASE pc' = "idle"
  <2>1. cnt = Burst(CountRegister(cnt)) /\ reply' = [rc |-> 0, data |-> <<>>]
    BY <1>1, <1>3 DEF Flushed, NextRound, Return
  <2>2. RoundEnd = call.from + call.len
    BY <1>1, <2>1 DEF RoundEnd, TypeInv, DriverTypes
  <2>3. clean => status = "rest"
    BY <1>1 DEF Flushed, NotBusy, TypeInv, StepInv, Between
  <2>4. clean => /\ \A s \in Sector : cache[s] = {}
                 /\ \A s \in Contract!Range(call) : Current(s) = Content(call.id, s)
    BY <1>1, <2>2, <2>3 DEF DataInv, WrittenSoFar, Written, Contract!Range
  <2>5. \A s \in Sector : cache[s] = {} => {medium[s]} \cup cache[s] = {Current(s)}
    BY DEF Current
  <2>6. Job = {call} /\ Job' = {} /\ Loose = ~clean /\ Loose' \in {Loose, FALSE}
    BY <1>1, <1>3, <2>3 DEF Job, Loose
  <2>7. Contract!Succeed(call)
    BY <1>1, <2>1, <2>4, <2>5, <2>6 DEF Contract!Succeed, Contract!Range
  <2> QED
    BY <2>6, <2>7 DEF Contract!Next
<1> QED
  BY <1>2, <1>3

LEMMA DriverStepRefines ==
  ASSUME TypeInv, DataInv, DriverStep
  PROVE  [Contract!Next]_(Contract!vars)
<1>1. CASE IssueRead \/ IssueWrite \/ WriteSector \/ IssueFlush
  <2>1. UNCHANGED <<medium, cache, call, reply, clean>> /\ pc # "idle" /\ pc' # "idle"
    BY <1>1 DEF IssueRead, IssueWrite, WriteSector, IssueFlush, hist
  <2> QED
    BY <2>1, SameDisk, Unseen DEF Loose
<1>2. CASE ReadError \/ ReadTimeout \/ WriteError \/ WriteTimeout \/ BusyTimeout
  <2>1. pc # "idle" /\ (Stopped(-1) \/ Stopped(-2) \/ Stopped(-3) \/ Stopped(-4))
    BY <1>2 DEF ReadError, ReadTimeout, WriteError, WriteTimeout, BusyTimeout
  <2> QED
    BY <2>1, StoppedRefines
<1> QED
  BY <1>1, <1>2, ReadSectorRefines, FlushedRefines DEF DriverStep

LEMMA WorkRefines ==
  ASSUME TypeInv, DataInv, Work
  PROVE  [Contract!Next]_(Contract!vars)
<1>1. UNCHANGED <<pc, call, reply>> /\ Job' = Job
      /\ clean' = (clean /\ ~(err' /\ ~err /\ pc \in {"last", "flush"}))
  BY DEF Work, driver, Job
<1>2. CASE OfferSector \/ AskSector
  <2>1. UNCHANGED <<medium, cache, err>> /\ status = "busy" /\ status' = "drq"
    BY <1>2 DEF OfferSector, AskSector
  <2> QED
    BY <1>1, <2>1, SameDisk, Unseen DEF Loose
<1>3. CASE FlushDone \/ Fault
  <2>1. /\ UNCHANGED <<medium, cache>> /\ status = "busy" /\ status' = "rest"
        /\ \A s \in Sector : Current(s)' = Current(s)
    BY <1>3, SameDisk DEF FlushDone, Fault
  <2>2. CASE pc = "idle"
    <3>1. Job = {} /\ Loose' = FALSE
      BY <1>1, <2>1, <2>2 DEF Job, Loose
    <3> QED
      BY <1>1, <2>1, <3>1 DEF Contract!Next, Contract!Rest
  <2>3. CASE pc # "idle" /\ (clean' <=> clean)
    BY <1>1, <2>1, <2>3, Unseen DEF Loose
  <2>4. CASE pc # "idle" /\ ~(clean' <=> clean)
    <3>1. Job # {} /\ Loose' = TRUE
      BY <1>1, <2>4 DEF Job, Loose
    <3> QED
      BY <1>1, <2>1, <3>1 DEF Contract!Next, Contract!Hide
  <2> QED
    BY <2>2, <2>3, <2>4
<1>4. CASE StoreSector
  <2> DEFINE a == cmd.at
  <2>1. /\ status = "busy" /\ cmd.op = "write" /\ inbuf # {} /\ Held = 1
        /\ cache' = [cache EXCEPT ![a] = inbuf] /\ medium' = medium /\ err' = err
    BY <1>4 DEF StoreSector, Held
  <2>2. PICK v \in Data : inbuf = {v}
    BY <2>1 DEF DataInv, Single
  <2>3. a \in Sector
    BY <2>1, DriveConstants DEF TypeInv, DriveTypes, Sector
  <2>4. \A s \in Sector : cache'[s] = IF s = a THEN {v} ELSE cache[s]
    BY <2>1, <2>2 DEF TypeInv, DriveTypes
  <2> HIDE DEF a
  <2>5. \A s \in Sector : Current(s)' = IF s = a THEN v ELSE Current(s)
    <3> TAKE s \in Sector
    <3>1. CASE s = a
      <4>1. Current(s)' = (CHOOSE x \in {v} : TRUE)
        BY <2>4, <3>1 DEF Current
      <4> QED
        BY <3>1, <4>1
    <3>2. CASE s # a
      BY <2>1, <2>4, <3>2 DEF Current
    <3> QED
      BY <3>1, <3>2
  <2>6. [s \in Sector |-> Current(s)]' = [[s \in Sector |-> Current(s)] EXCEPT ![a] = v]
    BY <2>3, <2>5
  <2>7. [s \in Sector |-> {medium[s]} \cup cache[s]]'
          = [[s \in Sector |-> {medium[s]} \cup cache[s]] EXCEPT ![a] = {medium[a]} \cup {v}]
    BY <2>1, <2>3, <2>4
  <2>8. Loose' \in {Loose, FALSE}
    <3>1. clean' <=> clean
      BY <1>1, <2>1
    <3>2. CASE pc = "idle"
      <4>1. Loose = TRUE /\ Loose' \in BOOLEAN
        BY <1>1, <2>1, <3>2 DEF Loose
      <4> QED
        BY <4>1
    <3>3. CASE pc # "idle"
      BY <1>1, <3>1, <3>3 DEF Loose
    <3> QED
      BY <3>2, <3>3
  <2>9. Loose \/ Contract!Writing(a, v)
    <3>1. SUFFICES ASSUME pc # "idle", clean
                   PROVE  Contract!Writing(a, v)
      BY <2>1 DEF Loose
    <3>2. pc \in {"wdrq", "last"} /\ call.op = "write"
      BY <2>1, <3>1 DEF TypeInv, StepInv, Called, Between, InStep, DriverTypes
    <3>3. a >= call.from /\ v = Content(call.id, a)
      BY <2>1, <2>2, <3>1, <3>2 DEF DataInv, WrittenSoFar, a
    <3>4. a < call.from + call.len
      <4> DEFINE n == Burst(CountRegister(cnt))
      <4>1. /\ n \in Int /\ n \in 1 .. cnt /\ lba \in Int /\ cnt \in Int /\ a \in Int
            /\ todo \in Int /\ (pc = "wdrq" => todo >= 1)
            /\ call.from \in Int /\ call.len \in Int /\ lba + cnt = call.from + call.len
        BY <3>1, <2>3, BurstBounds DEF TypeInv, DriverTypes, StepInv, Called, Sector
      <4>2. pc = "wdrq" => a + 1 = lba + n - todo
        BY <2>1, <3>1 DEF TypeInv, StepInv, InStep, a
      <4>3. pc = "last" => a + 1 = lba + n
        BY <2>1, <3>1 DEF DataInv, WrittenSoFar, RoundEnd, a
      <4> HIDE DEF n
      <4> QED
        BY <3>2, <4>1, <4>2, <4>3
    <3>5. a \in Contract!Range(call) /\ Job = {call}
      BY <2>3, <3>1, <3>3, <3>4 DEF Contract!Range, Job
    <3> QED
      BY <3>2, <3>3, <3>5 DEF Contract!Writing
  <2>10. Contract!Put(a, v)
    <3>1. {medium[a]} \in SUBSET [s \in Sector |-> {medium[s]} \cup cache[s]][a]
      BY <2>3
    <3> QED
      BY <1>1, <2>6, <2>7, <2>8, <2>9, <3>1 DEF Contract!Put
  <2> QED
    BY <2>3, <2>10 DEF Contract!Next
<1>5. ASSUME NEW s \in Sector, Destage(s)
      PROVE  Contract!Next
  <2>1. \A t \in Sector : Current(t)' = Current(t)
    BY <1>5, DestagedDisk
  <2>2. /\ \A t \in Sector : cache'[t] = IF t = s THEN {} ELSE cache[t]
        /\ \A t \in Sector : medium'[t] = IF t = s THEN Current(s) ELSE medium[t]
        /\ UNCHANGED <<status, err>>
    BY <1>5 DEF Destage, TypeInv, DriveTypes
  <2>3. Loose' = Loose
    BY <1>1, <2>2 DEF Loose
  <2>4. Contract!Settle(s)
    BY <1>1, <2>1, <2>2, <2>3 DEF Contract!Settle
  <2> QED
    BY <2>4 DEF Contract!Next
<1> QED
  BY <1>2, <1>3, <1>4, <1>5 DEF Work, DriveStep

LEMMA PowerLossRefines ==
  ASSUME TypeInv, PowerLoss
  PROVE  Contract!Next
<1>1. \A s \in Sector : Current(s)' = medium[s]
  BY DEF PowerLoss, DriveOff, Current
<1>2. /\ medium' = medium /\ cache' = [s \in Sector |-> {}] /\ Job' = {} /\ Loose' = FALSE
      /\ UNCHANGED reply
  BY DEF PowerLoss, DriveOff, Job, Loose
<1>3. \A s \in Sector : medium[s] \in Data
  BY DEF TypeInv, DriveTypes
<1>4. Contract!PowerLoss
  BY <1>1, <1>2, <1>3 DEF Contract!PowerLoss
<1> QED
  BY <1>4 DEF Contract!Next

LEMMA NextRefines == TypeInv /\ DataInv /\ [Next]_vars => [Contract!Next]_(Contract!vars)
<1> SUFFICES ASSUME TypeInv, DataInv, [Next]_vars PROVE [Contract!Next]_(Contract!vars)
  OBVIOUS
<1>1. CASE \E op \in {"read", "write"}, from \in Sector, len \in 1 .. NumSectors :
             from + len <= NumSectors /\ Begin(op, from, len)
  BY <1>1, BeginRefines
<1>2. CASE UNCHANGED vars
  <2>1. UNCHANGED <<medium, cache, call, reply, pc, status, clean>>
    BY <1>2 DEF vars, drive, driver, hist
  <2> QED
    BY <2>1, SameDisk, Unseen DEF Loose
<1> QED
  BY <1>1, <1>2, DriverStepRefines, WorkRefines, PowerLossRefines DEF Next

\* ata_read returns the sectors asked for and what ata_write returned 0 for
\* survives a power loss (ata_pio.c:38-90), on a disk and with commands of any
\* size, with errors, time-outs and late answers, and whatever order the
\* drive's cache is destaged in.
THEOREM DriverImplementsDisk == Spec => ImplementsBlockDisk
<1>1. Spec => [](TypeInv /\ DataInv)
  BY TypesInitially, NextTypes, DataInitially, NextData, PTL DEF Spec
<1> QED
  BY <1>1, StartsAsDisk, NextRefines, PTL DEF Spec, ImplementsBlockDisk, Contract!Spec
=============================================================================
