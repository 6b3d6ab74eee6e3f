------------------------------ MODULE AtaDrive ------------------------------
(***************************************************************************)
(* The drive at the other end of the ports that src/Block/ata_pio.c uses:  *)
(* it takes a command only when it is at rest, works on it with BSY set,   *)
(* and asks for or offers one sector at a time with DRQ set.  Its write    *)
(* cache is copied to the medium in any order and lost with the power.     *)
(* It may stop with ERR, and it may take longer than anybody waits.        *)
(***************************************************************************)
EXTENDS Integers, Sequences

CONSTANTS
  NumSectors,        \* sectors 0 .. NumSectors-1
  MaxBurst,          \* sectors per command: 256 in an 8-bit count
  MaxCalls,          \* bound: calls of the driver
  MaxFaults,         \* bound: commands that end with ERR
  MaxPowerLosses     \* bound

ASSUME DriveConstants ==
  /\ NumSectors \in Nat \ {0} /\ MaxBurst \in Nat \ {0}
  /\ MaxCalls \in Nat /\ MaxFaults \in Nat /\ MaxPowerLosses \in Nat

Sector == 0 .. NumSectors - 1

\* A sector's content names the call that wrote it and the sector it was for.
Content(w, s) == <<w, s>>
Data    == (0 .. MaxCalls) \X Sector
Garbage == <<-1, -1>>              \* what the data port yields when no sector is offered
NoCmd   == [op |-> "none", at |-> 0, left |-> 0]

VARIABLES
  status,    \* rest: neither BSY nor DRQ; busy: BSY; drq: DRQ
  cmd,       \* the command taken: operation, next sector, sectors left
  inbuf,     \* {} or {v}: a sector handed over and not yet in the cache
  err,       \* ERR of the last command
  medium, cache,     \* Sector -> content; Sector -> {} or {v}
  faults, losses

drive == <<status, cmd, inbuf, err, medium, cache, faults, losses>>

DriveInit ==
  /\ status = "rest" /\ cmd = NoCmd /\ inbuf = {} /\ err = FALSE
  /\ medium = [s \in Sector |-> Content(0, s)]
  /\ cache = [s \in Sector |-> {}]
  /\ faults = 0 /\ losses = 0

\* What a read finds in sector s.
Current(s) == IF cache[s] = {} THEN medium[s] ELSE CHOOSE v \in cache[s] : TRUE

\* The command register is written; a drive that is not at rest ignores it.
Command(op, at, left) ==
  IF status = "rest"
  THEN /\ status' = "busy" /\ err' = FALSE
       /\ cmd' = [op |-> op, at |-> at, left |-> left]
  ELSE UNCHANGED <<status, err, cmd>>

\* The next sector of the command in hand.
Advance == cmd' = [cmd EXCEPT !.at = @ + 1, !.left = @ - 1]

OfferSector ==
  /\ status = "busy" /\ cmd.op = "read"
  /\ status' = "drq"
  /\ UNCHANGED <<cmd, inbuf, err, medium, cache, faults, losses>>

AskSector ==
  /\ status = "busy" /\ cmd.op = "write" /\ inbuf = {}
  /\ status' = "drq"
  /\ UNCHANGED <<cmd, inbuf, err, medium, cache, faults, losses>>

StoreSector ==
  /\ status = "busy" /\ cmd.op = "write" /\ inbuf # {}
  /\ cache' = [cache EXCEPT ![cmd.at] = inbuf]
  /\ inbuf' = {}
  /\ Advance
  /\ status' = IF cmd.left = 1 THEN "rest" ELSE "busy"
  /\ UNCHANGED <<err, medium, faults, losses>>

Destage(s) ==
  /\ cache[s] # {}
  /\ medium' = [medium EXCEPT ![s] = Current(s)]
  /\ cache' = [cache EXCEPT ![s] = {}]
  /\ UNCHANGED <<status, cmd, inbuf, err, faults, losses>>

FlushDone ==
  /\ status = "busy" /\ cmd.op = "flush" /\ \A s \in Sector : cache[s] = {}
  /\ status' = "rest"
  /\ UNCHANGED <<cmd, inbuf, err, medium, cache, faults, losses>>

\* The command ends with ERR; the sector in hand is lost.
Fault ==
  /\ status = "busy"
  /\ faults < MaxFaults /\ faults' = faults + 1
  /\ status' = "rest" /\ err' = TRUE /\ inbuf' = {}
  /\ UNCHANGED <<cmd, medium, cache, losses>>

DriveOff ==
  /\ losses < MaxPowerLosses /\ losses' = losses + 1
  /\ status' = "rest" /\ cmd' = NoCmd /\ inbuf' = {} /\ err' = FALSE
  /\ cache' = [s \in Sector |-> {}]
  /\ UNCHANGED <<medium, faults>>

DriveStep ==
  \/ OfferSector \/ AskSector \/ StoreSector \/ FlushDone \/ Fault
  \/ \E s \in Sector : Destage(s)
=============================================================================
