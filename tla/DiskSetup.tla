----------------------------- MODULE DiskSetup -----------------------------
(***************************************************************************)
(* disk_setup (src/FS/disk.c) with mbr_find_fat32 (src/FS/part.c) and      *)
(* fat32_mount (src/FS/fat32.c): which of two drives is used, which of its *)
(* partitions, and the geometry its boot sector gives.  The two drives     *)
(* share one set of registers: a read that timed out leaves its drive busy *)
(* (late), and the next read may get that drive's answer instead of its    *)
(* own, see AtaPio.                                                        *)
(***************************************************************************)
EXTENDS Integers, Sequences

CONSTANTS
  Word,              \* 2^32: the code's arithmetic on sector counts wraps here
  MinClusters,       \* 65525: fewer clusters make a FAT16 volume
  SectorBytes,       \* 512, the size of the code's buffers
  Fat32Types,        \* partition types 0x0B and 0x0C
  Tables,            \* partition tables: sequences of [type, start, size]
  BootSectors        \* first sectors of partitions, as fat32_mount decodes them

\* fat32_mount accepts a sector size that is a power of two.
PowerOfTwo(n) == n \in {2 ^ k : k \in 0 .. 15}

\* The fields of a boot sector are unsigned, and none is wider than 32 bits.
Field32 == 0 .. Word - 1

ASSUME SetupConstants ==
  /\ Word \in Nat \ {0} /\ MinClusters \in Nat
  /\ SectorBytes \in Nat \ {0} /\ PowerOfTwo(SectorBytes)
  /\ \A t \in Tables : DOMAIN t = 1 .. 4
  /\ BootSectors \subseteq [byps : Field32, spc : Field32, rsvd : Field32, nfats : Field32,
                            fatsz16 : Field32, fatsz32 : Field32, totsec16 : Field32,
                            totsec32 : Field32, root : Field32]

Absent   == [kind |-> "absent", table |-> <<>>]
Unsigned == [kind |-> "unsigned", table |-> <<>>]
Signed(t) == [kind |-> "signed", table |-> t]
Sector0  == {Absent, Unsigned} \cup {Signed(t) : t \in Tables}

NoDrive  == "none"
Slave    == "slave"
Master   == "master"
Drives   == {Slave, Master}
NoPart   == [type |-> 0, start |-> 0, size |-> 0]
NoVolume == [b |-> [byps |-> 0], clusters |-> 0]

VARIABLES
  stage,             \* slave, master: probing; mbr, mount: reading; done
  sector0,           \* drive -> its first sector
  devsel,            \* drive the next command is for
  late,              \* drive that still works on a command given up, or NoDrive
  part,              \* partition found
  vol,               \* geometry, once mounted
  mounted,           \* g_mounted
  \* history variables
  tableFrom, bootFrom,   \* the drives whose data was taken for table and boot sector
  boot,              \* {} or {b}: the boot sector read
  faults             \* reads that failed on a drive that is there

setup == <<stage, sector0, devsel, late, part, vol, mounted, tableFrom, bootFrom, boot, faults>>

SetupInit ==
  /\ sector0 \in [Drives -> Sector0]
  /\ stage = "slave" /\ devsel = Slave /\ late = NoDrive
  /\ part = NoPart /\ vol = NoVolume /\ mounted = FALSE
  /\ tableFrom = NoDrive /\ bootFrom = NoDrive /\ boot = {} /\ faults = FALSE

-----------------------------------------------------------------------------
(* Reading a sector. *)

\* The drive that answers a read: the late one if there is one.
Answering == IF late = NoDrive THEN devsel ELSE late

Answered ==
  /\ sector0[Answering] # Absent
  /\ late' = NoDrive
  /\ UNCHANGED faults

\* An error, or a time-out on a drive that will answer later.
Failed ==
  /\ \/ late' = NoDrive
     \/ late' = Answering /\ sector0[Answering] # Absent
  /\ faults' = (faults \/ sector0[devsel] # Absent)

\* ata_probe_current
Found(d) == sector0[d].kind = "signed"

ProbeSlave ==
  /\ stage = "slave"
  /\ \/ Answered /\ Found(Answering) /\ stage' = "mbr" /\ UNCHANGED devsel
     \/ Answered /\ ~Found(Answering) /\ stage' = "master" /\ devsel' = Master
     \/ Failed /\ stage' = "master" /\ devsel' = Master
  /\ UNCHANGED <<sector0, part, vol, mounted, tableFrom, bootFrom, boot>>

\* Mutant: a read of the master that failed is not noticed.
ProbeMaster_Unchecked ==
  /\ stage = "master"
  /\ Answered \/ Failed
  /\ stage' = "mbr"
  /\ UNCHANGED <<sector0, devsel, part, vol, mounted, tableFrom, bootFrom, boot>>

ProbeMaster ==
  /\ stage = "master"
  /\ \/ Answered /\ Found(Answering) /\ stage' = "mbr"
     \/ Answered /\ ~Found(Answering) /\ stage' = "done"
     \/ Failed /\ stage' = "done"
  /\ UNCHANGED <<sector0, devsel, part, vol, mounted, tableFrom, bootFrom, boot>>

\* Mutant: the loop ends one entry early.
FatEntries_Three(t) == {i \in 1 .. 3 : t[i].type \in Fat32Types}

FatEntries(t) == {i \in DOMAIN t : t[i].type \in Fat32Types}

\* mbr_find_fat32
ReadTable ==
  /\ stage = "mbr"
  /\ \/ /\ Answered
        /\ tableFrom' = Answering
        /\ LET t == sector0[Answering].table
           IN  IF Found(Answering) /\ FatEntries(t) # {}
               THEN /\ part' = t[CHOOSE i \in FatEntries(t) : \A j \in FatEntries(t) : i <= j]
                    /\ stage' = "mount"
               ELSE stage' = "done" /\ UNCHANGED part
     \/ Failed /\ stage' = "done" /\ UNCHANGED <<part, tableFrom>>
  /\ UNCHANGED <<sector0, devsel, vol, mounted, bootFrom, boot>>

-----------------------------------------------------------------------------
(* fat32_mount.  A boot sector is a record of the fields it decodes. *)

FatSize(b) == IF b.fatsz32 # 0 THEN b.fatsz32 ELSE b.fatsz16
Total(b)   == IF b.totsec32 # 0 THEN b.totsec32 ELSE b.totsec16

\* Sectors before the first cluster: a 64-bit sum in the geometry, data_lba,
\* a 32-bit one in the test.
Overhead(b) == b.rsvd + b.nfats * FatSize(b)

\* Mutant: the second FAT is forgotten.
DataLba_OneFat(b) == b.rsvd + FatSize(b)

DataLba(b)  == Overhead(b)
Clusters(b) == ((Total(b) - Overhead(b)) % Word) \div b.spc

Accepted(b) ==
  /\ PowerOfTwo(b.byps) /\ b.spc # 0
  /\ FatSize(b) # 0 /\ Total(b) # 0
  /\ Clusters(b) >= MinClusters

Mount ==
  /\ stage = "mount" /\ stage' = "done"
  /\ \/ Answered /\ bootFrom' = Answering
        /\ \E b \in BootSectors :
             /\ boot' = {b}
             /\ IF Accepted(b)
                THEN /\ vol' = [b |-> [b EXCEPT !.root = IF @ < 2 THEN 2 ELSE @],
                                clusters |-> Clusters(b)]
                     /\ mounted' = TRUE
                ELSE UNCHANGED <<vol, mounted>>
     \/ Failed /\ UNCHANGED <<vol, mounted, bootFrom, boot>>
  /\ UNCHANGED <<sector0, devsel, part, tableFrom>>

SetupStep == ProbeSlave \/ ProbeMaster \/ ReadTable \/ Mount

-----------------------------------------------------------------------------
(* Addresses: where the mounted volume's clusters and FAT entries are read,  *)
(* relative to the partition.                                                *)

clus_lba(b, cl) == DataLba(b) + ((cl - 2) % Word) * b.spc
FatEntryLba(b, cl) == b.rsvd + (cl * 4) \div b.byps

-----------------------------------------------------------------------------
(* Properties. *)

\* Table and boot sector of a mounted volume come from the drive that later
\* commands select, although the answer that vouched for the master may have
\* been a late one of the slave's; and that drive's first sector is signed.
RightDrive ==
  stage = "done" /\ mounted => /\ tableFrom = devsel /\ bootFrom = devsel
             /\ sector0[devsel].kind = "signed"

\* What a formatter writes: sectors of the size the code's buffers have, FATs
\* that leave room for data and have an entry for every cluster.
Formatted(b) ==
  /\ b.byps = SectorBytes /\ b.spc > 0 /\ b.rsvd > 0 /\ b.nfats \in {1, 2}
  /\ Overhead(b) < Total(b)
  /\ (FatSize(b) * SectorBytes) \div 4 >= (Total(b) - Overhead(b)) \div b.spc + 2

\* On a formatted volume every cluster number that its FAT can hold for it is
\* read from sectors behind the FATs and inside the volume, and has its entry in
\* the first FAT; and there are enough of them for a FAT32 volume.
VolumeSound ==
  mounted /\ Formatted(vol.b) =>
    LET b == vol.b
    IN  /\ vol.clusters >= MinClusters
        /\ \A cl \in 2 .. vol.clusters + 1 :
             /\ clus_lba(b, cl) >= Overhead(b)
             /\ clus_lba(b, cl) + b.spc <= Total(b)
             /\ FatEntryLba(b, cl) < b.rsvd + FatSize(b)

\* When no read fails, the slave is used if its first sector is signed, and a
\* formatted volume of FAT32 size is mounted, whichever of the four entries
\* names it and whatever lies in the others.
VolumeFound ==
  stage = "done" /\ ~faults =>
    /\ sector0[Slave].kind = "signed" => devsel = Slave
    /\ \/ mounted
       \/ sector0[devsel].kind # "signed"
       \/ \A i \in 1 .. 4 : sector0[devsel].table[i].type \notin Fat32Types
       \/ \E b \in boot : ~Formatted(b) \/ (Total(b) - Overhead(b)) \div b.spc < MinClusters
=============================================================================
