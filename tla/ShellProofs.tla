---------------------------- MODULE ShellProofs -----------------------------
(***************************************************************************)
(* For all tables, boot sectors and contents of the two drives, and all    *)
(* answers that are late: a mounted volume is the one of the drive that    *)
(* later commands select.  A late answer can vouch for the master, but it  *)
(* frees the port, so the two reads that count are answered by the drive   *)
(* they are for, and the first of them looks at the signature again.       *)
(* A formatted volume is sound and is found, for every geometry.           *)
(* For all trees and all text that is typed: no buffer overflows, files    *)
(* lie in directories, the working directory names one, cd, ls and cat act *)
(* on what the path that was typed means, and a word and run start what is *)
(* meant and hand over the rest of the line, and what a program saved is   *)
(* what its path finds.                                                    *)
(***************************************************************************)
EXTENDS Shell, SequenceTheorems, NaturalsInduction, WellFoundedInduction, TLAPS

\* The port is free once a read was answered.
PortFree == stage \in {"mbr", "mount"} => late = NoDrive

\* The table read is the selected drive's, and its sector is signed.
TableRight == stage = "mount" => tableFrom = devsel /\ Found(devsel)

\* Nothing is mounted before the last step of disk_setup.
MountedLast == stage \in {"slave", "master", "mbr", "mount"} => ~mounted

SetupInv == PortFree /\ TableRight /\ MountedLast /\ RightDrive

-----------------------------------------------------------------------------

LEMMA SetupInitially == Init => SetupInv
BY DEF Init, SetupInit, SetupInv, PortFree, TableRight, MountedLast, RightDrive

\* The steps of disk_setup: each read that is answered frees the port.
LEMMA SetupStepKeeps ==
  ASSUME SetupInv, SetupStep
  PROVE  SetupInv'
<1>1. CASE ProbeSlave
  BY <1>1 DEF SetupInv, PortFree, TableRight, MountedLast, RightDrive, ProbeSlave, Answered, Failed
<1>2. CASE ProbeMaster
  BY <1>2 DEF SetupInv, PortFree, TableRight, MountedLast, RightDrive, ProbeMaster, Answered, Failed
<1>3. CASE ReadTable
  <2>1. stage = "mbr" /\ late = NoDrive /\ ~mounted
    BY <1>3 DEF ReadTable, SetupInv, PortFree, MountedLast
  <2>2. Answering = devsel
    BY <2>1 DEF Answering
  <2>3. UNCHANGED <<sector0, devsel, mounted>>
    BY <1>3 DEF ReadTable
  <2>4. CASE Answered /\ tableFrom' = devsel /\ Found(devsel) /\ stage' = "mount"
    BY <2>1, <2>3, <2>4
    DEF SetupInv, PortFree, TableRight, MountedLast, RightDrive, Answered, Found
  <2>5. CASE stage' = "done"
    BY <2>1, <2>3, <2>5 DEF SetupInv, PortFree, TableRight, MountedLast, RightDrive
  <2> QED
    BY <1>3, <2>2, <2>4, <2>5 DEF ReadTable
<1>4. CASE Mount
  <2>1. stage = "mount" /\ late = NoDrive /\ ~mounted /\ tableFrom = devsel /\ Found(devsel)
    BY <1>4 DEF Mount, SetupInv, PortFree, TableRight, MountedLast
  <2>2. Answering = devsel
    BY <2>1 DEF Answering
  <2>3. UNCHANGED <<sector0, devsel, tableFrom>> /\ stage' = "done"
    BY <1>4 DEF Mount
  <2>4. ~mounted' \/ bootFrom' = devsel
    BY <1>4, <2>1, <2>2 DEF Mount
  <2> QED
    BY <2>1, <2>3, <2>4 DEF SetupInv, PortFree, TableRight, MountedLast, RightDrive, Found
<1> QED
  BY <1>1, <1>2, <1>3, <1>4 DEF SetupStep

\* Whatever the shell does, it does after disk_setup, and never enters it again.
LEMMA ShellStepKeeps ==
  ASSUME stage' \in {"prompt", "answered", "app", "halted"}
  PROVE  SetupInv'
BY DEF SetupInv, PortFree, TableRight, MountedLast, RightDrive

LEMMA AnswerLeavesSetup ==
  ASSUME NEW cmd, NEW arg, NEW rest, NEW reply, NEW passed, Answer(cmd, arg, rest, reply, passed)
  PROVE  stage' \in {"answered", "app", "halted"}
BY DEF Answer

LEMMA CommandKeeps ==
  ASSUME Command
  PROVE  SetupInv'
<1> PICK arg \in Args : Cd(arg) \/ Ls(arg) \/ Cat(arg) \/ (\E rest \in Rests : Run(arg, rest))
                        \/ Program(arg, <<>>)
  BY DEF Command
<1>1. CASE Cd(arg)
  BY <1>1, AnswerLeavesSetup, ShellStepKeeps DEF Cd
<1>2. CASE Ls(arg)
  BY <1>2, AnswerLeavesSetup, ShellStepKeeps DEF Ls
<1>3. CASE Cat(arg)
  BY <1>3, AnswerLeavesSetup, ShellStepKeeps DEF Cat
<1>4. CASE \E rest \in Rests : Run(arg, rest)
  BY <1>4, AnswerLeavesSetup, ShellStepKeeps DEF Run
<1>5. CASE Program(arg, <<>>)
  BY <1>5, AnswerLeavesSetup, ShellStepKeeps DEF Program
<1> QED
  BY <1>1, <1>2, <1>3, <1>4, <1>5

LEMMA UnchangedKeeps ==
  ASSUME SetupInv, UNCHANGED setup
  PROVE  SetupInv'
BY DEF SetupInv, PortFree, TableRight, MountedLast, RightDrive, Found, setup

LEMMA NextKeeps ==
  ASSUME SetupInv, [Next]_vars
  PROVE  SetupInv'
<1>1. CASE Boot
  BY <1>1, SetupStepKeeps DEF Boot
<1>2. CASE Prompt
  BY <1>2, ShellStepKeeps DEF Prompt
<1>3. CASE Command
  BY <1>3, CommandKeeps
<1>4. CASE \E path \in SavePaths : Save(path)
  BY <1>4, UnchangedKeeps DEF Save
<1>5. CASE Exit
  BY <1>5, ShellStepKeeps DEF Exit
<1>6. CASE UNCHANGED vars
  BY <1>6, UnchangedKeeps DEF vars
<1> QED
  BY <1>1, <1>2, <1>3, <1>4, <1>5, <1>6 DEF Next

\* A mounted volume's table and boot sector come from the selected drive,
\* whatever the other drive holds and however late it answers (disk.c:15-26).
THEOREM RightDriveMounted == Spec => []RightDrive
<1>1. Init => SetupInv
  BY SetupInitially
<1>2. SetupInv /\ [Next]_vars => SetupInv'
  BY NextKeeps
<1>3. SetupInv => RightDrive
  BY DEF SetupInv
<1> QED
  BY <1>1, <1>2, <1>3, PTL DEF Spec

-----------------------------------------------------------------------------
(* The volume: its geometry is that of a boot sector which was accepted.     *)

RealRoot(b) == [b EXCEPT !.root = IF @ < 2 THEN 2 ELSE @]

\* What is mounted, but for the volume that the prompt lets go out of scope.
VolumeKnown ==
  \/ vol = NoVolume
  \/ \E b \in BootSectors : Accepted(b) /\ vol = [b |-> RealRoot(b), clusters |-> Clusters(b)]

LEMMA TimesMonotone ==
  ASSUME NEW a \in Nat, NEW b \in Nat, NEW c \in Nat, a <= b
  PROVE  a * c <= b * c
OBVIOUS

LEMMA TimesNext ==
  ASSUME NEW a \in Nat, NEW c \in Nat
  PROVE  (a + 1) * c = a * c + c
OBVIOUS

LEMMA Quotient ==
  ASSUME NEW a \in Nat, NEW d \in Nat \ {0}
  PROVE  /\ a \div d \in Nat /\ (a \div d) * d <= a
         /\ \A k \in Nat : a < k * d => a \div d < k
<1>1. a \div d \in Nat /\ a % d \in 0 .. d - 1 /\ a = d * (a \div d) + (a % d)
  OBVIOUS
<1>2. PICK q \in Nat : q = a \div d
  BY <1>1
<1>3. q * d <= a
  BY <1>1, <1>2
<1>4. ASSUME NEW k \in Nat, a < k * d PROVE q < k
  <2>1. ~(k <= q)
    BY <1>3, <1>4, TimesMonotone
  <2> QED
    BY <2>1
<1> QED
  BY <1>1, <1>2, <1>3, <1>4

\* The arithmetic of clus_lba and of the FAT's size, on numbers.
LEMMA Geometry ==
  ASSUME NEW over \in Nat, NEW total \in Nat, over < total, total < Word,
         NEW spc \in Nat \ {0}, NEW fatsz \in Nat,
         (fatsz * SectorBytes) \div 4 >= (total - over) \div spc + 2,
         NEW cl \in 2 .. (((total - over) % Word) \div spc) + 1
  PROVE  /\ ((total - over) % Word) \div spc = (total - over) \div spc
         /\ over + ((cl - 2) % Word) * spc >= over
         /\ over + ((cl - 2) % Word) * spc + spc <= total
         /\ (cl * 4) \div SectorBytes < fatsz
<1>1. Word \in Nat \ {0} /\ SectorBytes \in Nat \ {0}
  BY SetupConstants
<1>2. total - over \in Nat /\ (total - over) % Word = total - over
  BY <1>1
<1>3. PICK n \in Nat : n = (total - over) \div spc
  BY <1>2, Quotient
<1>4. n * spc <= total - over
  BY <1>2, <1>3, Quotient
<1>5. cl \in 2 .. n + 1
  BY <1>2, <1>3
<1>6. n <= total - over
  <2>1. n * 1 <= n * spc
    OBVIOUS
  <2> QED
    BY <1>2, <1>4, <2>1
<1>7. cl - 2 \in Nat /\ cl - 1 \in Nat /\ cl - 2 < Word /\ cl - 1 <= n
  BY <1>1, <1>2, <1>5, <1>6
<1>8. (cl - 2) % Word = cl - 2
  BY <1>1, <1>7
<1>9. (cl - 1) * spc <= n * spc
  BY <1>7, TimesMonotone
<1>10. (cl - 1) * spc = (cl - 2) * spc + spc /\ (cl - 2) * spc \in Nat
  BY <1>7, TimesNext
<1>11. (cl * 4) \div SectorBytes < fatsz
  <2>1. fatsz * SectorBytes \in Nat
    BY <1>1
  <2>2. PICK m \in Nat : m = (fatsz * SectorBytes) \div 4
    BY <2>1, Quotient
  <2>3. m * 4 <= fatsz * SectorBytes
    BY <2>1, <2>2, Quotient
  <2>4. m >= n + 2
    BY <1>3, <2>2
  <2>5. cl * 4 \in Nat /\ cl * 4 < fatsz * SectorBytes
    BY <1>5, <2>1, <2>3, <2>4
  <2> QED
    BY <1>1, <2>5, Quotient
<1> QED
  BY <1>2, <1>3, <1>4, <1>8, <1>9, <1>10, <1>11

LEMMA MountedSound ==
  ASSUME VolumeKnown
  PROVE  VolumeSound
<1> SUFFICES ASSUME mounted, Formatted(vol.b) PROVE VolumeSound
  BY DEF VolumeSound
<1>1. vol # NoVolume
  <2>1. NoVolume.b.byps = 0 /\ SectorBytes # 0
    BY SetupConstants DEF NoVolume
  <2> QED
    BY <2>1 DEF Formatted
<1>2. PICK b \in BootSectors : Accepted(b) /\ vol = [b |-> RealRoot(b), clusters |-> Clusters(b)]
  BY <1>1 DEF VolumeKnown
<1>3. b \in [byps : Field32, spc : Field32, rsvd : Field32, nfats : Field32, fatsz16 : Field32,
              fatsz32 : Field32, totsec16 : Field32, totsec32 : Field32, root : Field32]
  BY SetupConstants
<1> DEFINE r == RealRoot(b)
<1>4. /\ r.byps = b.byps /\ r.spc = b.spc /\ r.rsvd = b.rsvd /\ r.nfats = b.nfats
      /\ r.fatsz16 = b.fatsz16 /\ r.fatsz32 = b.fatsz32
      /\ r.totsec16 = b.totsec16 /\ r.totsec32 = b.totsec32
  BY <1>3 DEF RealRoot
<1>5. vol.b = r /\ vol.clusters = Clusters(b)
  BY <1>2
<1> HIDE DEF r
<1>6. Total(r) = Total(b) /\ FatSize(r) = FatSize(b)
  BY <1>4 DEF Total, FatSize
<1>7. Overhead(r) = Overhead(b)
  BY <1>4, <1>6 DEF Overhead
<1>8. Clusters(r) = Clusters(b)
  BY <1>4, <1>6, <1>7 DEF Clusters
<1>9. /\ FatSize(r) \in Nat /\ Total(r) \in Nat /\ Total(r) < Word /\ r.rsvd \in Nat
      /\ r.nfats \in {1, 2} /\ r.spc \in Nat \ {0} /\ r.byps = SectorBytes
  <2>1. Formatted(r)
    BY <1>5
  <2>2. b.spc \in Nat /\ b.rsvd \in Nat /\ b.nfats \in Nat /\ b.fatsz16 \in Nat /\ b.fatsz32 \in Nat
        /\ b.totsec16 \in Field32 /\ b.totsec32 \in Field32 /\ Word \in Nat
    BY <1>3, SetupConstants DEF Field32
  <2>3. Total(r) \in Field32 /\ FatSize(r) \in Nat
    BY <2>2, <1>4 DEF Total, FatSize
  <2> QED
    BY <2>1, <2>2, <2>3, <1>4 DEF Formatted, Field32
<1>10. Overhead(r) \in Nat
  BY <1>9 DEF Overhead
<1>11. Overhead(r) < Total(r)
         /\ (FatSize(r) * SectorBytes) \div 4 >= (Total(r) - Overhead(r)) \div r.spc + 2
  BY <1>5 DEF Formatted
<1>12. Clusters(r) >= MinClusters
  BY <1>2, <1>8 DEF Accepted
<1>13. ASSUME NEW cl \in 2 .. Clusters(r) + 1
       PROVE  /\ clus_lba(r, cl) >= Overhead(r)
              /\ clus_lba(r, cl) + r.spc <= Total(r)
              /\ FatEntryLba(r, cl) < r.rsvd + FatSize(r)
  <2>1. cl \in 2 .. (((Total(r) - Overhead(r)) % Word) \div r.spc) + 1
    BY DEF Clusters
  <2>2. /\ Overhead(r) + ((cl - 2) % Word) * r.spc >= Overhead(r)
        /\ Overhead(r) + ((cl - 2) % Word) * r.spc + r.spc <= Total(r)
        /\ (cl * 4) \div SectorBytes < FatSize(r)
    BY <1>9, <1>10, <1>11, <2>1, Geometry
  <2>3. (cl * 4) \div SectorBytes \in Nat
    <3>1. cl * 4 \in Nat
      OBVIOUS
    <3> QED
      BY <3>1, SetupConstants, Quotient
  <2> QED
    BY <1>9, <2>2, <2>3 DEF clus_lba, DataLba, FatEntryLba
<1> QED
  BY <1>5, <1>8, <1>12, <1>13 DEF VolumeSound

\* The values of disk_setup's variables that steps choose among.
SetupTypes ==
  /\ stage \in {"slave", "master", "mbr", "mount", "done", "prompt", "answered", "app", "halted"}
  /\ sector0 \in [Drives -> Sector0] /\ devsel \in Drives /\ late \in Drives \cup {NoDrive}
  /\ mounted \in BOOLEAN /\ faults \in BOOLEAN

\* As long as no read failed, no answer is late, and the drive that is read is
\* the first whose sector is signed.
Unfailed ==
  ~faults =>
    /\ stage \in {"slave", "master", "mbr", "mount"} => late = NoDrive
    /\ stage = "slave" => devsel = Slave
    /\ stage = "master" => devsel = Master /\ ~Found(Slave)
    /\ stage \in {"mbr", "mount"} => Found(devsel) /\ (Found(Slave) => devsel = Slave)

DiskInv == SetupTypes /\ VolumeKnown /\ Unfailed /\ VolumeFound

LEMMA SignedTable ==
  ASSUME NEW d \in Drives, sector0 \in [Drives -> Sector0], Found(d)
  PROVE  sector0[d].table \in Tables /\ DOMAIN sector0[d].table = 1 .. 4 /\ sector0[d] # Absent
<1>1. sector0[d] \in Sector0 /\ sector0[d].kind = "signed"
  BY DEF Found
<1>2. PICK t \in Tables : sector0[d] = Signed(t)
  BY <1>1 DEF Sector0, Absent, Unsigned
<1> QED
  BY <1>1, <1>2, SetupConstants DEF Signed, Absent

LEMMA AnsweringDrive ==
  ASSUME SetupTypes
  PROVE  Answering \in Drives
BY DEF SetupTypes, Answering, Drives, NoDrive

LEMMA FailedFacts ==
  ASSUME SetupTypes, Failed
  PROVE  /\ late' \in Drives \cup {NoDrive} /\ faults' \in BOOLEAN
         /\ ~faults' => ~faults /\ sector0[devsel] = Absent
         /\ ~faults' /\ late = NoDrive => late' = NoDrive
<1>1. Answering \in Drives
  BY AnsweringDrive
<1>2. faults' = (faults \/ sector0[devsel] # Absent) /\ faults \in BOOLEAN
  BY DEF Failed, SetupTypes
<1>3. ~faults' => ~faults /\ sector0[devsel] = Absent
  BY <1>2
<1>4. late = NoDrive => Answering = devsel
  BY DEF Answering
<1> QED
  BY <1>1, <1>2, <1>3, <1>4 DEF Failed

LEMMA AnsweredFacts ==
  ASSUME SetupTypes, Answered
  PROVE  late' = NoDrive /\ faults' = faults /\ Answering \in Drives /\ sector0[Answering] # Absent
BY AnsweringDrive DEF Answered

LEMMA AbsentKind == Absent.kind # "signed"
BY DEF Absent

LEMMA ProbeSlaveDisk ==
  ASSUME DiskInv, ProbeSlave
  PROVE  DiskInv'
<1>1. /\ SetupTypes /\ stage = "slave"
      /\ UNCHANGED <<sector0, part, vol, mounted, tableFrom, bootFrom, boot>>
  BY DEF DiskInv, ProbeSlave
<1>2. stage' \in {"mbr", "master"} /\ devsel' \in Drives
  BY <1>1 DEF ProbeSlave, SetupTypes, Drives
<1>3. late' \in Drives \cup {NoDrive} /\ faults' \in BOOLEAN
  BY <1>1, AnsweredFacts, FailedFacts DEF ProbeSlave, SetupTypes
<1>4. SetupTypes'
  BY <1>1, <1>2, <1>3 DEF SetupTypes
<1>5. VolumeKnown' /\ VolumeFound'
  BY <1>1, <1>2 DEF DiskInv, VolumeKnown, VolumeFound
<1>6. ASSUME ~faults'
      PROVE  /\ late' = NoDrive
             /\ stage' = "master" => devsel' = Master /\ ~Found(Slave)
             /\ stage' = "mbr" => devsel' = Slave /\ Found(Slave)
  <2>1. ~faults
    BY <1>1, <1>6, AnsweredFacts, FailedFacts DEF ProbeSlave
  <2>2. late = NoDrive /\ devsel = Slave /\ Answering = Slave
    BY <1>1, <2>1 DEF DiskInv, Unfailed, Answering
  <2>3. CASE Answered /\ Found(Answering) /\ stage' = "mbr" /\ UNCHANGED devsel
    BY <1>1, <2>2, <2>3, AnsweredFacts
  <2>4. CASE Answered /\ ~Found(Answering) /\ stage' = "master" /\ devsel' = Master
    BY <1>1, <2>2, <2>4, AnsweredFacts
  <2>5. CASE Failed /\ stage' = "master" /\ devsel' = Master
    BY <1>1, <1>6, <2>2, <2>5, FailedFacts DEF Found, Absent
  <2> QED
    BY <2>3, <2>4, <2>5 DEF ProbeSlave
<1>7. Unfailed'
  BY <1>1, <1>2, <1>6 DEF Unfailed, Found
<1> QED
  BY <1>4, <1>5, <1>7 DEF DiskInv

LEMMA ProbeMasterDisk ==
  ASSUME DiskInv, ProbeMaster
  PROVE  DiskInv'
<1>1. /\ SetupTypes /\ stage = "master"
      /\ UNCHANGED <<sector0, devsel, part, vol, mounted, tableFrom, bootFrom, boot>>
  BY DEF DiskInv, ProbeMaster
<1>2. stage' \in {"mbr", "done"}
  BY <1>1 DEF ProbeMaster
<1>3. late' \in Drives \cup {NoDrive} /\ faults' \in BOOLEAN
  BY <1>1, AnsweredFacts, FailedFacts DEF ProbeMaster, SetupTypes
<1>4. SetupTypes'
  BY <1>1, <1>2, <1>3 DEF SetupTypes
<1>5. VolumeKnown'
  BY <1>1 DEF DiskInv, VolumeKnown
<1>6. ASSUME ~faults'
      PROVE  /\ late' = NoDrive /\ devsel = Master /\ ~Found(Slave)
             /\ stage' = "mbr" => Found(Master)
             /\ stage' = "done" => ~Found(Master)
  <2>1. ~faults
    BY <1>1, <1>6, AnsweredFacts, FailedFacts DEF ProbeMaster
  <2>2. late = NoDrive /\ devsel = Master /\ Answering = Master /\ ~Found(Slave)
    BY <1>1, <2>1 DEF DiskInv, Unfailed, Answering
  <2>3. CASE Answered /\ Found(Answering) /\ stage' = "mbr"
    BY <2>2, <2>3, AnsweredFacts, <1>1
  <2>4. CASE Answered /\ ~Found(Answering) /\ stage' = "done"
    BY <2>2, <2>4, AnsweredFacts, <1>1
  <2>5. CASE Failed /\ stage' = "done"
    BY <1>1, <1>6, <2>2, <2>5, FailedFacts DEF Found, Absent
  <2> QED
    BY <2>3, <2>4, <2>5 DEF ProbeMaster
<1>7. Unfailed'
  BY <1>1, <1>2, <1>6 DEF Unfailed, Found
<1>8. VolumeFound'
  BY <1>1, <1>2, <1>6 DEF VolumeFound, Found
<1> QED
  BY <1>4, <1>5, <1>7, <1>8 DEF DiskInv

LEMMA ReadTableDisk ==
  ASSUME DiskInv, ReadTable
  PROVE  DiskInv'
<1>1. /\ SetupTypes /\ stage = "mbr"
      /\ UNCHANGED <<sector0, devsel, vol, mounted, bootFrom, boot>>
  BY DEF DiskInv, ReadTable
<1>2. stage' \in {"mount", "done"}
  BY <1>1 DEF ReadTable
<1>3. late' \in Drives \cup {NoDrive} /\ faults' \in BOOLEAN
  BY <1>1, AnsweredFacts, FailedFacts DEF ReadTable, SetupTypes
<1>4. SetupTypes'
  BY <1>1, <1>2, <1>3 DEF SetupTypes
<1>5. VolumeKnown'
  BY <1>1 DEF DiskInv, VolumeKnown
<1>6. ASSUME ~faults'
      PROVE  /\ late' = NoDrive /\ Found(devsel) /\ (Found(Slave) => devsel = Slave)
             /\ stage' = "done" => \A i \in 1 .. 4 : sector0[devsel].table[i].type \notin Fat32Types
  <2>1. ~faults
    BY <1>1, <1>6, AnsweredFacts, FailedFacts DEF ReadTable
  <2>2. late = NoDrive /\ Answering = devsel /\ Found(devsel) /\ (Found(Slave) => devsel = Slave)
    BY <1>1, <2>1 DEF DiskInv, Unfailed, Answering
  <2>3. devsel \in Drives /\ sector0 \in [Drives -> Sector0]
    BY <1>1 DEF SetupTypes
  <2>4. DOMAIN sector0[devsel].table = 1 .. 4 /\ sector0[devsel] # Absent
    BY <2>2, <2>3, SignedTable
  <2>5. ~Failed
    BY <1>1, <1>6, <2>4, FailedFacts
  <2>6. Answered /\ (stage' = "done" => FatEntries(sector0[devsel].table) = {})
    BY <1>1, <2>2, <2>5 DEF ReadTable
  <2>7. FatEntries(sector0[devsel].table) = {}
          => \A i \in 1 .. 4 : sector0[devsel].table[i].type \notin Fat32Types
    BY <2>4 DEF FatEntries
  <2> QED
    BY <1>1, <2>2, <2>6, <2>7, AnsweredFacts
<1>7. Unfailed'
  BY <1>1, <1>2, <1>6 DEF Unfailed, Found
<1>8. VolumeFound'
  BY <1>1, <1>2, <1>6 DEF VolumeFound, Found
<1> QED
  BY <1>4, <1>5, <1>7, <1>8 DEF DiskInv

\* A formatted volume of FAT32 size passes the checks of fat32_mount.
LEMMA FormattedAccepted ==
  ASSUME NEW b \in BootSectors, Formatted(b), (Total(b) - Overhead(b)) \div b.spc >= MinClusters
  PROVE  Accepted(b)
<1>1. /\ b.spc \in Nat /\ b.rsvd \in Nat /\ b.nfats \in Nat /\ b.fatsz16 \in Nat
         /\ b.fatsz32 \in Nat
      /\ b.totsec16 \in Field32 /\ b.totsec32 \in Field32 /\ Word \in Nat
  <2>1. b \in [byps : Field32, spc : Field32, rsvd : Field32, nfats : Field32, fatsz16 : Field32,
                fatsz32 : Field32, totsec16 : Field32, totsec32 : Field32, root : Field32]
    BY SetupConstants
  <2> QED
    BY <2>1, SetupConstants DEF Field32
<1>2. Total(b) \in Nat /\ Total(b) < Word /\ FatSize(b) \in Nat
  BY <1>1 DEF Total, FatSize, Field32
<1>3. Overhead(b) \in Nat
  BY <1>1, <1>2 DEF Overhead, Formatted
<1>4. /\ b.byps = SectorBytes /\ b.spc > 0 /\ Overhead(b) < Total(b)
      /\ (FatSize(b) * SectorBytes) \div 4 >= (Total(b) - Overhead(b)) \div b.spc + 2
  BY DEF Formatted
<1>5. (Total(b) - Overhead(b)) % Word = Total(b) - Overhead(b)
  BY <1>1, <1>2, <1>3, <1>4
<1>6. (Total(b) - Overhead(b)) \div b.spc \in Nat
  <2>1. Total(b) - Overhead(b) \in Nat /\ b.spc \in Nat \ {0}
    BY <1>1, <1>2, <1>3, <1>4
  <2> QED
    BY <2>1, Quotient
<1>7. FatSize(b) # 0
  <2> SUFFICES ASSUME FatSize(b) = 0 PROVE FALSE
    OBVIOUS
  <2>1. FatSize(b) * SectorBytes = 0
    BY SetupConstants
  <2>2. (FatSize(b) * SectorBytes) \div 4 = 0
    BY <2>1
  <2> QED
    BY <2>2, <1>4, <1>6
<1>8. Total(b) # 0
  BY <1>2, <1>3, <1>4
<1> QED
  BY <1>1, <1>4, <1>5, <1>7, <1>8, SetupConstants DEF Accepted, Clusters

LEMMA MountDisk ==
  ASSUME DiskInv, Mount
  PROVE  DiskInv'
<1>1. /\ SetupTypes /\ stage = "mount" /\ stage' = "done"
      /\ UNCHANGED <<sector0, devsel, part, tableFrom>>
  BY DEF DiskInv, Mount
<1>2. CASE Failed /\ UNCHANGED <<vol, mounted, bootFrom, boot>>
  <2>1. VolumeKnown'
    BY <1>2 DEF DiskInv, VolumeKnown
  <2>2. SetupTypes'
    BY <1>1, <1>2, FailedFacts DEF SetupTypes
  <2>3. faults'
    <3>1. ASSUME ~faults' PROVE FALSE
      <4>1. ~faults /\ sector0[devsel] = Absent
        BY <1>1, <1>2, <3>1, FailedFacts
      <4>2. Found(devsel)
        BY <1>1, <4>1 DEF DiskInv, Unfailed
      <4> QED
        BY <4>1, <4>2 DEF Found, Absent
    <3> QED
      BY <3>1
  <2> QED
    BY <1>1, <2>1, <2>2, <2>3 DEF DiskInv, Unfailed, VolumeFound
<1>3. CASE Answered /\ \E b \in BootSectors :
             /\ boot' = {b}
             /\ IF Accepted(b)
                THEN vol' = [b |-> RealRoot(b), clusters |-> Clusters(b)] /\ mounted' = TRUE
                ELSE UNCHANGED <<vol, mounted>>
  <2>1. late' = NoDrive /\ faults' = faults
    BY <1>1, <1>3, AnsweredFacts
  <2>2. PICK b \in BootSectors :
             /\ boot' = {b}
             /\ IF Accepted(b)
                THEN vol' = [b |-> RealRoot(b), clusters |-> Clusters(b)] /\ mounted' = TRUE
                ELSE UNCHANGED <<vol, mounted>>
    BY <1>3
  <2>3. SetupTypes'
    BY <1>1, <2>1, <2>2 DEF SetupTypes
  <2>4. VolumeKnown'
    BY <2>2 DEF DiskInv, VolumeKnown
  <2>5. Unfailed'
    BY <1>1 DEF Unfailed
  <2>6. mounted' \/ ~Formatted(b) \/ ~((Total(b) - Overhead(b)) \div b.spc >= MinClusters)
    BY <2>2, FormattedAccepted
  <2>7. Formatted(b) => (Total(b) - Overhead(b)) \div b.spc \in Int
    <3>1. b \in [byps : Field32, spc : Field32, rsvd : Field32, nfats : Field32, fatsz16 : Field32,
                  fatsz32 : Field32, totsec16 : Field32, totsec32 : Field32, root : Field32]
      BY SetupConstants
    <3>2. Total(b) \in Int /\ Overhead(b) \in Int /\ b.spc \in Nat
      BY <3>1, SetupConstants DEF Total, Overhead, FatSize, Field32
    <3> QED
      BY <3>2 DEF Formatted
  <2>8. MinClusters \in Nat
    BY SetupConstants
  <2>9. mounted' \/ \E a \in boot' : ~Formatted(a)
          \/ (Total(a) - Overhead(a)) \div a.spc < MinClusters
    BY <2>2, <2>6, <2>7, <2>8
  <2>10. ~faults => (Found(Slave) => devsel = Slave)
    BY <1>1 DEF DiskInv, Unfailed
  <2>11. VolumeFound'
    BY <1>1, <2>1, <2>9, <2>10 DEF VolumeFound, Found
  <2> QED
    BY <2>3, <2>4, <2>5, <2>11 DEF DiskInv
<1> QED
  BY <1>2, <1>3 DEF Mount, RealRoot

LEMMA InitDisk == Init => DiskInv
<1> SUFFICES ASSUME Init PROVE DiskInv
  OBVIOUS
<1>1. SetupTypes /\ VolumeKnown /\ Unfailed
  BY DEF Init, SetupInit, SetupTypes, VolumeKnown, Unfailed, Drives
<1> QED
  BY <1>1 DEF DiskInv, VolumeFound, Init, SetupInit

\* Whatever the shell does leaves the drives, and the volume mounted or out of scope.
LEMMA ShellStepDisk ==
  ASSUME DiskInv, stage' \in {"prompt", "answered", "app", "halted"},
         \/ UNCHANGED <<sector0, devsel, late, vol, mounted, faults>>
         \/ /\ sector0' = [d \in Drives |-> Absent] /\ devsel' = Slave /\ late' = NoDrive
            /\ vol' = NoVolume /\ mounted' = mounted /\ faults' = FALSE
  PROVE  DiskInv'
<1>1. SetupTypes /\ VolumeKnown
  BY DEF DiskInv
<1>2. SetupTypes'
  BY <1>1 DEF SetupTypes, Sector0, Drives
<1>3. VolumeKnown'
  BY <1>1 DEF VolumeKnown
<1>4. Unfailed' /\ VolumeFound'
  BY DEF Unfailed, VolumeFound
<1> QED
  BY <1>2, <1>3, <1>4 DEF DiskInv

LEMMA AnswerDisk ==
  ASSUME DiskInv, NEW cmd, NEW arg, NEW rest, NEW reply, NEW passed, Answer(cmd, arg, rest, reply, passed)
  PROVE  DiskInv'
BY ShellStepDisk DEF Answer

LEMMA CommandDisk ==
  ASSUME DiskInv, Command
  PROVE  DiskInv'
<1> PICK arg \in Args : Cd(arg) \/ Ls(arg) \/ Cat(arg) \/ (\E rest \in Rests : Run(arg, rest))
                        \/ Program(arg, <<>>)
  BY DEF Command
<1>1. CASE Cd(arg)
  BY <1>1, AnswerDisk DEF Cd
<1>2. CASE Ls(arg)
  BY <1>2, AnswerDisk DEF Ls
<1>3. CASE Cat(arg)
  BY <1>3, AnswerDisk DEF Cat
<1>4. CASE \E rest \in Rests : Run(arg, rest)
  BY <1>4, AnswerDisk DEF Run
<1>5. CASE Program(arg, <<>>)
  BY <1>5, AnswerDisk DEF Program
<1> QED
  BY <1>1, <1>2, <1>3, <1>4, <1>5

LEMMA UnchangedDisk ==
  ASSUME DiskInv, UNCHANGED setup
  PROVE  DiskInv'
BY DEF DiskInv, SetupTypes, VolumeKnown, Unfailed, VolumeFound, Found, setup

LEMMA NextDisk ==
  ASSUME DiskInv, [Next]_vars
  PROVE  DiskInv'
<1>1. CASE Boot
  BY <1>1, ProbeSlaveDisk, ProbeMasterDisk, ReadTableDisk, MountDisk DEF Boot, SetupStep
<1>2. CASE Prompt
  <2>1. stage' = "prompt" /\ sector0' = [d \in Drives |-> Absent] /\ devsel' = Slave
          /\ late' = NoDrive
        /\ vol' = NoVolume /\ mounted' = mounted /\ faults' = FALSE
    BY <1>2 DEF Prompt
  <2> QED
    BY <2>1, ShellStepDisk
<1>3. CASE Command
  BY <1>3, CommandDisk
<1>4. CASE \E path \in SavePaths : Save(path)
  BY <1>4, UnchangedDisk DEF Save
<1>5. CASE Exit
  <2>1. stage' = "prompt" /\ UNCHANGED <<sector0, devsel, late, vol, mounted, faults>>
    BY <1>5 DEF Exit
  <2> QED
    BY <2>1, ShellStepDisk
<1>6. CASE UNCHANGED vars
  BY <1>6, UnchangedDisk DEF vars
<1> QED
  BY <1>1, <1>2, <1>3, <1>4, <1>5, <1>6 DEF Next

LEMMA DiskAlways == Spec => []DiskInv
BY InitDisk, NextDisk, PTL DEF Spec

\* On a formatted volume, every cluster number that has an entry in the first
\* FAT is read from sectors behind the FATs and inside the volume: the sums of
\* clus_lba and of the cluster count do not wrap (fat32.c:46-50, 81-83).
THEOREM VolumesAreSound == Spec => []VolumeSound
<1>1. DiskInv => VolumeSound
  BY MountedSound DEF DiskInv
<1> QED
  BY <1>1, DiskAlways, PTL

\* As long as no read fails, the slave is used if it is signed, and a formatted
\* volume of FAT32 size is mounted (disk.c:15-26, part.c:10-24, fat32.c:56-95).
THEOREM VolumesAreFound == Spec => []VolumeFound
<1>1. DiskInv => VolumeFound
  BY DEF DiskInv
<1> QED
  BY <1>1, DiskAlways, PTL

-----------------------------------------------------------------------------
(* Induction and recursion over the first numbers, with sets and functions.  *)

LEMMA Minimum ==
  ASSUME NEW T \in SUBSET Nat, T # {}
  PROVE  \E x \in T : \A y \in T : x <= y
<1>1. PICK x \in T : \A y \in T : <<y, x>> \notin OpToRel(<, Nat)
  BY WFMin, NatLessThanWellFounded, Zenon
<1>2. \A y \in T : ~(y < x)
  BY <1>1, Zenon DEF OpToRel
<1> QED
  BY <1>2

LEMMA Maximum ==
  ASSUME NEW n \in Nat, NEW T \in SUBSET (0 .. n), T # {}
  PROVE  \E x \in T : \A y \in T : y <= x
<1> DEFINE R == {n - x : x \in T}
<1>1. R \in SUBSET Nat /\ R # {}
  <2>1. \A x \in T : x \in 0 .. n /\ n - x \in Nat
    OBVIOUS
  <2> QED
    BY <2>1
<1>2. PICK z \in R : \A y \in R : z <= y
  BY <1>1, Minimum
<1>3. PICK x \in T : z = n - x
  BY <1>2
<1>4. \A y \in T : n - y \in R /\ y \in 0 .. n
  OBVIOUS
<1>5. \A y \in T : y <= x
  BY <1>2, <1>3, <1>4
<1> QED
  BY <1>5

LEMMA Induct ==
  ASSUME NEW n \in Nat, NEW T, 0 \in T, \A k \in 0 .. n - 1 : k \in T => k + 1 \in T
  PROVE  \A k \in 0 .. n : k \in T
<1> DEFINE Bad == {k \in 0 .. n : k \notin T}
<1> SUFFICES ASSUME Bad # {} PROVE FALSE
  OBVIOUS
<1>0. Bad \in SUBSET Nat
  OBVIOUS
<1>1. PICK x \in Bad : \A y \in Bad : x <= y
  BY <1>0, Minimum
<1>2. x # 0 /\ x - 1 \in 0 .. n - 1 /\ x - 1 \notin Bad /\ (x - 1) + 1 = x
  BY <1>1
<1>3. x - 1 \in T
  BY <1>2
<1> QED
  BY <1>1, <1>2, <1>3

\* g runs n steps from a; step is a function of a value and the step's number.
Runs(g, a, step, n) == g[0] = a /\ \A k \in 1 .. n : g[k] = step[<<g[k - 1], k>>]

LEMMA Recursion ==
  ASSUME NEW A, NEW a \in A, NEW n \in Nat, NEW step,
         \A x \in A : \A k \in 1 .. n : step[<<x, k>>] \in A
  PROVE  \E g \in [0 .. n -> A] : Runs(g, a, step, n)
<1> DEFINE T == {m \in 0 .. n : \E g \in [0 .. m -> A] : Runs(g, a, step, m)}
<1>1. 0 \in T
  <2> DEFINE g == [k \in 0 .. 0 |-> a]
  <2>1. g \in [0 .. 0 -> A] /\ Runs(g, a, step, 0)
    BY DEF Runs
  <2> QED
    BY <2>1
<1>2. ASSUME NEW m \in 0 .. n - 1, m \in T PROVE m + 1 \in T
  <2>1. PICK f \in [0 .. m -> A] : Runs(f, a, step, m)
    BY <1>2
  <2>2. f[m] \in A /\ m + 1 \in 1 .. n /\ m + 1 \in 0 .. n
    OBVIOUS
  <2>3. PICK z \in A : z = step[<<f[m], m + 1>>]
    BY <2>2
  <2> DEFINE g == [k \in 0 .. m + 1 |-> IF k = m + 1 THEN z ELSE f[k]]
  <2>4. g \in [0 .. m + 1 -> A]
    OBVIOUS
  <2>5. g[m + 1] = z /\ (\A k \in 0 .. m : g[k] = f[k]) /\ 0 \in 0 .. m
    OBVIOUS
  <2> HIDE DEF g
  <2>6. ASSUME NEW k \in 1 .. m + 1 PROVE g[k] = step[<<g[k - 1], k>>]
    <3>1. CASE k = m + 1
      <4>1. k - 1 = m /\ m \in 0 .. m
        BY <3>1
      <4>2. g[k - 1] = f[m]
        BY <2>5, <4>1
      <4> QED
        BY <2>3, <2>5, <3>1, <4>2
    <3>2. CASE k # m + 1
      <4>1. k \in 1 .. m /\ k \in 0 .. m /\ k - 1 \in 0 .. m
        BY <3>2
      <4>2. f[k] = step[<<f[k - 1], k>>]
        BY <2>1, <4>1 DEF Runs
      <4> QED
        BY <2>5, <4>1, <4>2
    <3> QED
      BY <3>1, <3>2
  <2>7. Runs(g, a, step, m + 1)
    BY <2>1, <2>5, <2>6 DEF Runs
  <2> QED
    BY <2>2, <2>4, <2>7
<1> HIDE DEF T
<1>3. n \in T
  BY <1>1, <1>2, Induct
<1> QED
  BY <1>3 DEF T

-----------------------------------------------------------------------------
(* Text.                                                                     *)

Char == STRING \cup {Slash, Nul, Space, "."}
Text == Seq(Char)

LEMMA Characters == Slash \in Char /\ Nul \in Char /\ Space \in Char /\ "." \in Char
BY DEF Char

LEMMA StringsAreText == Seq(STRING) \subseteq Text
<1> SUFFICES ASSUME NEW s \in Seq(STRING) PROVE s \in Text
  OBVIOUS
<1>1. STRING \subseteq Char
  BY DEF Char
<1> QED
  BY <1>1, SeqMonotonic DEF Text

LEMMA TextConstants ==
  /\ DiskName \in Text /\ BinName \in Text /\ RamBinName \in Text /\ ElfExt \in Text
  /\ Args \subseteq Text /\ Rests \subseteq Text /\ SavePaths \subseteq Text
BY StringsAreText, PathConstants, ShellConstants

LEMMA SlashText == <<Slash>> \in Text /\ <<Space>> \in Text /\ <<>> \in Text /\ Len(<<Slash>>) = 1
BY Characters DEF Text

LEMMA TextParts ==
  ASSUME NEW s \in Text
  PROVE  /\ Len(s) \in Nat /\ (\A k \in 1 .. Len(s) : s[k] \in Char)
         /\ \A i \in 1 .. Len(s) + 1 : \A j \in 0 .. Len(s) : i - 1 <= j =>
              SubSeq(s, i, j) \in Text /\ Len(SubSeq(s, i, j)) = j - i + 1
         /\ s # <<>> => Len(s) >= 1 /\ Tail(s) \in Text /\ Len(Tail(s)) = Len(s) - 1
         /\ s # <<>> => Front(s) \in Text /\ Len(Front(s)) = Len(s) - 1
<1>1. Len(s) \in Nat /\ (\A k \in 1 .. Len(s) : s[k] \in Char) /\ (s # <<>> => Len(s) >= 1)
  BY DEF Text
<1>2. s # <<>> => Tail(s) \in Text /\ Len(Tail(s)) = Len(s) - 1
  BY DEF Text
<1>3. ASSUME NEW i \in 1 .. Len(s) + 1, NEW j \in 0 .. Len(s), i - 1 <= j
      PROVE  SubSeq(s, i, j) \in Text /\ Len(SubSeq(s, i, j)) = j - i + 1
  <2>1. \A k \in i .. j : k \in 1 .. Len(s) /\ s[k] \in Char
    BY <1>1
  <2> QED
    BY <1>1, <1>3, <2>1, SubSeqProperties DEF Text
<1>4. ASSUME s # <<>> PROVE Front(s) \in Text /\ Len(Front(s)) = Len(s) - 1
  <2>1. Len(s) - 1 \in 0 .. Len(s) /\ 1 \in 1 .. Len(s) + 1 /\ 1 - 1 <= Len(s) - 1
    BY <1>1, <1>4
  <2>2. SubSeq(s, 1, Len(s) - 1) \in Text /\ Len(SubSeq(s, 1, Len(s) - 1)) = (Len(s) - 1) - 1 + 1
    BY <1>3, <2>1
  <2> QED
    BY <1>1, <2>2 DEF Front
<1> QED
  BY <1>1, <1>2, <1>3, <1>4

LEMMA TextConcat ==
  ASSUME NEW s \in Text, NEW t \in Text
  PROVE  /\ s \o t \in Text /\ Len(s \o t) = Len(s) + Len(t)
         /\ \A k \in 1 .. Len(s) : (s \o t)[k] = s[k]
         /\ \A k \in 1 .. Len(t) : (s \o t)[Len(s) + k] = t[k]
BY DEF Text

LEMMA TextAppend ==
  ASSUME NEW s \in Text, NEW c \in Char
  PROVE  /\ Append(s, c) \in Text /\ Len(Append(s, c)) = Len(s) + 1
         /\ \A k \in 1 .. Len(s) : Append(s, c)[k] = s[k]
         /\ Append(s, c)[Len(s) + 1] = c
BY DEF Text

LEMMA LongerPrefix ==
  ASSUME NEW S, NEW s \in Seq(S), NEW k \in 0 .. Len(s) - 1
  PROVE  Append(SubSeq(s, 1, k), s[k + 1]) = SubSeq(s, 1, k + 1)
<1>1. Len(s) \in Nat /\ \A i \in 1 .. Len(s) : s[i] \in S
  OBVIOUS
<1>2. 1 \in 1 .. Len(s) /\ k + 1 \in 1 .. Len(s) /\ (k + 1) - 1 = k /\ k \in Int
  BY <1>1
<1>3. SubSeq(s, 1, k + 1) = SubSeq(s, 1, k) \o <<s[k + 1]>>
  BY <1>2, SubSeqRecursiveSecond
<1>4. SubSeq(s, 1, k) \in Seq(S) /\ s[k + 1] \in S
  <2>1. \A i \in 1 .. k : s[i] \in S
    BY <1>1, <1>2
  <2> QED
    BY <1>1, <1>2, <2>1, SubSeqProperties
<1>5. Append(SubSeq(s, 1, k), s[k + 1]) = SubSeq(s, 1, k) \o <<s[k + 1]>>
  BY <1>4, AppendIsConcat
<1> QED
  BY <1>3, <1>5

LEMMA CutText ==
  ASSUME NEW s \in Text, NEW n \in Nat \ {0}
  PROVE  Cut(s, n) \in Text /\ Len(Cut(s, n)) < n
<1>1. Len(s) \in Nat
  BY TextParts
<1>2. CASE Len(s) < n
  BY <1>1, <1>2, TextParts DEF Cut
<1>3. CASE ~(Len(s) < n)
  <2>1. n - 1 \in 0 .. Len(s)
    BY <1>1, <1>3
  <2>2. SubSeq(s, 1, n - 1) \in Text /\ Len(SubSeq(s, 1, n - 1)) = n - 1
    BY <1>1, <2>1, TextParts
  <2> QED
    BY <1>1, <1>3, <2>2 DEF Cut
<1> QED
  BY <1>2, <1>3

-----------------------------------------------------------------------------
(* path_resolve: its loop writes at most one character a round.              *)

State == [r : Nat \ {0}, out : Text]

LEMMA PopText ==
  ASSUME NEW out \in Text
  PROVE  Pop(out) \in Text /\ Len(Pop(out)) <= Len(out)
<1>1. Len(out) \in Nat
  BY TextParts
<1>2. CASE Len(out) <= 1
  BY <1>1, <1>2 DEF Pop
<1>3. CASE ~(Len(out) <= 1)
  <2> DEFINE ends == {k \in 1 .. Len(out) - 1 : out[k] = Slash}
             top  == CHOOSE k \in ends \cup {0} : \A j \in ends : j <= k
  <2>1. ends \cup {0} \in SUBSET (0 .. Len(out) - 1) /\ Len(out) - 1 \in Nat /\ ends \cup {0} # {}
    BY <1>1, <1>3
  <2>2. \E k \in ends \cup {0} : \A j \in ends \cup {0} : j <= k
    BY <2>1, Maximum
  <2>3. top \in ends \cup {0}
    BY <2>2
  <2>4. top \in 0 .. Len(out) - 1
    BY <2>1, <2>3
  <2>5. Pop(out) = SubSeq(out, 1, top)
    BY <1>3 DEF Pop
  <2> HIDE DEF top
  <2>6. top \in 0 .. Len(out) /\ 1 \in 1 .. Len(out) + 1 /\ 1 - 1 <= top
    BY <1>1, <2>4
  <2>7. SubSeq(out, 1, top) \in Text /\ Len(SubSeq(out, 1, top)) = top - 1 + 1
    BY <2>6, TextParts
  <2> QED
    BY <1>1, <2>5, <2>6, <2>7
<1> QED
  BY <1>2, <1>3

\* A run of slashes has an end.
LEMMA SlashRun ==
  ASSUME NEW in \in Text, NEW r \in 1 .. Len(in), in[r] = Slash
  PROVE  \E k \in r .. Len(in) : (\A j \in r .. k : in[j] = Slash) /\ At(in, k + 1) # Slash
<1> DEFINE T == {k \in r .. Len(in) : At(in, k + 1) # Slash}
<1>1. Len(in) \in Nat
  BY TextParts
<1>2. Len(in) \in T
  BY <1>1 DEF At, Nul, Slash
<1>3. T \in SUBSET Nat
  BY <1>1
<1>4. PICK k \in T : \A j \in T : k <= j
  BY <1>2, <1>3, Minimum
<1>5. ASSUME NEW j \in r .. k PROVE in[j] = Slash
  <2>1. CASE j = r
    BY <2>1
  <2>2. CASE j # r
    <3>1. j - 1 \in r .. Len(in) /\ ~(k <= j - 1) /\ (j - 1) + 1 = j /\ j \in 1 .. Len(in)
      BY <1>1, <1>4, <2>2
    <3>2. At(in, j) = Slash
      BY <1>4, <3>1
    <3> QED
      BY <3>1, <3>2 DEF At
  <2> QED
    BY <2>1, <2>2
<1> QED
  BY <1>4, <1>5

LEMMA RoundTypes ==
  ASSUME NEW in \in Text, NEW st \in State
  PROVE  Round(in, st) \in State /\ Len(Round(in, st).out) <= Len(st.out) + 1
<1>1. Len(in) \in Nat /\ st.r \in Nat \ {0} /\ st.out \in Text /\ Len(st.out) \in Nat
  BY TextParts DEF State
<1> DEFINE r == IF At(in, st.r) = Slash
                THEN CHOOSE k \in st.r .. Len(in) : /\ \A j \in st.r .. k : in[j] = Slash
                                                    /\ At(in, k + 1) # Slash
                ELSE st.r
<1>2. r \in Nat \ {0}
  <2>1. CASE At(in, st.r) = Slash
    <3>1. st.r \in 1 .. Len(in) /\ in[st.r] = Slash
      BY <2>1 DEF At, Nul, Slash
    <3>2. \E k \in st.r .. Len(in) : (\A j \in st.r .. k : in[j] = Slash) /\ At(in, k + 1) # Slash
      BY <3>1, SlashRun
    <3>3. r \in st.r .. Len(in)
      BY <2>1, <3>2
    <3>4. \A m \in st.r .. Len(in) : m \in Nat \ {0}
      BY <1>1
    <3> QED
      BY <3>3, <3>4, Zenon
  <2>2. CASE At(in, st.r) # Slash
    BY <1>1, <2>2
  <2> QED
    BY <2>1, <2>2
<1>3. Round(in, st) =
        CASE At(in, r) = Nul -> st
          [] At(in, r) = "." /\ Ends(in, r + 1) -> [r |-> Past(in, r + 1), out |-> st.out]
          [] At(in, r) = "." /\ At(in, r + 1) = "." /\ Ends(in, r + 2) ->
               [r |-> Past(in, r + 2), out |-> Pop(st.out)]
          [] OTHER -> [r |-> r + 1, out |-> Append(st.out, in[r])]
  BY Zenon DEF Round
<1> HIDE DEF r
<1>4. PICK q \in Nat \ {0} : q = r
  BY <1>2
<1>5. Past(in, q + 1) \in Nat \ {0} /\ Past(in, q + 2) \in Nat \ {0} /\ q + 1 \in Nat \ {0}
  BY DEF Past
<1>6. CASE At(in, q) = Nul
  <2>1. Round(in, st) = st
    BY <1>3, <1>4, <1>6 DEF Nul
  <2> QED
    BY <1>1, <2>1
<1>7. CASE At(in, q) # Nul
  <2>1. q \in 1 .. Len(in) /\ in[q] \in Char
    BY <1>1, <1>7, TextParts DEF At
  <2>2. Append(st.out, in[q]) \in Text /\ Len(Append(st.out, in[q])) = Len(st.out) + 1
    BY <1>1, <2>1, TextAppend
  <2>3. Pop(st.out) \in Text /\ Len(Pop(st.out)) <= Len(st.out) /\ Len(Pop(st.out)) \in Nat
    BY <1>1, PopText, TextParts
  <2>4. \/ Round(in, st) = [r |-> Past(in, q + 1), out |-> st.out]
        \/ Round(in, st) = [r |-> Past(in, q + 2), out |-> Pop(st.out)]
        \/ Round(in, st) = [r |-> q + 1, out |-> Append(st.out, in[q])]
    BY <1>3, <1>4, <1>7
  <2>5. \A a \in Nat \ {0} : \A b \in Text : [r |-> a, out |-> b] \in State
    BY DEF State
  <2>6. Round(in, st) \in State
    BY <1>1, <1>5, <2>2, <2>3, <2>4, <2>5
  <2>7. Len(Round(in, st).out) <= Len(st.out) + 1
    BY <1>1, <2>2, <2>3, <2>4
  <2> QED
    BY <2>6, <2>7
<1> QED
  BY <1>6, <1>7

IsReading(g, in) ==
  g = [n \in 0 .. Len(in) |-> IF n = 0 THEN [r |-> 1, out |-> <<>>] ELSE Round(in, g[n - 1])]

LEMMA ReadingExists ==
  ASSUME NEW in \in Text
  PROVE  \E g : IsReading(g, in)
<1> DEFINE step == [x \in State \X (1 .. Len(in)) |-> Round(in, x[1])]
           first == [r |-> 1, out |-> <<>>]
<1>1. first \in State /\ Len(in) \in Nat
  BY SlashText, TextParts DEF State
<1>2. \A x \in State : \A k \in 1 .. Len(in) : step[<<x, k>>] = Round(in, x)
  OBVIOUS
<1>3. \A x \in State : \A k \in 1 .. Len(in) : step[<<x, k>>] \in State
  BY <1>2, RoundTypes
<1> HIDE DEF step
<1>4. PICK g \in [0 .. Len(in) -> State] : Runs(g, first, step, Len(in))
  BY <1>1, <1>3, Recursion
<1>5. ASSUME NEW n \in 0 .. Len(in)
      PROVE  g[n] = IF n = 0 THEN first ELSE Round(in, g[n - 1])
  <2>1. CASE n = 0
    BY <1>4, <2>1 DEF Runs
  <2>2. CASE n # 0
    <3>1. n \in 1 .. Len(in) /\ n - 1 \in 0 .. Len(in)
      BY <1>1, <2>2
    <3>2. g[n] = step[<<g[n - 1], n>>] /\ g[n - 1] \in State
      BY <1>4, <3>1 DEF Runs
    <3> QED
      BY <1>2, <2>2, <3>1, <3>2
  <2> QED
    BY <2>1, <2>2
<1>6. g = [n \in 0 .. Len(in) |-> g[n]]
  OBVIOUS
<1>7. IsReading(g, in)
  BY <1>5, <1>6 DEF IsReading
<1> QED
  BY <1>7

LEMMA ReducedText ==
  ASSUME NEW in \in Text
  PROVE  Reduced(in) \in Text /\ Len(Reduced(in)) <= Len(in)
<1>1. \E g : IsReading(g, in) /\ Reduced(in) = g[Len(in)].out
  BY ReadingExists, Zenon DEF Reduced, IsReading
<1>2. PICK g : IsReading(g, in) /\ Reduced(in) = g[Len(in)].out
  BY <1>1
<1>3. Len(in) \in Nat
  BY TextParts
<1>4. g[0] = [r |-> 1, out |-> <<>>]
  BY <1>2, <1>3 DEF IsReading
<1>5. \A k \in 0 .. Len(in) - 1 : g[k + 1] = Round(in, g[k])
  <2> SUFFICES ASSUME NEW k \in 0 .. Len(in) - 1 PROVE g[k + 1] = Round(in, g[k])
    OBVIOUS
  <2>1. k + 1 \in 0 .. Len(in) /\ k + 1 # 0 /\ (k + 1) - 1 = k
    BY <1>3
  <2> QED
    BY <1>2, <2>1 DEF IsReading
<1> DEFINE T == {k \in Nat : g[k] \in State /\ Len(g[k].out) <= k}
<1>6. 0 \in T
  BY <1>4, SlashText DEF State
<1>7. ASSUME NEW k \in 0 .. Len(in) - 1, k \in T PROVE k + 1 \in T
  <2>1. g[k + 1] \in State /\ Len(g[k + 1].out) <= Len(g[k].out) + 1
    BY <1>5, <1>7, RoundTypes
  <2>2. Len(g[k].out) \in Nat /\ Len(g[k + 1].out) \in Nat
    BY <1>7, <2>1, TextParts DEF State
  <2> QED
    BY <1>7, <2>1, <2>2
<1> HIDE DEF T
<1>8. Len(in) \in 0 .. Len(in)
  BY <1>3
<1>9. Len(in) \in T
  BY <1>3, <1>6, <1>7, <1>8, Induct
<1> QED
  BY <1>2, <1>9 DEF T, State

LEMMA JoinedText ==
  ASSUME NEW dir \in Text, NEW in \in Text
  PROVE  Joined(dir, in) \in Text /\ Len(Joined(dir, in)) < Cap
<1>1. Cap \in Nat \ {0}
  BY PathConstants
<1>2. CASE in # <<>> /\ in[1] = Slash
  BY <1>1, <1>2, SlashText, TextConcat, CutText DEF Joined
<1>3. CASE ~(in # <<>> /\ in[1] = Slash)
  <2> DEFINE base == IF dir = <<>> THEN <<Slash>> ELSE Cut(dir, Cap)
             at   == IF base[Len(base)] = Slash THEN base ELSE Append(base, Slash)
  <2>1. base \in Text
    BY <1>1, SlashText, CutText
  <2>2. at \in Text
    <3> HIDE DEF base
    <3>1. Append(base, Slash) \in Text
      BY <2>1, Characters, TextAppend
    <3> QED
      BY <2>1, <3>1
  <2>3. Joined(dir, in) = Cut(at \o in, Cap)
    BY <1>3, Zenon DEF Joined
  <2> HIDE DEF at
  <2>4. at \o in \in Text
    BY <2>2, TextConcat
  <2> QED
    BY <1>1, <2>3, <2>4, CutText
<1> QED
  BY <1>2, <1>3

LEMMA ResolvedText ==
  ASSUME NEW dir \in Text, NEW in \in Text
  PROVE  path_resolve(dir, in) \in Text /\ Len(path_resolve(dir, in)) < Cap
<1>1. Joined(dir, in) \in Text /\ Len(Joined(dir, in)) < Cap /\ Len(Joined(dir, in)) \in Nat
  BY JoinedText, TextParts
<1> DEFINE out == Reduced(Joined(dir, in))
<1>2. out \in Text /\ Len(out) <= Len(Joined(dir, in))
  BY <1>1, ReducedText
<1>3. path_resolve(dir, in) = IF Len(out) > 1 /\ out[Len(out)] = Slash THEN Front(out) ELSE out
  BY DEF path_resolve
<1> HIDE DEF out
<1>4. Len(out) \in Nat /\ (Len(out) > 1 => out # <<>>) /\ Cap \in Nat
  BY <1>2, TextParts, PathConstants
<1>5. out # <<>> => Front(out) \in Text /\ Len(Front(out)) = Len(out) - 1
  BY <1>2, TextParts
<1> QED
  BY <1>1, <1>2, <1>3, <1>4, <1>5

LEMMA PrefixText ==
  DiskPrefix \in Text /\ Len(DiskPrefix) = Len(DiskName) + 1 /\ Len(DiskPrefix) < Cap
<1>1. DiskPrefix \in Text /\ Len(DiskPrefix) = 1 + Len(DiskName)
  BY TextConstants, SlashText, TextConcat DEF DiskPrefix
<1>2. Len(DiskName) \in Nat
  BY TextConstants, TextParts
<1> QED
  BY <1>1, <1>2, PathConstants

LEMMA DiskAbsText ==
  ASSUME NEW abs \in Text
  PROVE  force_disk_abs(abs) \in Text /\ (Len(abs) < Cap => Len(force_disk_abs(abs)) < Cap)
<1>1. CASE IsPrefix(DiskPrefix, abs)
  BY <1>1 DEF force_disk_abs
<1>2. CASE ~IsPrefix(DiskPrefix, abs)
  <2> DEFINE mid == IF abs[1] = Slash THEN <<>> ELSE <<Slash>>
  <2>1. mid \in Text
    BY SlashText
  <2>2. force_disk_abs(abs) = Cut(DiskPrefix \o mid \o abs, Cap)
    BY <1>2 DEF force_disk_abs
  <2> HIDE DEF mid
  <2>3. DiskPrefix \o mid \o abs \in Text
    BY <2>1, PrefixText, TextConcat
  <2>4. Cap \in Nat \ {0}
    BY PathConstants
  <2> QED
    BY <2>2, <2>3, <2>4, CutText
<1> QED
  BY <1>1, <1>2

\* The place, behind a slash, of what is n + 1 characters on.
LEMMA PlaceBehind ==
  ASSUME NEW n \in Nat, NEW l \in Nat, NEW r, NEW t, r = l - n, t = l - n - 1,
         NEW k \in 1 .. l, k > n + 1
  PROVE  /\ k - (n + 1) \in 1 .. t /\ k - n \in 1 .. r /\ n + (k - n) = k
         /\ n + 1 + (k - (n + 1)) = k /\ (k - (n + 1)) + 1 = k - n
OBVIOUS

\* What lies below the disk: a path is the disk's name, a slash, and the rest.
LEMMA SubpathText ==
  ASSUME NEW abs \in Text, disk_subpath(abs) # {}
  PROVE  /\ One(disk_subpath(abs)) \in Text
         /\ \/ abs = DiskPrefix /\ One(disk_subpath(abs)) = <<Slash>>
            \/ abs = (DiskPrefix \o <<Slash>>) \o One(disk_subpath(abs))
<1> DEFINE n    == Len(DiskPrefix)
           rest == SubSeq(abs, Len(DiskPrefix) + 1, Len(abs))
<1>1. n \in Nat /\ Len(abs) \in Nat /\ DiskPrefix \in Text
  BY PrefixText, TextParts
<1>2. IsPrefix(DiskPrefix, abs) /\ (rest = <<>> \/ rest[1] = Slash)
  BY DEF disk_subpath
<1>3. n <= Len(abs) /\ SubSeq(DiskPrefix, 1, n) = SubSeq(abs, 1, n)
  BY <1>2 DEF IsPrefix
<1>4. rest \in Text /\ Len(rest) = Len(abs) - n
  <2>1. n + 1 \in 1 .. Len(abs) + 1 /\ Len(abs) \in 0 .. Len(abs) /\ (n + 1) - 1 <= Len(abs)
    BY <1>1, <1>3
  <2>2. rest \in Text /\ Len(rest) = Len(abs) - (n + 1) + 1
    BY <2>1, TextParts
  <2> QED
    BY <1>1, <2>2
<1>5. \A k \in 1 .. n : abs[k] = DiskPrefix[k]
  <2>1. \A k \in 1 .. n : SubSeq(DiskPrefix, 1, n)[k] = DiskPrefix[k]
    BY <1>1, SubSeqProperties DEF Text
  <2>2. \A k \in 1 .. n : SubSeq(abs, 1, n)[k] = abs[k]
    BY <1>1, <1>3, SubSeqProperties DEF Text
  <2> QED
    BY <1>3, <2>1, <2>2
<1>6. \A k \in 1 .. Len(rest) : abs[n + k] = rest[k]
  <2>1. \A i \in n + 1 .. Len(abs) : abs[i] \in Char
    BY <1>1, <1>3, TextParts
  <2>2. \A i \in 1 .. Len(abs) - (n + 1) + 1 : rest[i] = abs[(n + 1) + i - 1]
    BY <1>1, <2>1, SubSeqProperties
  <2>3. \A i \in 1 .. Len(rest) : i \in 1 .. Len(abs) - (n + 1) + 1 /\ (n + 1) + i - 1 = n + i
    BY <1>1, <1>4
  <2> QED
    BY <2>2, <2>3
<1> HIDE DEF rest, n
<1>7. CASE rest = <<>>
  <2>1. disk_subpath(abs) = {<<Slash>>}
    BY <1>2, <1>7 DEF disk_subpath, rest
  <2>2. Len(abs) = n
    BY <1>1, <1>3, <1>4, <1>7
  <2>3. abs = DiskPrefix
    BY <1>1, <1>5, <2>2 DEF Text, n
  <2> QED
    BY <2>1, <2>3, SlashText DEF One
<1>8. CASE rest # <<>>
  <2>1. disk_subpath(abs) = {Tail(rest)} /\ rest[1] = Slash
    BY <1>2, <1>8 DEF disk_subpath, rest
  <2>2. Tail(rest) \in Text /\ Len(Tail(rest)) = Len(rest) - 1 /\ Len(rest) >= 1
    BY <1>4, <1>8, TextParts
  <2>3. \A k \in 1 .. Len(Tail(rest)) : Tail(rest)[k] = rest[k + 1]
    BY <1>4, <1>8, HeadTailProperties DEF Text
  <2>4. PICK t \in Text : t = Tail(rest)
    BY <2>2
  <2>5. Len(t) \in Nat
    BY TextParts
  <2>6. DiskPrefix \o <<Slash>> \in Text /\ Len(DiskPrefix \o <<Slash>>) = n + 1
        /\ \A k \in 1 .. n : (DiskPrefix \o <<Slash>>)[k] = DiskPrefix[k]
    BY <1>1, SlashText, TextConcat DEF n
  <2>7. (DiskPrefix \o <<Slash>>)[n + 1] = Slash
    BY <1>1, SlashText, TextConcat DEF n
  <2>12. PICK p \in Text : p = DiskPrefix \o <<Slash>>
    BY <2>6
  <2> DEFINE b == p \o t
  <2>8. /\ b \in Text /\ Len(b) = n + 1 + Len(t)
        /\ (\A k \in 1 .. n + 1 : b[k] = (DiskPrefix \o <<Slash>>)[k])
        /\ (\A k \in 1 .. Len(t) : b[n + 1 + k] = t[k])
    <3>1. Len(p) = n + 1
      BY <2>6, <2>12
    <3>2. /\ b \in Text /\ Len(b) = Len(p) + Len(t)
          /\ (\A k \in 1 .. Len(p) : b[k] = p[k])
          /\ (\A k \in 1 .. Len(t) : b[Len(p) + k] = t[k])
      BY TextConcat
    <3> QED
      BY <2>12, <3>1, <3>2
  <2> HIDE DEF b
  <2>13. /\ Len(t) = Len(rest) - 1 /\ Len(rest) = Len(abs) - n /\ rest[1] = Slash
         /\ \A k \in 1 .. Len(t) : t[k] = rest[k + 1]
    BY <1>4, <2>1, <2>2, <2>3, <2>4, Zenon
  <2>9. Len(b) = Len(abs)
    BY <1>1, <2>5, <2>8, <2>13
  <2>10. ASSUME NEW k \in 1 .. Len(abs) PROVE b[k] = abs[k]
    <3>1. CASE k \in 1 .. n
      BY <1>1, <1>5, <2>6, <2>8, <3>1
    <3>2. CASE k = n + 1
      <4>1. 1 \in 1 .. Len(rest) /\ n + 1 \in 1 .. n + 1
        BY <1>1, <2>5, <2>13
      <4>2. abs[n + 1] = Slash /\ b[n + 1] = Slash
        BY <1>6, <2>7, <2>8, <2>13, <4>1
      <4> QED
        BY <3>2, <4>2
    <3>3. CASE k > n + 1
      <4>1. k - (n + 1) \in 1 .. Len(t) /\ k - n \in 1 .. Len(rest) /\ n + (k - n) = k
            /\ n + 1 + (k - (n + 1)) = k /\ (k - (n + 1)) + 1 = k - n
        <5>1. n \in Nat /\ Len(abs) \in Nat /\ k \in 1 .. Len(abs) /\ k > n + 1
          BY <1>1, <3>3, TextParts
        <5>2. Len(rest) = Len(abs) - n /\ Len(t) = Len(abs) - n - 1
          BY <2>13, <5>1
        <5> QED
          BY <5>1, <5>2, PlaceBehind
      <4>2. b[k] = t[k - (n + 1)] /\ abs[k] = rest[k - n] /\ t[k - (n + 1)] = rest[k - n]
        BY <1>6, <2>13, <2>8, <4>1
      <4> QED
        BY <4>2
    <3> QED
      BY <1>1, <3>1, <3>2, <3>3
  <2>11. abs = b
    <3>1. abs \in Seq(Char) /\ b \in Seq(Char) /\ \A k \in 1 .. Len(abs) : abs[k] = b[k]
      BY <2>8, <2>10 DEF Text
    <3> QED
      BY <2>9, <3>1, SeqEqual, Zenon
  <2> QED
    BY <2>1, <2>2, <2>4, <2>11, <2>12 DEF One, b
<1> QED
  BY <1>7, <1>8

-----------------------------------------------------------------------------
(* Parts: the components between slashes, and the disk's name among them.    *)

PartState == [all : Seq(Text), part : Text]
PartStep(acc, c) ==
  IF c # Slash THEN [acc EXCEPT !.part = Append(@, c)]
  ELSE IF acc.part = <<>> THEN acc
  ELSE [all |-> Append(acc.all, acc.part), part |-> <<>>]
NoParts == [all |-> <<>>, part |-> <<>>]

LEMMA PartStepTypes ==
  ASSUME NEW acc \in PartState, NEW c \in Char
  PROVE  PartStep(acc, c) \in PartState
<1>1. acc.all \in Seq(Text) /\ acc.part \in Text
  BY DEF PartState
<1>2. Append(acc.part, c) \in Text
  BY <1>1, TextAppend
<1>3. Append(acc.all, acc.part) \in Seq(Text)
  BY <1>1
<1> QED
  BY <1>1, <1>2, <1>3, SlashText DEF PartStep, PartState

LEMMA PartGrows ==
  ASSUME NEW a, NEW q, NEW c, c # Slash
  PROVE  PartStep([all |-> a, part |-> q], c) = [all |-> a, part |-> Append(q, c)]
<1> DEFINE acc == [all |-> a, part |-> q]
<1>1. acc.all = a /\ acc.part = q
  OBVIOUS
<1>2. [acc EXCEPT !.part = Append(@, c)] = [all |-> a, part |-> Append(q, c)]
  OBVIOUS
<1> QED
  BY <1>1, <1>2 DEF PartStep

LEMMA PartCloses ==
  ASSUME NEW a, NEW q
  PROVE  /\ q = <<>> => PartStep([all |-> a, part |-> q], Slash) = [all |-> a, part |-> q]
         /\ q # <<>> => PartStep([all |-> a, part |-> q], Slash)
            = [all |-> Append(a, q), part |-> <<>>]
BY DEF PartStep

IsSeen(g, s) ==
  g = [n \in 0 .. Len(s) + 1 |->
         IF n = 0 THEN NoParts ELSE PartStep(g[n - 1], Append(s, Slash)[n])]

LEMMA SeenExists ==
  ASSUME NEW s \in Text
  PROVE  \E g : IsSeen(g, s)
<1> DEFINE line == Append(s, Slash)
           N    == Len(s) + 1
           step == [x \in PartState \X (1 .. N) |-> PartStep(x[1], line[x[2]])]
<1>1. NoParts \in PartState /\ N \in Nat
  BY SlashText, TextParts DEF PartState, NoParts
<1>2. \A k \in 1 .. N : line[k] \in Char
  <2>1. line \in Text /\ Len(line) = N
    BY Characters, TextAppend
  <2> QED
    BY <2>1, TextParts
<1>3. \A x \in PartState : \A k \in 1 .. N : step[<<x, k>>] = PartStep(x, line[k])
  OBVIOUS
<1> HIDE DEF step
<1>4. \A x \in PartState : \A k \in 1 .. N : step[<<x, k>>] \in PartState
  BY <1>2, <1>3, PartStepTypes
<1>5. PICK g \in [0 .. N -> PartState] : Runs(g, NoParts, step, N)
  BY <1>1, <1>4, Recursion
<1>6. ASSUME NEW n \in 0 .. N
      PROVE  g[n] = IF n = 0 THEN NoParts ELSE PartStep(g[n - 1], line[n])
  <2>1. CASE n = 0
    BY <1>5, <2>1 DEF Runs
  <2>2. CASE n # 0
    <3>1. n \in 1 .. N /\ n - 1 \in 0 .. N
      BY <1>1, <2>2
    <3>2. g[n] = step[<<g[n - 1], n>>] /\ g[n - 1] \in PartState
      BY <1>5, <3>1 DEF Runs
    <3> QED
      BY <1>3, <2>2, <3>1, <3>2
  <2> QED
    BY <2>1, <2>2
<1>7. g = [n \in 0 .. N |-> g[n]]
  OBVIOUS
<1>8. IsSeen(g, s)
  BY <1>6, <1>7 DEF IsSeen
<1> QED
  BY <1>8

\* What Parts returns is read off a run of its loop, with the types it has.
Scan(g, s) ==
  /\ g[0] = NoParts
  /\ \A n \in 0 .. Len(s) : g[n + 1] = PartStep(g[n], Append(s, Slash)[n + 1])
  /\ \A n \in 0 .. Len(s) + 1 : g[n] \in PartState
  /\ Parts(s) = g[Len(s) + 1].all

LEMMA PartsScan ==
  ASSUME NEW s \in Text
  PROVE  \E g : Scan(g, s)
<1>1. \E g : IsSeen(g, s) /\ Parts(s) = g[Len(s) + 1].all
  BY SeenExists, Zenon DEF Parts, IsSeen, PartStep, NoParts
<1>2. PICK g : IsSeen(g, s) /\ Parts(s) = g[Len(s) + 1].all
  BY <1>1
<1>3. Len(s) \in Nat
  BY TextParts
<1>4. g[0] = NoParts
  BY <1>2, <1>3 DEF IsSeen
<1>5. ASSUME NEW n \in 0 .. Len(s) PROVE g[n + 1] = PartStep(g[n], Append(s, Slash)[n + 1])
  <2>1. n + 1 \in 0 .. Len(s) + 1 /\ n + 1 # 0 /\ (n + 1) - 1 = n
    BY <1>3
  <2> QED
    BY <1>2, <2>1 DEF IsSeen
<1> DEFINE T == {n \in Nat : g[n] \in PartState}
<1>6. 0 \in T
  <2>1. NoParts \in PartState
    BY SlashText DEF PartState, NoParts
  <2> QED
    BY <1>4, <2>1
<1>7. ASSUME NEW n \in 0 .. (Len(s) + 1) - 1, n \in T PROVE n + 1 \in T
  <2>1. n \in 0 .. Len(s) /\ n + 1 \in 1 .. Len(s) + 1
    BY <1>3
  <2>2. Append(s, Slash)[n + 1] \in Char
    <3>1. Append(s, Slash) \in Text /\ Len(Append(s, Slash)) = Len(s) + 1
      BY Characters, TextAppend
    <3> QED
      BY <2>1, <3>1, TextParts
  <2> QED
    BY <1>5, <1>7, <2>1, <2>2, PartStepTypes
<1> HIDE DEF T
<1>8. \A n \in 0 .. Len(s) + 1 : n \in T
  BY <1>3, <1>6, <1>7, Induct
<1>9. Scan(g, s)
  BY <1>2, <1>4, <1>5, <1>8 DEF Scan, T
<1> QED
  BY <1>9

LEMMA PartsText ==
  ASSUME NEW s \in Text
  PROVE  Parts(s) \in Seq(Text)
<1>1. PICK g : Scan(g, s)
  BY PartsScan
<1>2. Len(s) + 1 \in 0 .. Len(s) + 1
  BY TextParts
<1> QED
  BY <1>1, <1>2 DEF Scan, PartState

NameHeads(s) ==
  /\ Len(s) >= Len(DiskName) + 1 /\ s[1] = Slash
  /\ \A k \in 1 .. Len(DiskName) : s[k + 1] = DiskName[k]
  /\ Append(s, Slash)[Len(DiskName) + 2] = Slash

LEMMA NameGrows ==
  ASSUME NEW p, NEW q, NEW s, NEW c, c # Slash, q = [all |-> <<>>, part |-> s], p = PartStep(q, c)
  PROVE  p = [all |-> <<>>, part |-> Append(s, c)]
BY PartGrows, Zenon

\* The disk's name at the head of a line is its first part.
LEMMA NameSeen ==
  ASSUME NEW s \in Text, NEW g, Scan(g, s), NameHeads(s)
  PROVE  g[Len(DiskName) + 2] = [all |-> <<DiskName>>, part |-> <<>>]
<1> DEFINE N == Len(DiskName)
           T == {k \in Nat : g[k + 1] = [all |-> <<>>, part |-> SubSeq(DiskName, 1, k)]}
<1>1. DiskName \in Text /\ N \in Nat /\ Len(s) \in Nat
  BY TextConstants, TextParts
<1>2. \A k \in 0 .. N : k + 1 \in 1 .. Len(s) /\ k \in 0 .. Len(s) /\ k + 1 \in 0 .. Len(s)
  BY <1>1 DEF NameHeads
<1>3. \A k \in 1 .. Len(s) : Append(s, Slash)[k] = s[k]
  BY Characters, TextAppend
<1>4. \A k \in 0 .. N : g[k + 1] = PartStep(g[k], s[k + 1])
  BY <1>2, <1>3 DEF Scan
<1>5. 0 \in T
  <2>1. g[1] = PartStep(NoParts, Slash)
    BY <1>1, <1>4 DEF Scan, NameHeads
  <2>2. SubSeq(DiskName, 1, 0) = <<>>
    BY SubSeqEmpty
  <2> QED
    <3>1. PartStep(NoParts, Slash) = NoParts
      BY PartCloses DEF NoParts
    <3>2. 0 + 1 = 1 /\ 0 \in Nat
      OBVIOUS
    <3> QED
      BY <2>1, <2>2, <3>1, <3>2 DEF NoParts
<1>6. ASSUME NEW k \in 0 .. N - 1, k \in T PROVE k + 1 \in T
  <2>1. k + 1 \in 1 .. N /\ k + 1 \in 0 .. N /\ k + 1 \in DOMAIN DiskName
    BY <1>1 DEF Text
  <2>2. DiskName[k + 1] # Slash
    BY <2>1, PathConstants
  <2>3. g[(k + 1) + 1] = PartStep(g[k + 1], DiskName[k + 1])
    <3>1. s[k + 1 + 1] = DiskName[k + 1]
      BY <2>1 DEF NameHeads
    <3> QED
      BY <1>4, <2>1, <3>1
  <2>4. g[k + 1] = [all |-> <<>>, part |-> SubSeq(DiskName, 1, k)]
    BY <1>6
  <2>5. g[(k + 1) + 1] = [all |-> <<>>, part |-> Append(SubSeq(DiskName, 1, k), DiskName[k + 1])]
    <3>1. PICK c : c = DiskName[k + 1]
      OBVIOUS
    <3>2. PICK w : w = SubSeq(DiskName, 1, k)
      OBVIOUS
    <3>3. PICK q : q = g[k + 1]
      OBVIOUS
    <3>4. PICK p : p = g[(k + 1) + 1]
      OBVIOUS
    <3>5. c # Slash /\ q = [all |-> <<>>, part |-> w] /\ p = PartStep(q, c)
      BY <2>2, <2>3, <2>4, <3>1, <3>2, <3>3, <3>4
    <3>6. p = [all |-> <<>>, part |-> Append(w, c)]
      BY <3>5, NameGrows
    <3> QED
      BY <3>1, <3>2, <3>4, <3>6
  <2>6. Append(SubSeq(DiskName, 1, k), DiskName[k + 1]) = SubSeq(DiskName, 1, k + 1)
    BY <1>1, LongerPrefix DEF Text
  <2>7. k + 1 \in Nat
    OBVIOUS
  <2> QED
    BY <2>5, <2>6, <2>7
<1> HIDE DEF T
<1>7. N \in T
  <2>1. N \in 0 .. N
    BY <1>1
  <2> QED
    BY <1>1, <1>5, <1>6, <2>1, Induct
<1>8. SubSeq(DiskName, 1, N) = DiskName
  BY <1>1 DEF Text
<1>9. g[N + 1] = [all |-> <<>>, part |-> DiskName]
  BY <1>7, <1>8 DEF T
<1>10. g[(N + 1) + 1] = PartStep(g[N + 1], Append(s, Slash)[(N + 1) + 1])
  <2>1. N + 1 \in 0 .. Len(s)
    BY <1>1, <1>2
  <2> QED
    BY <2>1 DEF Scan
<1>11. (N + 1) + 1 = N + 2
  BY <1>1
<1>12. Append(<<>>, DiskName) = <<DiskName>>
  OBVIOUS
<1> QED
  <2>1. PartStep([all |-> <<>>, part |-> DiskName], Slash)
          = [all |-> Append(<<>>, DiskName), part |-> <<>>]
    BY PathConstants, PartCloses, Zenon
  <2>2. Append(s, Slash)[(N + 1) + 1] = Slash
    BY <1>11 DEF NameHeads
  <2> QED
    BY <1>9, <1>10, <1>11, <1>12, <2>1, <2>2, Zenon

LEMMA PrefixCharacters ==
  /\ Len(DiskPrefix) = Len(DiskName) + 1 /\ DiskPrefix[1] = Slash
  /\ \A k \in 1 .. Len(DiskName) : DiskPrefix[k + 1] = DiskName[k]
<1>1. DiskName \in Text /\ Len(DiskName) \in Nat /\ <<Slash>> \in Text /\ Len(<<Slash>>) = 1
  BY TextConstants, TextParts, SlashText
<1>2. /\ \A k \in 1 .. 1 : DiskPrefix[k] = <<Slash>>[k]
      /\ \A k \in 1 .. Len(DiskName) : DiskPrefix[1 + k] = DiskName[k]
  BY <1>1, TextConcat DEF DiskPrefix
<1>3. \A k \in 1 .. Len(DiskName) : 1 + k = k + 1
  BY <1>1
<1> QED
  BY <1>2, <1>3, PrefixText

LEMMA PartsOfPrefix == Parts(DiskPrefix) = <<DiskName>>
<1>1. DiskPrefix \in Text /\ Len(DiskPrefix) = Len(DiskName) + 1 /\ Len(DiskName) \in Nat
  BY PrefixText, TextConstants, TextParts
<1>2. PICK g : Scan(g, DiskPrefix)
  BY <1>1, PartsScan
<1>3. Append(DiskPrefix, Slash)[Len(DiskName) + 2] = Slash
  <2>1. Len(DiskPrefix) + 1 = Len(DiskName) + 2
    BY <1>1
  <2> QED
    BY <1>1, <2>1, Characters, TextAppend
<1>4. g[Len(DiskName) + 2] = [all |-> <<DiskName>>, part |-> <<>>]
  BY <1>1, <1>2, <1>3, PrefixCharacters, NameSeen DEF NameHeads
<1>5. Len(DiskPrefix) + 1 = Len(DiskName) + 2
  BY <1>1
<1> QED
  BY <1>2, <1>4, <1>5 DEF Scan

\* What follows the disk's name and a slash adds its parts to the name.
LEMMA PartsOnDisk ==
  ASSUME NEW t \in Text
  PROVE  Parts((DiskPrefix \o <<Slash>>) \o t) = <<DiskName>> \o Parts(t)
<1>1. PICK p \in Text : p = DiskPrefix \o <<Slash>>
  BY PrefixText, SlashText, TextConcat
<1>2. PICK s \in Text : s = p \o t
  BY TextConcat
<1>3. PICK L \in Nat : L = Len(DiskName)
  BY TextConstants, TextParts
<1>4. /\ Len(p) = L + 2 /\ p[L + 2] = Slash
      /\ \A k \in 1 .. L + 1 : p[k] = DiskPrefix[k]
  <2>1. Len(DiskPrefix) = L + 1 /\ DiskPrefix \in Text /\ <<Slash>> \in Text /\ Len(<<Slash>>) = 1
        /\ 1 \in 1 .. 1 /\ <<Slash>>[1] = Slash
    BY <1>3, PrefixText, SlashText
  <2>2. /\ Len(p) = Len(DiskPrefix) + Len(<<Slash>>)
        /\ \A k \in 1 .. Len(DiskPrefix) : p[k] = DiskPrefix[k]
        /\ \A k \in 1 .. Len(<<Slash>>) : p[Len(DiskPrefix) + k] = <<Slash>>[k]
    BY <1>1, <2>1, TextConcat
  <2>3. p[(L + 1) + 1] = Slash
    BY <2>1, <2>2
  <2>4. (L + 1) + 1 = L + 2
    OBVIOUS
  <2> QED
    BY <2>1, <2>2, <2>3, <2>4
<1>5. PICK M \in Nat : M = Len(t)
  BY TextParts
<1>6. /\ Len(s) = L + 2 + M
      /\ \A k \in 1 .. L + 2 : s[k] = p[k]
      /\ \A k \in 1 .. M : s[L + 2 + k] = t[k]
  <2>1. /\ Len(s) = Len(p) + Len(t)
        /\ \A k \in 1 .. Len(p) : s[k] = p[k]
        /\ \A k \in 1 .. Len(t) : s[Len(p) + k] = t[k]
    BY <1>2, TextConcat
  <2> QED
    BY <1>4, <1>5, <2>1
<1> DEFINE line == Append(s, Slash)
           tail == Append(t, Slash)
<1>7. /\ \A k \in 1 .. L + 2 + M : line[k] = s[k]
      /\ line[L + 2 + M + 1] = Slash
  <2>1. /\ \A k \in 1 .. Len(s) : line[k] = s[k]
        /\ line[Len(s) + 1] = Slash
    BY Characters, TextAppend
  <2> QED
    BY <1>6, <2>1
<1>8. /\ \A k \in 1 .. M : tail[k] = t[k]
      /\ tail[M + 1] = Slash
  BY <1>5, Characters, TextAppend
<1> HIDE DEF line, tail
<1>9. ASSUME NEW k \in 1 .. M + 1 PROVE line[L + 2 + k] = tail[k]
  <2>1. CASE k = M + 1
    <3>1. L + 2 + k = L + 2 + M + 1
      BY <2>1
    <3> QED
      BY <1>7, <1>8, <2>1, <3>1
  <2>2. CASE k # M + 1
    <3>1. k \in 1 .. M /\ L + 2 + k \in 1 .. L + 2 + M
      BY <2>2
    <3> QED
      BY <1>6, <1>7, <1>8, <3>1
  <2> QED
    BY <2>1, <2>2
<1>10. PICK g : Scan(g, s)
  BY PartsScan
<1>11. PICK h : Scan(h, t)
  BY PartsScan
<1>12. g[L + 2] = [all |-> <<DiskName>>, part |-> <<>>]
  <2>1. Len(s) >= L + 1 /\ 1 \in 1 .. L + 2 /\ 1 \in 1 .. L + 1 /\ L + 2 \in 1 .. L + 2
        /\ L + 2 \in 1 .. L + 2 + M
    BY <1>6
  <2>2. s[1] = Slash /\ line[L + 2] = Slash
    BY <1>4, <1>6, <1>7, <2>1, PrefixCharacters
  <2>3. \A k \in 1 .. L : s[k + 1] = DiskName[k]
    <3>1. \A k \in 1 .. L : k + 1 \in 1 .. L + 1 /\ k + 1 \in 1 .. L + 2
      OBVIOUS
    <3> QED
      BY <1>3, <1>4, <1>6, <3>1, PrefixCharacters
  <2> QED
    BY <1>3, <1>10, <2>1, <2>2, <2>3, NameSeen DEF line, NameHeads
<1> DEFINE Same(a, q, k) == /\ h[k] = [all |-> a, part |-> q]
                            /\ g[L + 2 + k] = [all |-> <<DiskName>> \o a, part |-> q]
           T == {k \in Nat : \E a \in Seq(Text) : \E q \in Text : Same(a, q, k)}
<1>13. 0 \in T
  <2>1. h[0] = NoParts /\ L + 2 + 0 = L + 2 /\ <<DiskName>> \o <<>> = <<DiskName>> /\ 0 \in Nat
    BY <1>11 DEF Scan
  <2>2. Same(<<>>, <<>>, 0)
    BY <1>12, <2>1 DEF NoParts
  <2>3. <<>> \in Seq(Text) /\ <<>> \in Text
    BY SlashText
  <2> QED
    BY <2>1, <2>2, <2>3
<1>14. ASSUME NEW k \in 0 .. (M + 1) - 1, k \in T PROVE k + 1 \in T
  <2>1. k \in 0 .. M /\ k + 1 \in 1 .. M + 1 /\ L + 2 + k \in 0 .. L + 2 + M
        /\ L + 2 + (k + 1) = (L + 2 + k) + 1 /\ k \in 0 .. M + 1 /\ k + 1 \in Nat
    OBVIOUS
  <2>2. PICK c : c = tail[k + 1]
    OBVIOUS
  <2>3. h[k + 1] = PartStep(h[k], c)
    BY <1>5, <1>11, <2>1, <2>2 DEF Scan, tail
  <2>4. g[(L + 2 + k) + 1] = PartStep(g[L + 2 + k], line[(L + 2 + k) + 1])
    BY <1>6, <1>10, <2>1 DEF Scan, line
  <2>5. line[(L + 2 + k) + 1] = c
    BY <1>9, <2>1, <2>2
  <2>6. g[L + 2 + (k + 1)] = PartStep(g[L + 2 + k], c)
    BY <2>1, <2>4, <2>5
  <2>7. PICK a \in Seq(Text), q \in Text : Same(a, q, k)
    BY <1>14
  <2>8. h[k] = [all |-> a, part |-> q] /\ g[L + 2 + k] = [all |-> <<DiskName>> \o a, part |-> q]
    BY <2>7
  <2>13. c \in Char
    <3>1. tail \in Text /\ Len(tail) = M + 1
      BY <1>5, Characters, TextAppend DEF tail
    <3> QED
      BY <2>1, <2>2, <3>1, TextParts
  <2>10. CASE c # Slash
    <3>10. PartStep([all |-> a, part |-> q], c) = [all |-> a, part |-> Append(q, c)]
      BY <2>10, PartGrows, Zenon
    <3>11. PartStep([all |-> <<DiskName>> \o a, part |-> q], c)
             = [all |-> <<DiskName>> \o a, part |-> Append(q, c)]
      BY <2>10, PartGrows, Zenon
    <3>1. h[k + 1] = [all |-> a, part |-> Append(q, c)]
      BY <2>3, <2>8, <3>10, Zenon
    <3>2. g[L + 2 + (k + 1)] = [all |-> <<DiskName>> \o a, part |-> Append(q, c)]
      BY <2>6, <2>8, <3>11, Zenon
    <3>3. Append(q, c) \in Text
      BY <2>13, TextAppend
    <3>4. Same(a, Append(q, c), k + 1)
      BY <3>1, <3>2
    <3> QED
      BY <2>1, <3>3, <3>4
  <2>11. CASE c = Slash /\ q = <<>>
    <3>10. PartStep([all |-> a, part |-> q], c) = [all |-> a, part |-> q]
      BY <2>11, PartCloses, Zenon
    <3>11. PartStep([all |-> <<DiskName>> \o a, part |-> q], c)
             = [all |-> <<DiskName>> \o a, part |-> q]
      BY <2>11, PartCloses, Zenon
    <3>1. h[k + 1] = [all |-> a, part |-> q]
      BY <2>3, <2>8, <3>10, Zenon
    <3>2. g[L + 2 + (k + 1)] = [all |-> <<DiskName>> \o a, part |-> q]
      BY <2>6, <2>8, <3>11, Zenon
    <3>3. Same(a, q, k + 1)
      BY <3>1, <3>2
    <3> QED
      BY <2>1, <3>3
  <2>12. CASE c = Slash /\ q # <<>>
    <3>10. PartStep([all |-> a, part |-> q], c) = [all |-> Append(a, q), part |-> <<>>]
      BY <2>12, PartCloses, Zenon
    <3>11. PartStep([all |-> <<DiskName>> \o a, part |-> q], c)
             = [all |-> Append(<<DiskName>> \o a, q), part |-> <<>>]
      BY <2>12, PartCloses, Zenon
    <3>1. h[k + 1] = [all |-> Append(a, q), part |-> <<>>]
      BY <2>3, <2>8, <3>10, Zenon
    <3>2. g[L + 2 + (k + 1)] = [all |-> Append(<<DiskName>> \o a, q), part |-> <<>>]
      BY <2>6, <2>8, <3>11, Zenon
    <3>3. Append(<<DiskName>> \o a, q) = <<DiskName>> \o Append(a, q)
      <4>1. <<DiskName>> \in Seq(Text) /\ <<DiskName>> \o a \in Seq(Text) /\ <<q>> \in Seq(Text)
        BY TextConstants
      <4>2. Append(a, q) = a \o <<q>> /\ Append(<<DiskName>> \o a, q) = (<<DiskName>> \o a) \o <<q>>
        BY <4>1, AppendIsConcat
      <4>3. (<<DiskName>> \o a) \o <<q>> = <<DiskName>> \o (a \o <<q>>)
        BY <4>1, ConcatAssociative
      <4> QED
        BY <4>2, <4>3
    <3>4. Same(Append(a, q), <<>>, k + 1)
      BY <3>1, <3>2, <3>3
    <3>5. Append(a, q) \in Seq(Text) /\ <<>> \in Text
      BY SlashText
    <3> QED
      BY <2>1, <3>4, <3>5
  <2> QED
    BY <2>10, <2>11, <2>12
<1> HIDE DEF T
<1>15. M + 1 \in T
  <2>1. M + 1 \in 0 .. M + 1
    OBVIOUS
  <2> QED
    BY <1>13, <1>14, <2>1, Induct
<1>16. L + 2 + (M + 1) = Len(s) + 1
  BY <1>6
<1>17. g[Len(s) + 1].all = <<DiskName>> \o h[M + 1].all
  <2>1. PICK a \in Seq(Text), q \in Text : Same(a, q, M + 1)
    BY <1>15 DEF T
  <2> QED
    BY <1>16, <2>1
<1>18. Parts(s) = <<DiskName>> \o Parts(t)
  BY <1>5, <1>10, <1>11, <1>17 DEF Scan
<1> QED
  BY <1>1, <1>2, <1>18

-----------------------------------------------------------------------------
(* Names of entries.                                                         *)

Names == [1 .. BaseLen + ExtLen -> Char]
Filling == [f : Names, j : Nat]
UpStep(acc, c) == IF acc.j >= BaseLen + ExtLen THEN acc
                  ELSE IF c = "." THEN [acc EXCEPT !.j = BaseLen]
                  ELSE [f |-> [acc.f EXCEPT ![acc.j + 1] = Upper(c)], j |-> acc.j + 1]
Blank == [f |-> Field(<<>>, <<>>), j |-> 0]

LEMMA BlankTypes == Blank \in Filling
<1>1. Field(<<>>, <<>>) \in Names
  <2>1. Len(<<>>) = 0 /\ " " \in Char /\ BaseLen \in Nat /\ ExtLen \in Nat
    BY PathConstants, Characters DEF Space
  <2>4. PICK b \in Nat, e \in Nat : b = BaseLen /\ e = ExtLen
    BY <2>1
  <2>2. \A i \in 1 .. BaseLen + ExtLen : ~(i <= 0) /\ ~(i > BaseLen /\ i - BaseLen <= 0)
    BY <2>4
  <2>3. Field(<<>>, <<>>) = [i \in 1 .. BaseLen + ExtLen |-> " "]
    BY <2>1, <2>2 DEF Field
  <2> QED
    BY <2>1, <2>3 DEF Names
<1> QED
  BY <1>1 DEF Filling, Blank

LEMMA UpperText ==
  ASSUME NEW c \in Char
  PROVE  Upper(c) \in Char
BY PathConstants DEF Upper, Char

LEMMA UpStepTypes ==
  ASSUME NEW acc \in Filling, NEW c \in Char
  PROVE  UpStep(acc, c) \in Filling
<1>1. acc.f \in Names /\ acc.j \in Nat /\ BaseLen \in Nat /\ ExtLen \in Nat
  BY PathConstants DEF Filling
<1>2. CASE acc.j >= BaseLen + ExtLen
  BY <1>2 DEF UpStep
<1>3. CASE ~(acc.j >= BaseLen + ExtLen) /\ c = "."
  <2>1. UpStep(acc, c) = [f |-> acc.f, j |-> BaseLen]
    BY <1>3 DEF UpStep, Filling
  <2> QED
    BY <1>1, <2>1 DEF Filling
<1>4. CASE ~(acc.j >= BaseLen + ExtLen) /\ c # "."
  <2>1. UpStep(acc, c) = [f |-> [acc.f EXCEPT ![acc.j + 1] = Upper(c)], j |-> acc.j + 1]
    BY <1>4 DEF UpStep
  <2>2. [acc.f EXCEPT ![acc.j + 1] = Upper(c)] \in Names
    BY <1>1, UpperText DEF Names
  <2> QED
    BY <1>1, <2>1, <2>2 DEF Filling
<1> QED
  BY <1>2, <1>3, <1>4

IsFilling(g, name) ==
  g = [n \in 0 .. Len(name) |-> IF n = 0 THEN Blank ELSE UpStep(g[n - 1], name[n])]

LEMMA FillingExists ==
  ASSUME NEW name \in Text
  PROVE  \E g : IsFilling(g, name)
<1> DEFINE N    == Len(name)
           step == [x \in Filling \X (1 .. N) |-> UpStep(x[1], name[x[2]])]
<1>1. N \in Nat /\ \A k \in 1 .. N : name[k] \in Char
  BY TextParts
<1>2. \A x \in Filling : \A k \in 1 .. N : step[<<x, k>>] = UpStep(x, name[k])
  OBVIOUS
<1> HIDE DEF step
<1>3. \A x \in Filling : \A k \in 1 .. N : step[<<x, k>>] \in Filling
  BY <1>1, <1>2, UpStepTypes
<1>4. PICK g \in [0 .. N -> Filling] : Runs(g, Blank, step, N)
  BY <1>1, <1>3, BlankTypes, Recursion
<1>5. ASSUME NEW n \in 0 .. N
      PROVE  g[n] = IF n = 0 THEN Blank ELSE UpStep(g[n - 1], name[n])
  <2>1. CASE n = 0
    BY <1>4, <2>1 DEF Runs
  <2>2. CASE n # 0
    <3>1. n \in 1 .. N /\ n - 1 \in 0 .. N
      BY <1>1, <2>2
    <3>2. g[n] = step[<<g[n - 1], n>>] /\ g[n - 1] \in Filling
      BY <1>4, <3>1 DEF Runs
    <3> QED
      BY <1>2, <2>2, <3>1, <3>2
  <2> QED
    BY <2>1, <2>2
<1>6. g = [n \in 0 .. N |-> g[n]]
  OBVIOUS
<1>7. IsFilling(g, name)
  BY <1>5, <1>6 DEF IsFilling
<1> QED
  BY <1>7

LEMMA NameOfText ==
  ASSUME NEW name \in Text
  PROVE  up11(name) \in Names /\ Len(up11(name)) = BaseLen + ExtLen
<1>1. \E g : IsFilling(g, name) /\ up11(name) = g[Len(name)].f
  BY FillingExists, Zenon DEF up11, IsFilling, UpStep, Blank
<1>2. PICK g : IsFilling(g, name) /\ up11(name) = g[Len(name)].f
  BY <1>1
<1>3. Len(name) \in Nat /\ \A k \in 1 .. Len(name) : name[k] \in Char
  BY TextParts
<1> DEFINE T == {n \in Nat : g[n] \in Filling}
<1>4. 0 \in T
  <2>1. g[0] = Blank
    BY <1>2, <1>3 DEF IsFilling
  <2> QED
    BY <2>1, BlankTypes
<1>5. ASSUME NEW n \in 0 .. Len(name) - 1, n \in T PROVE n + 1 \in T
  <2>1. n + 1 \in 0 .. Len(name) /\ n + 1 # 0 /\ (n + 1) - 1 = n /\ n + 1 \in 1 .. Len(name)
    BY <1>3
  <2>2. g[n + 1] = UpStep(g[n], name[n + 1])
    BY <1>2, <2>1 DEF IsFilling
  <2>3. g[n + 1] \in Filling
    BY <1>3, <1>5, <2>1, <2>2, UpStepTypes
  <2> QED
    BY <2>1, <2>3
<1> HIDE DEF T
<1>6. Len(name) \in T
  <2>1. Len(name) \in 0 .. Len(name)
    BY <1>3
  <2> QED
    BY <1>3, <1>4, <1>5, <2>1, Induct
<1>7. up11(name) \in Names
  BY <1>2, <1>6 DEF T, Filling
<1>8. BaseLen + ExtLen \in Nat
  BY PathConstants
<1> QED
  BY <1>7, <1>8, LenProperties DEF Names

-----------------------------------------------------------------------------
(* Walking the disk's tree.                                                  *)

Node == {DirNode(d) : d \in Dirs} \cup {FileNode(f) : f \in DOMAIN files} \cup {NoNode}

LEMMA NodeKinds ==
  ASSUME NEW node \in Node, node[1] = "dir"
  PROVE  node[2] \in Dirs /\ node = DirNode(node[2])
BY DEF Node, DirNode, FileNode, NoNode

LEMMA LookupNode ==
  ASSUME NEW node \in Node, NEW c
  PROVE  /\ Lookup(node, c) \in Node
         /\ Lookup(node, c)[1] = "dir" =>
              node[1] = "dir" /\ Lookup(node, c) = DirNode(Append(node[2], up11(c)))
<1>1. CASE node[1] = "dir" /\ Append(node[2], up11(c)) \in Dirs
  <2>1. Lookup(node, c) = DirNode(Append(node[2], up11(c)))
    BY <1>1, Zenon DEF Lookup
  <2> QED
    BY <1>1, <2>1 DEF Node
<1>2. CASE node[1] = "dir" /\ Append(node[2], up11(c)) \notin Dirs
        /\ <<node[2], up11(c)>> \in DOMAIN files
  <2>1. Lookup(node, c) = FileNode(<<node[2], up11(c)>>)
    BY <1>2 DEF Lookup
  <2>2. Lookup(node, c)[1] # "dir"
    BY <2>1 DEF FileNode
  <2> QED
    BY <1>2, <2>1, <2>2 DEF Node
<1>3. CASE /\ ~(node[1] = "dir" /\ Append(node[2], up11(c)) \in Dirs)
           /\ ~(node[1] = "dir" /\ Append(node[2], up11(c)) \notin Dirs
              /\ <<node[2], up11(c)>> \in DOMAIN files)
  <2>1. Lookup(node, c) = NoNode
    BY <1>3 DEF Lookup
  <2>2. Lookup(node, c)[1] # "dir"
    BY <2>1 DEF NoNode
  <2> QED
    BY <2>1, <2>2 DEF Node
<1> QED
  BY <1>1, <1>2, <1>3

IsWalk(g, parts) ==
  g = [k \in 0 .. Len(parts) |-> IF k = 0 THEN DirNode(<<>>) ELSE Lookup(g[k - 1], parts[k])]

LEMMA RootNode == DirNode(<<>>) \in Node
BY ShellConstants DEF Node

LEMMA WalkExists ==
  ASSUME NEW parts \in Seq(Text)
  PROVE  \E g : IsWalk(g, parts)
<1> DEFINE N    == Len(parts)
           step == [x \in Node \X (1 .. N) |-> Lookup(x[1], parts[x[2]])]
<1>1. N \in Nat
  OBVIOUS
<1>2. \A x \in Node : \A k \in 1 .. N : step[<<x, k>>] = Lookup(x, parts[k])
  OBVIOUS
<1> HIDE DEF step
<1>3. \A x \in Node : \A k \in 1 .. N : step[<<x, k>>] \in Node
  BY <1>2, LookupNode
<1>4. PICK g \in [0 .. N -> Node] : Runs(g, DirNode(<<>>), step, N)
  BY <1>1, <1>3, RootNode, Recursion
<1>5. ASSUME NEW n \in 0 .. N
      PROVE  g[n] = IF n = 0 THEN DirNode(<<>>) ELSE Lookup(g[n - 1], parts[n])
  <2>1. CASE n = 0
    BY <1>4, <2>1 DEF Runs
  <2>2. CASE n # 0
    <3>1. n \in 1 .. N /\ n - 1 \in 0 .. N
      BY <1>1, <2>2
    <3>2. g[n] = step[<<g[n - 1], n>>] /\ g[n - 1] \in Node
      BY <1>4, <3>1 DEF Runs
    <3> QED
      BY <1>2, <2>2, <3>1, <3>2
  <2> QED
    BY <2>1, <2>2
<1>6. g = [n \in 0 .. N |-> g[n]]
  OBVIOUS
<1>7. IsWalk(g, parts)
  BY <1>5, <1>6 DEF IsWalk
<1> QED
  BY <1>7

Fields(parts) == [k \in DOMAIN parts |-> up11(parts[k])]

LEMMA FieldsSeq ==
  ASSUME NEW parts \in Seq(Text)
  PROVE  Fields(parts) \in Seq(Names) /\ Len(Fields(parts)) = Len(parts)
         /\ \A k \in 1 .. Len(parts) : Fields(parts)[k] = up11(parts[k])
<1>1. DOMAIN parts = 1 .. Len(parts) /\ Len(parts) \in Nat
        /\ \A k \in 1 .. Len(parts) : parts[k] \in Text
  OBVIOUS
<1>2. Fields(parts) \in [1 .. Len(parts) -> Names]
  BY <1>1, NameOfText DEF Fields
<1> QED
  BY <1>1, <1>2, SeqDef, LenProperties DEF Fields

\* A walk that ends in a directory ends in the one of the fields' names.
LEMMA WalkEnds ==
  ASSUME NEW parts \in Seq(Text)
  PROVE  /\ Walk(parts) \in Node
         /\ Walk(parts)[1] = "dir" => Walk(parts) = DirNode(Fields(parts)) /\ Fields(parts) \in Dirs
<1> DEFINE N == Len(parts)
           u == Fields(parts)
<1>1. \E g : IsWalk(g, parts) /\ Walk(parts) = g[N]
  BY WalkExists, Zenon DEF Walk, IsWalk
<1>2. PICK g : IsWalk(g, parts) /\ Walk(parts) = g[N]
  BY <1>1
<1>3. N \in Nat /\ u \in Seq(Names) /\ Len(u) = N /\ \A k \in 1 .. N : u[k] = up11(parts[k])
  BY FieldsSeq
<1> HIDE DEF u
<1> DEFINE T == {k \in Nat : g[k] \in Node /\ (g[k][1] = "dir" => g[k] = DirNode(SubSeq(u, 1, k)))}
<1>4. 0 \in T
  <2>1. g[0] = DirNode(<<>>)
    BY <1>2, <1>3 DEF IsWalk
  <2>2. SubSeq(u, 1, 0) = <<>>
    BY SubSeqEmpty
  <2> QED
    BY <2>1, <2>2, RootNode
<1>5. ASSUME NEW k \in 0 .. N - 1, k \in T PROVE k + 1 \in T
  <2>1. k + 1 \in 0 .. N /\ k + 1 # 0 /\ (k + 1) - 1 = k /\ k + 1 \in 1 .. N
    BY <1>3
  <2>2. g[k + 1] = Lookup(g[k], parts[k + 1])
    BY <1>2, <2>1 DEF IsWalk
  <2>3. g[k + 1] \in Node
    BY <1>5, <2>2, LookupNode
  <2>4. ASSUME g[k + 1][1] = "dir" PROVE g[k + 1] = DirNode(SubSeq(u, 1, k + 1))
    <3>1. g[k][1] = "dir" /\ g[k + 1] = DirNode(Append(g[k][2], up11(parts[k + 1])))
      BY <1>5, <2>2, <2>4, LookupNode
    <3>2. g[k] = DirNode(SubSeq(u, 1, k))
      BY <1>5, <3>1
    <3>3. g[k][2] = SubSeq(u, 1, k) /\ u[k + 1] = up11(parts[k + 1])
      BY <1>3, <2>1, <3>2 DEF DirNode
    <3>4. Append(SubSeq(u, 1, k), u[k + 1]) = SubSeq(u, 1, k + 1)
      BY <1>3, LongerPrefix
    <3> QED
      BY <3>1, <3>3, <3>4
  <2> QED
    BY <2>1, <2>3, <2>4
<1> HIDE DEF T
<1>6. N \in T
  <2>1. N \in 0 .. N
    BY <1>3
  <2> QED
    BY <1>3, <1>4, <1>5, <2>1, Induct
<1>7. SubSeq(u, 1, N) = u
  BY <1>3, SubSeqFull
<1>8. g[N] \in Node /\ (g[N][1] = "dir" => g[N] = DirNode(u))
  BY <1>6, <1>7 DEF T
<1>9. g[N][1] = "dir" => u \in Dirs
  <2>1. \A d : DirNode(d)[2] = d
    BY DEF DirNode
  <2> QED
    BY <1>8, <2>1, NodeKinds
<1> QED
  BY <1>2, <1>8, <1>9 DEF u

IsDirectory(comps) == Fields(comps) \in Dirs

LEMMA FindDirectory ==
  ASSUME NEW comps, IsDirectory(comps)
  PROVE  Find(comps)[1] = "dir"
BY DEF IsDirectory, Fields, Find, DirNode

LEMMA RootIsDirectory == OnDisk(<<>>) = <<>> /\ OnDisk(<<DiskName>>) = <<>> /\ IsDirectory(<<>>)
<1>1. OnDisk(<<>>) = <<>>
  BY DEF OnDisk, UnderDisk
<1>2. OnDisk(<<DiskName>>) = <<>>
  BY DEF OnDisk, UnderDisk
<1>3. Fields(<<>>) = <<>>
  BY DEF Fields
<1> QED
  BY <1>1, <1>2, <1>3, ShellConstants DEF IsDirectory

LEMMA BelowDisk ==
  ASSUME NEW parts \in Seq(Text)
  PROVE  OnDisk(<<DiskName>> \o parts) = parts
<1>1. DiskName \in Text
  BY TextConstants
<1>2. <<DiskName>> \o parts # <<>> /\ (<<DiskName>> \o parts)[1] = DiskName
  BY <1>1
<1>3. Tail(<<DiskName>> \o parts) = parts
  BY <1>1
<1> QED
  BY <1>2, <1>3 DEF OnDisk, UnderDisk

-----------------------------------------------------------------------------
(* The working directory.                                                    *)

CwdInv ==
  /\ cwd \in Text /\ Len(cwd) < Cap
  /\ IF mounted THEN IsDirectory(OnDisk(Parts(cwd))) ELSE cwd = <<Slash>>

LEMMA TargetText ==
  ASSUME CwdInv, NEW arg \in Text
  PROVE  Target(arg) \in Text /\ Len(Target(arg)) < Cap
BY ResolvedText, DiskAbsText DEF CwdInv, Target

LEMMA CdKeeps ==
  ASSUME CwdInv, NEW arg \in Args, Cd(arg), mounted' = mounted
  PROVE  CwdInv'
<1> DEFINE tmp == Target(IF arg = <<>> THEN <<Slash>> ELSE arg)
           sub == disk_subpath(tmp)
           t   == One(sub)
<1>1. tmp \in Text /\ Len(tmp) < Cap
  BY TextConstants, SlashText, TargetText
<1>2. CASE UNCHANGED cwd
  BY <1>2 DEF CwdInv
<1>3. CASE mounted /\ sub # {} /\ fat32_is_dir_path(One(sub))
           /\ cwd' = (IF One(sub) \in {<<>>, <<Slash>>} THEN DiskPrefix ELSE tmp)
  <2> HIDE DEF tmp
  <2>1. t \in Text /\ (t = <<Slash>> \/ tmp = (DiskPrefix \o <<Slash>>) \o t)
    BY <1>1, <1>3, SubpathText
  <2>2. CASE t \in {<<>>, <<Slash>>}
    <3>1. cwd' = DiskPrefix
      BY <1>3, <2>2
    <3>2. IsDirectory(OnDisk(Parts(DiskPrefix)))
      BY PartsOfPrefix, RootIsDirectory
    <3> QED
      BY <1>3, <3>1, <3>2, PrefixText DEF CwdInv
  <2>3. CASE t \notin {<<>>, <<Slash>>}
    <3> HIDE DEF t
    <3>1. cwd' = tmp /\ tmp = (DiskPrefix \o <<Slash>>) \o t
      BY <1>3, <2>1, <2>3 DEF t
    <3>2. Parts(t) \in Seq(Text) /\ Parts(tmp) = <<DiskName>> \o Parts(t)
      BY <2>1, <3>1, PartsText, PartsOnDisk
    <3>3. Walk(Parts(t))[1] = "dir"
      BY <1>3 DEF fat32_is_dir_path, t
    <3>4. IsDirectory(Parts(t))
      BY <3>2, <3>3, WalkEnds DEF IsDirectory
    <3>5. OnDisk(Parts(tmp)) = Parts(t)
      BY <3>2, BelowDisk
    <3> QED
      BY <1>1, <1>3, <3>1, <3>4, <3>5 DEF CwdInv
  <2> QED
    BY <2>2, <2>3
<1> QED
  BY <1>2, <1>3 DEF Cd

LEMMA PartsOfSlash == Parts(<<Slash>>) = <<>>
<1>1. PICK g : Scan(g, <<Slash>>)
  BY SlashText, PartsScan
<1>2. Len(<<Slash>>) = 1 /\ <<Slash>> \in Text /\ 0 \in 0 .. 1 /\ 1 \in 0 .. 1 /\ 0 + 1 = 1
        /\ 1 + 1 = 2
  BY SlashText
<1>3. Append(<<Slash>>, Slash)[1] = Slash /\ Append(<<Slash>>, Slash)[2] = Slash
  BY <1>2
<1>4. PartStep(NoParts, Slash) = NoParts
  BY PartCloses DEF NoParts
<1>5. g[1] = NoParts
  BY <1>1, <1>2, <1>3, <1>4 DEF Scan
<1>6. g[2] = NoParts
  BY <1>1, <1>2, <1>3, <1>4, <1>5 DEF Scan
<1>7. Parts(<<Slash>>) = g[2].all
  BY <1>1, <1>2 DEF Scan
<1> QED
  BY <1>6, <1>7 DEF NoParts

\* The root before a volume is mounted is the root of the volume.
LEMMA MountedRoot ==
  ASSUME CwdInv, UNCHANGED cwd, mounted' = mounted \/ mounted' = TRUE
  PROVE  CwdInv'
<1>1. cwd = <<Slash>> => IsDirectory(OnDisk(Parts(cwd)))
  BY PartsOfSlash, RootIsDirectory
<1>2. cwd' = cwd
  OBVIOUS
<1>3. cwd' \in Text /\ Len(cwd') < Cap
  BY <1>2 DEF CwdInv
<1>4. CASE mounted'
  BY <1>1, <1>2, <1>3, <1>4 DEF CwdInv
<1>5. CASE ~mounted'
  BY <1>2, <1>3, <1>5 DEF CwdInv
<1> QED
  BY <1>4, <1>5

-----------------------------------------------------------------------------
(* Files.                                                                    *)

FilesInv ==
  /\ saves \in Nat
  /\ \A f \in DOMAIN files : /\ f[1] \in Dirs /\ Append(f[1], f[2]) \notin Dirs
                             /\ Len(f[2]) = BaseLen + ExtLen /\ files[f] \in 0 .. saves
  /\ DOMAIN saved \subseteq SavePaths /\ \A p \in DOMAIN saved : saved[p] \in 1 .. saves

LEMMA SavedToText ==
  ASSUME NEW path \in Text, path # <<>>, SavedTo(path) # {}
  PROVE  One(SavedTo(path)) \in Text
<1> DEFINE whole == IF path[1] = Slash THEN Cut(path, Cap)
      ELSE Cut(DiskPrefix \o <<Slash>> \o path, Cap)
           abs  == force_disk_abs(whole)
           rest == SubSeq(abs, Len(DiskPrefix) + 1, Len(abs))
           s    == IF rest # <<>> /\ rest[1] = Slash THEN Tail(rest) ELSE rest
<1>0. Cap \in Nat \ {0}
  BY PathConstants
<1>1. DiskPrefix \in Text /\ DiskPrefix \o <<Slash>> \in Text /\ BinName \in Text
  BY PrefixText, SlashText, TextConcat, TextConstants
<1>2. Cut(path, Cap) \in Text /\ Cut(DiskPrefix \o <<Slash>> \o path, Cap) \in Text
  BY <1>0, <1>1, TextConcat, CutText
<1>3. abs \in Text
  BY <1>2, DiskAbsText
<1>4. SavedTo(path) = IF Redirected(s) THEN disk_subpath(Cut(BinDir \o s, Cap))
        ELSE disk_subpath(abs)
  BY Zenon DEF SavedTo
<1> HIDE DEF abs
<1>5. rest \in Text
  <2>1. Len(abs) \in Nat /\ Len(DiskPrefix) \in Nat
    BY <1>1, <1>3, TextParts
  <2>2. \A k \in Len(DiskPrefix) + 1 .. Len(abs) : k \in 1 .. Len(abs) /\ abs[k] \in Char
    BY <1>3, <2>1, TextParts
  <2> QED
    BY <2>1, <2>2, SubSeqProperties DEF Text
<1> HIDE DEF rest
<1>6. s \in Text
  BY <1>5, TextParts
<1> HIDE DEF s
<1>7. BinDir \in Text
  <2>1. (DiskPrefix \o <<Slash>>) \o BinName \in Text
    BY <1>1, TextConcat
  <2> QED
    BY <2>1, SlashText, TextConcat DEF BinDir
<1>8. Cut(BinDir \o s, Cap) \in Text
  BY <1>0, <1>6, <1>7, TextConcat, CutText
<1> QED
  BY <1>3, <1>4, <1>8, SubpathText

LEMMA SaveFiles ==
  ASSUME FilesInv, NEW path \in SavePaths, Save(path)
  PROVE  FilesInv'
<1> DEFINE parts == Parts(One(SavedTo(path)))
           dir   == Walk(Front(parts))[2]
           field == up11(Last(parts))
<1>1. path \in Text /\ path # <<>> /\ SavedTo(path) # {}
  BY TextConstants DEF Save
<1>2. parts \in Seq(Text)
  BY <1>1, SavedToText, PartsText
<1>3. /\ parts # <<>> /\ Walk(Front(parts))[1] = "dir"
      /\ Append(dir, field) \notin Dirs
      /\ files' = With(files, <<dir, field>>, saves + 1)
      /\ saves' = saves + 1 /\ saved' = With(saved, path, saves + 1)
  BY DEF Save
<1>4. dir \in Dirs /\ Len(field) = BaseLen + ExtLen
  <2> HIDE DEF parts
  <2>1. Front(parts) \in Seq(Text) /\ Last(parts) \in Text
    <3>1. Len(parts) \in Nat /\ Len(parts) >= 1 /\ \A k \in 1 .. Len(parts) : parts[k] \in Text
      BY <1>2, <1>3
    <3>2. \A k \in 1 .. Len(parts) - 1 : parts[k] \in Text
      BY <3>1
    <3>3. Last(parts) \in Text
      BY <3>1 DEF Last
    <3>4. Front(parts) \in Seq(Text)
      BY <3>1, <3>2, SubSeqProperties DEF Front
    <3> QED
      BY <3>3, <3>4
  <2>2. Walk(Front(parts)) \in Node
    BY <2>1, WalkEnds
  <2> QED
    BY <1>3, <2>1, <2>2, NodeKinds, NameOfText
<1> HIDE DEF dir, field, parts
<1>5. PICK n \in Nat : n = saves
  BY DEF FilesInv
<1>6. ASSUME NEW f \in DOMAIN files'
      PROVE  /\ f[1] \in Dirs /\ Append(f[1], f[2]) \notin Dirs
             /\ Len(f[2]) = BaseLen + ExtLen /\ files'[f] \in 0 .. saves'
  <2>1. CASE f = <<dir, field>>
    <3>1. files'[f] = n + 1
      BY <1>3, <1>5, <2>1 DEF With
    <3>2. f[1] = dir /\ f[2] = field
      BY <2>1
    <3> QED
      BY <1>3, <1>4, <1>5, <3>1, <3>2
  <2>2. CASE f # <<dir, field>>
    <3>1. f \in DOMAIN files /\ files'[f] = files[f]
      BY <1>3, <2>2 DEF With
    <3>2. files[f] \in 0 .. n
      BY <1>5, <3>1 DEF FilesInv
    <3> QED
      BY <1>3, <1>5, <3>1, <3>2 DEF FilesInv
  <2> QED
    BY <2>1, <2>2
<1>7. ASSUME NEW p \in DOMAIN saved'
      PROVE  p \in SavePaths /\ saved'[p] \in 1 .. saves'
  <2>1. CASE p = path
    BY <1>3, <1>5, <2>1 DEF With
  <2>2. CASE p # path
    <3>1. p \in DOMAIN saved /\ saved'[p] = saved[p]
      BY <1>3, <2>2 DEF With
    <3>2. p \in SavePaths /\ saved[p] \in 1 .. n
      BY <1>5, <3>1 DEF FilesInv
    <3> QED
      BY <1>3, <1>5, <3>1, <3>2
  <2> QED
    BY <2>1, <2>2
<1> QED
  BY <1>3, <1>5, <1>6, <1>7 DEF FilesInv

ShellInv == DiskInv /\ CwdInv /\ FilesInv

LEMMA InitShell == Init => ShellInv
<1> SUFFICES ASSUME Init PROVE ShellInv
  OBVIOUS
<1>1. CwdInv
  BY SlashText, PathConstants, PrefixText, TextConstants, TextParts DEF Init, SetupInit, CwdInv
<1>2. FilesInv
  BY ShellConstants DEF Init, FilesInv
<1> QED
  BY <1>1, <1>2, InitDisk DEF ShellInv

LEMMA FilesSame ==
  ASSUME FilesInv, UNCHANGED <<files, saved, saves>>
  PROVE  FilesInv'
BY DEF FilesInv

LEMMA CwdSame ==
  ASSUME CwdInv, UNCHANGED <<cwd, mounted>>
  PROVE  CwdInv'
BY DEF CwdInv

\* disk_setup may mount a volume; it does not touch the shell.
LEMMA BootMounts ==
  ASSUME SetupStep
  PROVE  mounted' = mounted \/ mounted' = TRUE
<1>1. CASE ProbeSlave \/ ProbeMaster \/ ReadTable
  BY <1>1 DEF ProbeSlave, ProbeMaster, ReadTable
<1>2. CASE Mount
  BY <1>2 DEF Mount
<1> QED
  BY <1>1, <1>2 DEF SetupStep

LEMMA CommandShell ==
  ASSUME CwdInv, FilesInv, Command
  PROVE  CwdInv' /\ FilesInv'
<1> PICK arg \in Args : Cd(arg) \/ Ls(arg) \/ Cat(arg) \/ (\E rest \in Rests : Run(arg, rest))
                        \/ Program(arg, <<>>)
  BY DEF Command
<1>1. CASE Cd(arg)
  <2>1. UNCHANGED <<mounted, files, saved, saves>>
    BY <1>1 DEF Cd, Answer
  <2> QED
    BY <1>1, <2>1, CdKeeps, FilesSame
<1>2. CASE ~Cd(arg)
  <2>1. UNCHANGED <<cwd, mounted, files, saved, saves>>
    BY <1>2 DEF Ls, Cat, Run, Program, Answer
  <2> QED
    BY <2>1, CwdSame, FilesSame
<1> QED
  BY <1>1, <1>2

LEMMA NextShell ==
  ASSUME ShellInv, [Next]_vars
  PROVE  ShellInv'
<1>1. DiskInv'
  BY NextDisk DEF ShellInv
<1>2. CASE Boot
  <2>1. UNCHANGED <<cwd, files, saved, saves>> /\ SetupStep
    BY <1>2 DEF Boot, shell
  <2> QED
    BY <1>1, <2>1, BootMounts, MountedRoot, FilesSame DEF ShellInv
<1>3. CASE Prompt \/ Exit \/ UNCHANGED vars
  <2>1. UNCHANGED <<cwd, mounted, files, saved, saves>>
    BY <1>3 DEF Prompt, Exit, vars, shell, setup
  <2> QED
    BY <1>1, <2>1, CwdSame, FilesSame DEF ShellInv
<1>4. CASE Command
  BY <1>1, <1>4, CommandShell DEF ShellInv
<1>5. CASE \E path \in SavePaths : Save(path)
  <2>1. PICK path \in SavePaths : Save(path)
    BY <1>5
  <2>2. UNCHANGED <<cwd, mounted>>
    BY <2>1 DEF Save, setup
  <2> QED
    BY <1>1, <2>1, <2>2, CwdSame, SaveFiles DEF ShellInv
<1> QED
  BY <1>2, <1>3, <1>4, <1>5 DEF Next

LEMMA ShellAlways == Spec => []ShellInv
BY InitShell, NextShell, PTL DEF Spec

\* The shell's buffers hold whatever is typed, and every file lies in a
\* directory, under a whole name, with the content of a save that was made.
THEOREM ShellTypes == Spec => []TypeOK
<1>1. ShellInv => TypeOK
  BY DEF ShellInv, DiskInv, SetupTypes, CwdInv, FilesInv, TypeOK
<1> QED
  BY <1>1, ShellAlways, PTL

\* No sequence of commands leaves the working directory at a file or at
\* nothing: cd walks below the disk before it sets it, and the text it then has
\* means the directory that was walked to (commands.c:231-253).
THEOREM CwdStaysDirectory == Spec => []CwdIsDirectory
<1>1. ShellInv => CwdIsDirectory
  BY FindDirectory DEF ShellInv, CwdInv, CwdIsDirectory
<1> QED
  BY <1>1, ShellAlways, PTL

-----------------------------------------------------------------------------
(* What the loop of Parts has seen after a text: a function of the text.     *)

Sight(s) == (CHOOSE g : Scan(g, s))[Len(s)]

LEMMA ScansAgree ==
  ASSUME NEW s \in Text, NEW c \in Char, NEW g, NEW h, Scan(g, s), Scan(h, Append(s, c))
  PROVE  \A k \in 0 .. Len(s) : h[k] = g[k]
<1> DEFINE T == {k \in Nat : h[k] = g[k]}
<1>1. Len(s) \in Nat /\ Append(s, c) \in Text /\ Len(Append(s, c)) = Len(s) + 1
  BY TextParts, TextAppend
<1>2. 0 \in T
  BY DEF Scan
<1>3. ASSUME NEW k \in 0 .. Len(s) - 1, k \in T PROVE k + 1 \in T
  <2>1. k \in 0 .. Len(s) /\ k \in 0 .. Len(s) + 1 /\ k + 1 \in 1 .. Len(s)
          /\ k + 1 \in 1 .. Len(s) + 1
    BY <1>1
  <2>2. Append(s, Slash)[k + 1] = s[k + 1]
    BY <2>1, Characters, TextAppend
  <2>3. Append(Append(s, c), Slash)[k + 1] = Append(s, c)[k + 1] /\ Append(s, c)[k + 1] = s[k + 1]
    BY <1>1, <2>1, Characters, TextAppend
  <2>4. g[k + 1] = PartStep(g[k], s[k + 1])
    BY <2>1, <2>2 DEF Scan
  <2>5. h[k + 1] = PartStep(h[k], s[k + 1])
    BY <1>1, <2>1, <2>3 DEF Scan
  <2> QED
    BY <1>3, <2>4, <2>5
<1> HIDE DEF T
<1>4. \A k \in 0 .. Len(s) : k \in T
  BY <1>1, <1>2, <1>3, Induct
<1> QED
  BY <1>4 DEF T

LEMMA SightScan ==
  ASSUME NEW s \in Text
  PROVE  \E g : Scan(g, s) /\ Sight(s) = g[Len(s)]
<1>1. \E g : Scan(g, s)
  BY PartsScan
<1>2. Scan(CHOOSE g : Scan(g, s), s)
  BY <1>1
<1> QED
  BY <1>2 DEF Sight

LEMMA SightParts ==
  ASSUME NEW s \in Text
  PROVE  Sight(s) \in PartState /\ Parts(s) = PartStep(Sight(s), Slash).all
<1>1. PICK g : Scan(g, s) /\ Sight(s) = g[Len(s)]
  BY SightScan
<1>2. Len(s) \in Nat /\ Len(s) \in 0 .. Len(s) /\ Len(s) \in 0 .. Len(s) + 1
  BY TextParts
<1>3. Append(s, Slash)[Len(s) + 1] = Slash
  BY Characters, TextAppend
<1>4. g[Len(s) + 1] = PartStep(g[Len(s)], Slash)
  BY <1>1, <1>2, <1>3 DEF Scan
<1> QED
  BY <1>1, <1>2, <1>4 DEF Scan

LEMMA SightEmpty == Sight(<<>>) = NoParts
<1>1. PICK g : Scan(g, <<>>) /\ Sight(<<>>) = g[Len(<<>>)]
  BY SlashText, SightScan
<1> QED
  BY <1>1 DEF Scan

LEMMA SightAppend ==
  ASSUME NEW s \in Text, NEW c \in Char
  PROVE  Sight(Append(s, c)) = PartStep(Sight(s), c)
<1>1. PICK g : Scan(g, s) /\ Sight(s) = g[Len(s)]
  BY SightScan
<1>2. Append(s, c) \in Text /\ Len(Append(s, c)) = Len(s) + 1 /\ Append(s, c)[Len(s) + 1] = c
        /\ Len(s) \in Nat
  BY TextAppend, TextParts
<1>3. PICK h : Scan(h, Append(s, c)) /\ Sight(Append(s, c)) = h[Len(Append(s, c))]
  BY <1>2, SightScan
<1>4. h[Len(s)] = g[Len(s)]
  BY <1>1, <1>2, <1>3, ScansAgree
<1>5. Append(Append(s, c), Slash)[Len(s) + 1] = c
  <2>1. Len(s) + 1 \in 1 .. Len(Append(s, c))
    BY <1>2
  <2> QED
    BY <1>2, <2>1, Characters, TextAppend
<1>6. h[Len(s) + 1] = PartStep(h[Len(s)], c)
  <2>1. Len(s) \in 0 .. Len(Append(s, c))
    BY <1>2
  <2> QED
    BY <1>3, <1>5, <2>1 DEF Scan
<1> QED
  BY <1>1, <1>2, <1>3, <1>4, <1>6

\* The same, one character further into a text.
LEMMA SightNext ==
  ASSUME NEW s \in Text, NEW k \in 0 .. Len(s) - 1
  PROVE  Sight(SubSeq(s, 1, k + 1)) = PartStep(Sight(SubSeq(s, 1, k)), s[k + 1])
<1>1. Len(s) \in Nat /\ k + 1 \in 1 .. Len(s) /\ k \in 0 .. Len(s) /\ 1 \in 1 .. Len(s) + 1
        /\ 1 - 1 <= k
  BY TextParts
<1>2. SubSeq(s, 1, k) \in Text /\ s[k + 1] \in Char
  BY <1>1, TextParts
<1>3. SubSeq(s, 1, k + 1) = Append(SubSeq(s, 1, k), s[k + 1])
  BY LongerPrefix DEF Text
<1> QED
  BY <1>2, <1>3, SightAppend

LEMMA TextPrefixes ==
  ASSUME NEW s \in Text
  PROVE  /\ SubSeq(s, 1, 0) = <<>> /\ SubSeq(s, 1, Len(s)) = s
         /\ \A k \in 0 .. Len(s) : SubSeq(s, 1, k) \in Text /\ Len(SubSeq(s, 1, k)) = k
         /\ \A k \in 0 .. Len(s) : \A i \in 1 .. k : SubSeq(s, 1, k)[i] = s[i]
<1>1. Len(s) \in Nat /\ \A i \in 1 .. Len(s) : s[i] \in Char
  BY TextParts
<1>2. ASSUME NEW k \in 0 .. Len(s)
      PROVE  /\ SubSeq(s, 1, k) \in Text /\ Len(SubSeq(s, 1, k)) = k
             /\ \A i \in 1 .. k : SubSeq(s, 1, k)[i] = s[i]
  <2>1. 1 \in 1 .. Len(s) + 1 /\ 1 - 1 <= k /\ k - 1 + 1 = k /\ k \in Int
    BY <1>1
  <2>2. SubSeq(s, 1, k) \in Text /\ Len(SubSeq(s, 1, k)) = k
    BY <2>1, TextParts
  <2>3. \A i \in 1 .. k : i \in 1 .. Len(s) /\ s[i] \in Char /\ 1 + i - 1 = i
    BY <1>1
  <2>4. \A i \in 1 .. k - 1 + 1 : SubSeq(s, 1, k)[i] = s[1 + i - 1]
    BY <2>1, <2>3, SubSeqProperties
  <2> QED
    BY <2>1, <2>2, <2>3, <2>4
<1>3. SubSeq(s, 1, 0) = <<>>
  BY SubSeqEmpty
<1>4. SubSeq(s, 1, Len(s)) = s
  BY SubSeqFull DEF Text
<1> QED
  BY <1>2, <1>3, <1>4

\* A slash closes the part before it; any other character adds to it.
LEMMA StepClears ==
  ASSUME NEW st \in PartState
  PROVE  /\ PartStep(st, Slash) \in PartState /\ PartStep(st, Slash).part = <<>>
         /\ st.part = <<>> => PartStep(st, Slash) = st
         /\ st.part # <<>> => PartStep(st, Slash).all = Append(st.all, st.part)
<1>1. PICK a, q : st = [all |-> a, part |-> q]
  BY DEF PartState
<1>2. st.all = a /\ st.part = q
  BY <1>1
<1>3. q = <<>> => PartStep(st, Slash) = st
  BY <1>1, PartCloses
<1>4. q # <<>> => PartStep(st, Slash) = [all |-> Append(a, q), part |-> <<>>]
  BY <1>1, PartCloses
<1> QED
  BY <1>2, <1>3, <1>4, PartStepTypes, Characters

LEMMA StepGrows ==
  ASSUME NEW st \in PartState, NEW c \in Char, c # Slash
  PROVE  /\ PartStep(st, c) \in PartState
         /\ PartStep(st, c).all = st.all /\ PartStep(st, c).part = Append(st.part, c)
<1>1. PICK a, q : st = [all |-> a, part |-> q]
  BY DEF PartState
<1>2. PartStep(st, c) = [all |-> a, part |-> Append(q, c)]
  BY <1>1, PartGrows
<1> QED
  BY <1>1, <1>2, PartStepTypes

LEMMA AppendSome ==
  ASSUME NEW S, NEW s \in Seq(S), NEW c \in S
  PROVE  Append(s, c) # <<>> /\ Append(s, c)[Len(Append(s, c))] = c /\ Front(Append(s, c)) = s
<1>1. /\ Append(s, c) \in Seq(S) /\ Append(s, c) # <<>> /\ Len(Append(s, c)) = Len(s) + 1
      /\ Append(s, c)[Len(s) + 1] = c /\ \A i \in 1 .. Len(s) : Append(s, c)[i] = s[i]
  BY AppendProperties
<1>2. PICK n \in Nat : n = Len(s)
  OBVIOUS
<1>3. PICK b \in Seq(S) : b = Append(s, c)
  BY <1>1
<1>4. \A i \in 1 .. n : b[i] \in S /\ 1 + i - 1 = i
  BY <1>1, <1>2, <1>3
<1>5. SubSeq(b, 1, n) \in Seq(S) /\ Len(SubSeq(b, 1, n)) = n
        /\ \A i \in 1 .. n : SubSeq(b, 1, n)[i] = b[i]
  <2>1. n - 1 + 1 = n /\ (1 <= n + 1) /\ n \in Int
    BY <1>2
  <2>2. SubSeq(b, 1, n) \in Seq(S) /\ Len(SubSeq(b, 1, n)) = IF 1 <= n THEN n - 1 + 1 ELSE 0
    BY <1>4, <2>1, SubSeqProperties
  <2>3. \A i \in 1 .. n - 1 + 1 : SubSeq(b, 1, n)[i] = b[1 + i - 1]
    BY <1>4, <2>1, SubSeqProperties
  <2> QED
    BY <1>4, <2>1, <2>2, <2>3
<1>6. SubSeq(b, 1, n) = s
  BY <1>1, <1>2, <1>3, <1>5, SeqEqual
<1>7. Front(b) = SubSeq(b, 1, n)
  <2>1. Len(b) - 1 = n
    BY <1>1, <1>2, <1>3
  <2> QED
    BY <2>1 DEF Front
<1> QED
  BY <1>1, <1>3, <1>6, <1>7

LEMMA AppendConcat ==
  ASSUME NEW S, NEW s \in Seq(S), NEW t \in Seq(S), NEW c \in S
  PROVE  s \o Append(t, c) = Append(s \o t, c)
<1>1. <<c>> \in Seq(S) /\ s \o t \in Seq(S)
  BY ConcatProperties
<1>2. Append(t, c) = t \o <<c>> /\ Append(s \o t, c) = (s \o t) \o <<c>>
  BY <1>1, AppendIsConcat
<1>3. (s \o t) \o <<c>> = s \o (t \o <<c>>)
  BY <1>1, ConcatAssociative
<1> QED
  BY <1>2, <1>3

LEMMA SightLast ==
  ASSUME NEW s \in Text
  PROVE  /\ s = <<>> \/ s[Len(s)] = Slash => Sight(s).part = <<>>
         /\ s # <<>> /\ s[Len(s)] # Slash =>
              /\ Sight(s).part # <<>> /\ Sight(s).part[Len(Sight(s).part)] = s[Len(s)]
<1>1. CASE s = <<>>
  BY <1>1, SightEmpty DEF NoParts
<1>2. CASE s # <<>>
  <2>1. Len(s) \in Nat /\ Len(s) >= 1 /\ s[Len(s)] \in Char
    BY <1>2, TextParts
  <2>2. PICK n \in Nat : n = Len(s) - 1
    BY <2>1
  <2>3. n \in 0 .. Len(s) - 1 /\ n + 1 = Len(s) /\ n \in 0 .. Len(s)
    BY <2>1, <2>2
  <2>4. PICK st \in PartState : st = Sight(SubSeq(s, 1, n))
    BY <2>3, TextPrefixes, SightParts
  <2>8. Sight(SubSeq(s, 1, n + 1)) = PartStep(st, s[n + 1])
    BY <2>3, <2>4, SightNext
  <2>5. Sight(s) = PartStep(st, s[Len(s)])
    BY <2>3, <2>8, TextPrefixes
  <2>6. CASE s[Len(s)] = Slash
    BY <1>2, <2>5, <2>6, StepClears
  <2>7. CASE s[Len(s)] # Slash
    <3>2. PICK c \in Char, q \in Text : c = s[Len(s)] /\ q = st.part
      BY <2>1 DEF PartState
    <3>4. PartStep(st, c).part = Append(q, c)
      BY <2>7, <3>2, StepGrows
    <3>1. Sight(s).part = Append(q, c)
      BY <2>5, <3>2, <3>4
    <3>3. Append(q, c) # <<>> /\ Append(q, c)[Len(Append(q, c))] = c
      BY AppendSome DEF Text
    <3> QED
      BY <1>2, <2>7, <3>1, <3>2, <3>3
  <2> QED
    BY <2>6, <2>7
<1> QED
  BY <1>1, <1>2

\* After a slash, what follows is seen on its own.
LEMMA SightConcat ==
  ASSUME NEW s \in Text, NEW t \in Text, Sight(s).part = <<>>
  PROVE  /\ Sight(s \o t).all = Sight(s).all \o Sight(t).all
         /\ Sight(s \o t).part = Sight(t).part
         /\ Parts(s \o t) = Sight(s).all \o Parts(t)
<1>1. PICK a \in Seq(Text) : Sight(s).all = a
  BY SightParts DEF PartState
<1> DEFINE Beside(x, y) == x.all = a \o y.all /\ x.part = y.part
           T == {k \in Nat : Beside(Sight(s \o SubSeq(t, 1, k)), Sight(SubSeq(t, 1, k)))}
<1>2. Len(t) \in Nat
  BY TextParts
<1>3. 0 \in T
  <2>1. SubSeq(t, 1, 0) = <<>> /\ s \o <<>> = s
    BY TextPrefixes, ConcatEmptySeq DEF Text
  <2>2. Sight(<<>>).all = <<>> /\ Sight(<<>>).part = <<>>
    BY SightEmpty DEF NoParts
  <2>3. a \o <<>> = a
    BY ConcatEmptySeq
  <2>4. Beside(Sight(s), Sight(<<>>))
    BY <1>1, <2>2, <2>3
  <2> QED
    BY <2>1, <2>4
<1>4. ASSUME NEW x \in PartState, NEW y \in PartState, NEW c \in Char, Beside(x, y)
      PROVE  Beside(PartStep(x, c), PartStep(y, c))
  <2>1. CASE c # Slash
    <3>1. PartStep(x, c).all = x.all /\ PartStep(x, c).part = Append(x.part, c)
      BY <2>1, StepGrows
    <3>2. PartStep(y, c).all = y.all /\ PartStep(y, c).part = Append(y.part, c)
      BY <2>1, StepGrows
    <3> QED
      BY <1>4, <3>1, <3>2
  <2>2. CASE c = Slash /\ y.part = <<>>
    BY <1>4, <2>2, StepClears
  <2>3. CASE c = Slash /\ y.part # <<>>
    <3>1. PICK b \in Seq(Text), q \in Text : b = y.all /\ q = y.part
      BY DEF PartState
    <3>2. a \o Append(b, q) = Append(a \o b, q)
      BY AppendConcat
    <3>3. PartStep(x, Slash).all = Append(a \o b, q) /\ PartStep(x, Slash).part = <<>>
      BY <1>4, <2>3, <3>1, StepClears
    <3>4. PartStep(y, Slash).all = Append(b, q) /\ PartStep(y, Slash).part = <<>>
      BY <2>3, <3>1, StepClears
    <3> QED
      BY <2>3, <3>2, <3>3, <3>4
  <2> QED
    BY <2>1, <2>2, <2>3
<1> HIDE DEF Beside
<1>5. ASSUME NEW k \in 0 .. Len(t) - 1, k \in T PROVE k + 1 \in T
  <2>1. k \in 0 .. Len(t) /\ k + 1 \in 1 .. Len(t) /\ t[k + 1] \in Char /\ k + 1 \in Nat
    BY <1>2, TextParts
  <2>2. PICK u \in Text : u = SubSeq(t, 1, k)
    BY <2>1, TextPrefixes
  <2>3. SubSeq(t, 1, k + 1) = Append(u, t[k + 1])
    BY <2>2, LongerPrefix DEF Text
  <2>4. s \o Append(u, t[k + 1]) = Append(s \o u, t[k + 1])
    BY <2>1, AppendConcat DEF Text
  <2>5. Sight(Append(s \o u, t[k + 1])) = PartStep(Sight(s \o u), t[k + 1])
          /\ Sight(s \o u) \in PartState
    BY <2>1, TextConcat, SightAppend, SightParts
  <2>6. Sight(Append(u, t[k + 1])) = PartStep(Sight(u), t[k + 1]) /\ Sight(u) \in PartState
    BY <2>1, SightAppend, SightParts
  <2>7. Beside(Sight(s \o u), Sight(u))
    BY <1>5, <2>2
  <2>8. Beside(Sight(Append(s \o u, t[k + 1])), Sight(Append(u, t[k + 1])))
    BY <1>4, <2>1, <2>5, <2>6, <2>7
  <2>9. Beside(Sight(s \o SubSeq(t, 1, k + 1)), Sight(SubSeq(t, 1, k + 1)))
    BY <2>3, <2>4, <2>8
  <2> QED
    BY <2>1, <2>9
<1> HIDE DEF T
<1>6. Len(t) \in T
  <2>1. Len(t) \in 0 .. Len(t)
    BY <1>2
  <2> QED
    BY <1>2, <1>3, <1>5, <2>1, Induct
<1>7. Beside(Sight(s \o t), Sight(t))
  BY <1>6, TextPrefixes DEF T
<1>8. Beside(PartStep(Sight(s \o t), Slash), PartStep(Sight(t), Slash))
  BY <1>4, <1>7, TextConcat, SightParts, Characters
<1>9. Parts(s \o t) = a \o Parts(t)
  BY <1>8, TextConcat, SightParts DEF Beside
<1> QED
  BY <1>1, <1>7, <1>9 DEF Beside

-----------------------------------------------------------------------------
(* Follow: components on a stack.                                            *)

Dot    == <<".">>
DotDot == <<".", ".">>

FollowStep(at, c) == CASE c = <<".">> -> at
                       [] c = <<".", ".">> -> IF at = <<>> THEN at ELSE Front(at)
                       [] OTHER -> Append(at, c)

LEMMA SeqPrefixes ==
  ASSUME NEW S, NEW s \in Seq(S)
  PROVE  /\ SubSeq(s, 1, 0) = <<>> /\ SubSeq(s, 1, Len(s)) = s
         /\ \A k \in 0 .. Len(s) : SubSeq(s, 1, k) \in Seq(S)
<1>1. Len(s) \in Nat /\ \A i \in 1 .. Len(s) : s[i] \in S
  OBVIOUS
<1>2. ASSUME NEW k \in 0 .. Len(s) PROVE SubSeq(s, 1, k) \in Seq(S)
  <2>1. \A i \in 1 .. k : s[i] \in S
    BY <1>1
  <2> QED
    BY <1>1, <2>1, SubSeqProperties
<1> QED
  BY <1>2, SubSeqEmpty, SubSeqFull

LEMMA DotsDiffer == Dot # DotDot /\ Dot \in Text /\ DotDot \in Text /\ Len(Dot) = 1
  /\ Len(DotDot) = 2
BY Characters DEF Dot, DotDot, Text

LEMMA FollowSteps ==
  ASSUME NEW at \in Seq(Text), NEW c \in Text
  PROVE  /\ c = Dot => FollowStep(at, c) = at
         /\ c = DotDot => FollowStep(at, c) = IF at = <<>> THEN at ELSE Front(at)
         /\ c # Dot /\ c # DotDot => FollowStep(at, c) = Append(at, c)
         /\ FollowStep(at, c) \in Seq(Text)
<1>1. c = Dot => FollowStep(at, c) = at
  BY DotsDiffer DEF FollowStep, Dot, DotDot
<1>2. c = DotDot => FollowStep(at, c) = IF at = <<>> THEN at ELSE Front(at)
  BY DotsDiffer DEF FollowStep, Dot, DotDot
<1>3. c # Dot /\ c # DotDot => FollowStep(at, c) = Append(at, c)
  BY DEF FollowStep, Dot, DotDot
<1>4. at # <<>> => Front(at) \in Seq(Text)
  <2> SUFFICES ASSUME at # <<>> PROVE Front(at) \in Seq(Text)
    OBVIOUS
  <2>1. Len(at) - 1 \in 0 .. Len(at)
    OBVIOUS
  <2>2. SubSeq(at, 1, Len(at) - 1) \in Seq(Text)
    BY <2>1, SeqPrefixes
  <2> QED
    BY <2>2 DEF Front
<1>5. Append(at, c) \in Seq(Text)
  OBVIOUS
<1> QED
  BY <1>1, <1>2, <1>3, <1>4, <1>5

IsFollowing(g, from, comps) ==
  g = [n \in 0 .. Len(comps) |-> IF n = 0 THEN from ELSE FollowStep(g[n - 1], comps[n])]

\* A run of Follow, with the types it has.
FollowRun(g, from, comps) ==
  /\ g[0] = from /\ \A n \in 0 .. Len(comps) - 1 : g[n + 1] = FollowStep(g[n], comps[n + 1])
  /\ \A n \in 0 .. Len(comps) : g[n] \in Seq(Text)
  /\ Follow(from, comps) = g[Len(comps)]

LEMMA FollowRuns ==
  ASSUME NEW from \in Seq(Text), NEW comps \in Seq(Text)
  PROVE  \E g : FollowRun(g, from, comps)
<1> DEFINE N == Len(comps)
           step == [x \in Seq(Text) \X (1 .. N) |-> FollowStep(x[1], comps[x[2]])]
<1>1. N \in Nat /\ \A k \in 1 .. N : comps[k] \in Text
  OBVIOUS
<1>2. \A x \in Seq(Text) : \A k \in 1 .. N : step[<<x, k>>] = FollowStep(x, comps[k])
  OBVIOUS
<1> HIDE DEF step
<1>3. \A x \in Seq(Text) : \A k \in 1 .. N : step[<<x, k>>] \in Seq(Text)
  BY <1>1, <1>2, FollowSteps, ZenonT(40)
<1>4. PICK g \in [0 .. N -> Seq(Text)] : Runs(g, from, step, N)
  BY <1>1, <1>3, Recursion
<1>5. ASSUME NEW n \in 0 .. N
      PROVE  g[n] = IF n = 0 THEN from ELSE FollowStep(g[n - 1], comps[n])
  <2>1. CASE n = 0
    BY <1>4, <2>1 DEF Runs
  <2>2. CASE n # 0
    <3>1. n \in 1 .. N /\ n - 1 \in 0 .. N
      BY <1>1, <2>2
    <3>2. g[n] = step[<<g[n - 1], n>>] /\ g[n - 1] \in Seq(Text)
      BY <1>4, <3>1 DEF Runs
    <3> QED
      BY <1>2, <2>2, <3>1, <3>2
  <2> QED
    BY <2>1, <2>2
<1>6. g = [n \in 0 .. N |-> g[n]]
  OBVIOUS
<1>7. IsFollowing(g, from, comps)
  BY <1>5, <1>6 DEF IsFollowing
<1>8. \E h : IsFollowing(h, from, comps) /\ Follow(from, comps) = h[Len(comps)]
  BY <1>7, Zenon DEF Follow, IsFollowing, FollowStep
<1>9. PICK h : IsFollowing(h, from, comps) /\ Follow(from, comps) = h[Len(comps)]
  BY <1>8
<1>10. h[0] = from
  BY <1>1, <1>9 DEF IsFollowing
<1>11. ASSUME NEW n \in 0 .. N - 1 PROVE h[n + 1] = FollowStep(h[n], comps[n + 1])
  <2>1. n + 1 \in 0 .. N /\ n + 1 # 0 /\ (n + 1) - 1 = n
    BY <1>1
  <2> QED
    BY <1>9, <2>1 DEF IsFollowing
<1> DEFINE T == {n \in Nat : h[n] \in Seq(Text)}
<1>12. 0 \in T
  BY <1>10
<1>13. ASSUME NEW n \in 0 .. N - 1, n \in T PROVE n + 1 \in T
  <2>1. comps[n + 1] \in Text /\ n + 1 \in Nat
    BY <1>1
  <2>2. h[n] \in Seq(Text) /\ h[n + 1] = FollowStep(h[n], comps[n + 1])
    BY <1>11, <1>13
  <2>3. h[n + 1] \in Seq(Text)
    BY <2>1, <2>2, FollowSteps
  <2> QED
    BY <2>1, <2>3
<1> HIDE DEF T
<1>14. \A n \in 0 .. N : n \in T
  BY <1>1, <1>12, <1>13, Induct
<1> QED
  BY <1>9, <1>10, <1>11, <1>14 DEF FollowRun, T

LEMMA FollowText ==
  ASSUME NEW from \in Seq(Text), NEW comps \in Seq(Text)
  PROVE  Follow(from, comps) \in Seq(Text)
<1>1. Len(comps) \in 0 .. Len(comps)
  OBVIOUS
<1> QED
  BY <1>1, FollowRuns DEF FollowRun

LEMMA FollowNone ==
  ASSUME NEW from \in Seq(Text)
  PROVE  Follow(from, <<>>) = from
<1>1. <<>> \in Seq(Text) /\ Len(<<>>) = 0
  OBVIOUS
<1>2. PICK g : FollowRun(g, from, <<>>)
  BY <1>1, FollowRuns
<1> QED
  BY <1>1, <1>2 DEF FollowRun

LEMMA FollowAppend ==
  ASSUME NEW from \in Seq(Text), NEW comps \in Seq(Text), NEW c \in Text
  PROVE  Follow(from, Append(comps, c)) = FollowStep(Follow(from, comps), c)
<1>1. PICK g : FollowRun(g, from, comps)
  BY FollowRuns
<1>2. PICK more \in Seq(Text) : more = Append(comps, c)
  BY AppendProperties
<1>3. PICK h : FollowRun(h, from, more)
  BY FollowRuns
<1>4. PICK N \in Nat : N = Len(comps)
  OBVIOUS
<1>5. Len(more) = N + 1 /\ more[N + 1] = c /\ \A k \in 1 .. N : more[k] = comps[k]
  BY <1>2, <1>4, AppendProperties
<1> DEFINE T == {k \in Nat : h[k] = g[k]}
<1>6. 0 \in T
  BY <1>1, <1>3 DEF FollowRun
<1>7. ASSUME NEW k \in 0 .. N - 1, k \in T PROVE k + 1 \in T
  <2>1. k \in 0 .. Len(comps) - 1 /\ k \in 0 .. Len(more) - 1 /\ k + 1 \in 1 .. N /\ k + 1 \in Nat
    BY <1>4, <1>5
  <2>2. g[k + 1] = FollowStep(g[k], comps[k + 1]) /\ h[k + 1] = FollowStep(h[k], more[k + 1])
    BY <1>1, <1>3, <2>1 DEF FollowRun
  <2> QED
    BY <1>5, <1>7, <2>1, <2>2
<1> HIDE DEF T
<1>8. N \in T
  <2>1. N \in 0 .. N
    OBVIOUS
  <2> QED
    BY <1>6, <1>7, <2>1, Induct
<1>9. h[N + 1] = FollowStep(h[N], c)
  <2>1. N \in 0 .. Len(more) - 1
    BY <1>5
  <2> QED
    BY <1>3, <1>5, <2>1 DEF FollowRun
<1> QED
  BY <1>1, <1>2, <1>3, <1>4, <1>5, <1>8, <1>9 DEF FollowRun, T

LEMMA FollowConcat ==
  ASSUME NEW from \in Seq(Text), NEW a \in Seq(Text), NEW b \in Seq(Text)
  PROVE  Follow(from, a \o b) = Follow(Follow(from, a), b)
<1> DEFINE T == {k \in Nat : Follow(from, a \o SubSeq(b, 1, k))
      = Follow(Follow(from, a), SubSeq(b, 1, k))}
<1>1. Len(b) \in Nat /\ Len(b) \in 0 .. Len(b)
  OBVIOUS
<1>2. Follow(from, a) \in Seq(Text)
  BY FollowText
<1>3. 0 \in T
  <2>1. SubSeq(b, 1, 0) = <<>> /\ a \o <<>> = a
    BY SeqPrefixes, ConcatEmptySeq
  <2> QED
    BY <1>2, <2>1, FollowNone
<1>4. ASSUME NEW k \in 0 .. Len(b) - 1, k \in T PROVE k + 1 \in T
  <2>8. k \in 0 .. Len(b)
    BY <1>1
  <2>1. PICK u \in Seq(Text) : u = SubSeq(b, 1, k)
    BY <2>8, SeqPrefixes
  <2>2. b[k + 1] \in Text /\ k + 1 \in Nat
    BY <1>1
  <2>3. SubSeq(b, 1, k + 1) = Append(u, b[k + 1])
    BY <2>1, LongerPrefix
  <2>4. a \o Append(u, b[k + 1]) = Append(a \o u, b[k + 1]) /\ a \o u \in Seq(Text)
    BY <2>2, AppendConcat, ConcatProperties
  <2>5. Follow(from, Append(a \o u, b[k + 1])) = FollowStep(Follow(from, a \o u), b[k + 1])
    BY <2>2, <2>4, FollowAppend
  <2>6. Follow(Follow(from, a), Append(u, b[k + 1]))
          = FollowStep(Follow(Follow(from, a), u), b[k + 1])
    BY <1>2, <2>2, FollowAppend
  <2>7. Follow(from, a \o u) = Follow(Follow(from, a), u)
    BY <1>4, <2>1
  <2> QED
    BY <2>2, <2>3, <2>4, <2>5, <2>6, <2>7
<1> HIDE DEF T
<1>5. Len(b) \in T
  BY <1>1, <1>3, <1>4, Induct
<1> QED
  BY <1>5, SeqPrefixes DEF T

\* Components that are no dots are where one is.
LEMMA FollowNames ==
  ASSUME NEW comps \in Seq(Text), \A k \in 1 .. Len(comps) : comps[k] \notin {Dot, DotDot}
  PROVE  Follow(<<>>, comps) = comps
<1> DEFINE T == {k \in Nat : Follow(<<>>, SubSeq(comps, 1, k)) = SubSeq(comps, 1, k)}
<1>1. Len(comps) \in Nat /\ Len(comps) \in 0 .. Len(comps) /\ <<>> \in Seq(Text)
  OBVIOUS
<1>2. 0 \in T
  BY <1>1, SeqPrefixes, FollowNone
<1>3. ASSUME NEW k \in 0 .. Len(comps) - 1, k \in T PROVE k + 1 \in T
  <2>7. k \in 0 .. Len(comps)
    BY <1>1
  <2>1. PICK u \in Seq(Text) : u = SubSeq(comps, 1, k)
    BY <2>7, SeqPrefixes
  <2>2. comps[k + 1] \in Text /\ k + 1 \in Nat /\ k + 1 \in 1 .. Len(comps)
    BY <1>1
  <2>3. SubSeq(comps, 1, k + 1) = Append(u, comps[k + 1])
    BY <2>1, LongerPrefix
  <2>4. Follow(<<>>, Append(u, comps[k + 1])) = FollowStep(Follow(<<>>, u), comps[k + 1])
    BY <1>1, <2>2, FollowAppend
  <2>5. Follow(<<>>, u) = u
    BY <1>3, <2>1
  <2>6. FollowStep(u, comps[k + 1]) = Append(u, comps[k + 1])
    BY <2>2, FollowSteps
  <2> QED
    BY <2>2, <2>3, <2>4, <2>5, <2>6
<1> HIDE DEF T
<1>4. Len(comps) \in T
  BY <1>1, <1>2, <1>3, Induct
<1> QED
  BY <1>4, SeqPrefixes DEF T

-----------------------------------------------------------------------------
(* What the rounds of path_resolve do.                                       *)

Single(s) == \A k \in 1 .. Len(s) - 1 : ~(s[k] = Slash /\ s[k + 1] = Slash)
Clean(s)  == \A k \in 1 .. Len(s) : s[k] # Nul

\* No component ends in a dot.
Tidy(s)   == \A k \in 1 .. Len(s) : s[k] = "." => ~Ends(s, k + 1)

LEMMA PopCuts ==
  ASSUME NEW out \in Text, Len(out) > 1, out[1] = Slash
  PROVE  \E top \in 1 .. Len(out) - 1 :
           /\ out[top] = Slash /\ \A j \in top + 1 .. Len(out) - 1 : out[j] # Slash
           /\ Pop(out) = SubSeq(out, 1, top)
<1> DEFINE ends == {k \in 1 .. Len(out) - 1 : out[k] = Slash}
           top  == CHOOSE k \in ends \cup {0} : \A j \in ends : j <= k
<1>1. Len(out) \in Nat
  BY TextParts
<1>2. ends \in SUBSET (0 .. Len(out)) /\ 1 \in ends
  BY <1>1
<1>3. PICK m \in ends : \A j \in ends : j <= m
  <2>1. ends # {}
    BY <1>2
  <2> QED
    BY <1>1, <1>2, <2>1, Maximum
<1>4. top \in ends \cup {0} /\ \A j \in ends : j <= top
  BY <1>3
<1>8. ~(Len(out) <= 1)
  BY <1>1
<1>5. Pop(out) = SubSeq(out, 1, top)
  BY <1>8 DEF Pop
<1> HIDE DEF top
<1>6. top \in 1 .. Len(out) - 1 /\ out[top] = Slash
  BY <1>1, <1>2, <1>4
<1>7. ASSUME NEW j \in top + 1 .. Len(out) - 1 PROVE out[j] # Slash
  BY <1>1, <1>4, <1>6
<1> QED
  BY <1>5, <1>6, <1>7

\* Past slashes, the parts that were closed stay.
LEMMA SightKeepsAll ==
  ASSUME NEW s \in Text, NEW a \in 0 .. Len(s), NEW b \in a .. Len(s),
         \A j \in a + 1 .. b : s[j] # Slash
  PROVE  Sight(SubSeq(s, 1, b)).all = Sight(SubSeq(s, 1, a)).all
<1> DEFINE T == {k \in Nat : Sight(SubSeq(s, 1, a + k)).all = Sight(SubSeq(s, 1, a)).all}
<1>1. Len(s) \in Nat /\ a \in Nat /\ b \in Nat /\ b - a \in Nat
        /\ \A j \in 1 .. Len(s) : s[j] \in Char
  BY TextParts
<1>2. 0 \in T
  BY <1>1
<1>3. ASSUME NEW k \in 0 .. (b - a) - 1, k \in T PROVE k + 1 \in T
  <2>1. PICK n \in 0 .. Len(s) - 1 : n = a + k
    BY <1>1
  <2>2. n \in 0 .. Len(s) /\ n + 1 \in a + 1 .. b /\ n + 1 \in 1 .. Len(s) /\ a + (k + 1) = n + 1
          /\ k + 1 \in Nat
    BY <1>1, <2>1
  <2>3. Sight(SubSeq(s, 1, n)) \in PartState
    BY <2>2, TextPrefixes, SightParts
  <2>4. Sight(SubSeq(s, 1, n + 1)) = PartStep(Sight(SubSeq(s, 1, n)), s[n + 1])
    BY SightNext
  <2>5. s[n + 1] \in Char /\ s[n + 1] # Slash
    BY <1>1, <2>2
  <2>6. Sight(SubSeq(s, 1, n + 1)).all = Sight(SubSeq(s, 1, n)).all
    BY <2>3, <2>4, <2>5, StepGrows
  <2>7. Sight(SubSeq(s, 1, n)).all = Sight(SubSeq(s, 1, a)).all
    BY <1>3, <2>1
  <2> QED
    BY <2>2, <2>6, <2>7
<1> HIDE DEF T
<1>4. b - a \in T
  <2>1. b - a \in 0 .. b - a
    BY <1>1
  <2> QED
    BY <1>1, <1>2, <1>3, <2>1, Induct
<1>5. a + (b - a) = b
  BY <1>1
<1> QED
  BY <1>4, <1>5 DEF T

\* Pop takes off the last part.
LEMMA PopSight ==
  ASSUME NEW out \in Text, out # <<>>, out[1] = Slash, out[Len(out)] = Slash, Single(out)
  PROVE  /\ Pop(out) \in Text /\ Pop(out) # <<>> /\ Single(Pop(out))
         /\ Pop(out)[1] = Slash /\ Pop(out)[Len(Pop(out))] = Slash
         /\ Sight(Pop(out)).all = IF Sight(out).all = <<>> THEN <<>> ELSE Front(Sight(out).all)
         /\ Sight(Pop(out)).part = <<>> /\ Sight(out).part = <<>>
<1>1. PICK N \in Nat : N = Len(out) /\ N >= 1
  BY TextParts
<1>2. Sight(out).part = <<>> /\ Pop(out) \in Text
  BY SightLast, PopText
<1>3. CASE N = 1
  <2>1. Pop(out) = out
    BY <1>1, <1>3 DEF Pop
  <2>2. Sight(SubSeq(out, 1, 0 + 1)) = PartStep(Sight(SubSeq(out, 1, 0)), out[0 + 1])
    <3>1. 0 \in 0 .. Len(out) - 1
      BY <1>1
    <3> QED
      BY <3>1, SightNext
  <2>6. 0 + 1 = Len(out) /\ 0 + 1 = 1
    BY <1>1, <1>3
  <2>3. SubSeq(out, 1, 0 + 1) = out /\ SubSeq(out, 1, 0) = <<>> /\ out[0 + 1] = Slash
    BY <2>6, TextPrefixes
  <2>4. NoParts \in PartState /\ NoParts.part = <<>> /\ NoParts.all = <<>>
    BY SlashText DEF PartState, NoParts
  <2>5. Sight(out) = NoParts
    BY <2>2, <2>3, <2>4, SightEmpty, StepClears
  <2> QED
    BY <1>2, <2>1, <2>4, <2>5
<1>4. CASE N # 1
  <2>1. PICK top \in 1 .. N - 1 : /\ out[top] = Slash /\ \A j \in top + 1 .. N - 1 : out[j] # Slash
                                  /\ Pop(out) = SubSeq(out, 1, top)
    BY <1>1, <1>4, PopCuts
  <2>2. top < N - 1
    <3>1. top = N - 1 => top \in 1 .. Len(out) - 1 /\ top + 1 = Len(out)
      BY <1>1
    <3> QED
      BY <2>1, <3>1 DEF Single
  <2>3. top \in 0 .. Len(out) /\ N - 1 \in top .. Len(out) /\ N - 1 \in 0 .. Len(out)
          /\ N - 1 \in 1 .. N - 1
        /\ N - 1 \in 0 .. Len(out) - 1 /\ (N - 1) + 1 = N /\ N - 1 \in top + 1 .. N - 1
    BY <1>1, <2>1, <2>2
  <2>4. PICK P \in Text : P = SubSeq(out, 1, top) /\ Len(P) = top
          /\ \A i \in 1 .. top : P[i] = out[i]
    BY <2>3, TextPrefixes
  <2>5. P[1] = Slash /\ P[Len(P)] = Slash /\ P # <<>>
    BY <2>1, <2>4
  <2>6. Single(P)
    <3>1. \A k \in 1 .. top - 1 : k \in 1 .. Len(out) - 1 /\ k \in 1 .. top /\ k + 1 \in 1 .. top
      BY <1>1, <2>3
    <3> QED
      BY <2>4, <3>1 DEF Single
  <2>7. PICK Q \in Text : Q = SubSeq(out, 1, N - 1) /\ Len(Q) = N - 1
          /\ \A i \in 1 .. N - 1 : Q[i] = out[i]
    BY <2>3, TextPrefixes
  <2>8. Sight(Q).all = Sight(P).all
    BY <1>1, <2>1, <2>3, <2>4, <2>7, SightKeepsAll
  <2>9. Sight(Q).part # <<>>
    <3>1. Q # <<>> /\ Q[Len(Q)] # Slash
      BY <2>1, <2>3, <2>7
    <3> QED
      BY <3>1, SightLast
  <2>10. Sight(out) = PartStep(Sight(Q), Slash)
    <3>1. Sight(SubSeq(out, 1, (N - 1) + 1))
            = PartStep(Sight(SubSeq(out, 1, N - 1)), out[(N - 1) + 1])
      BY <2>3, SightNext
    <3> QED
      BY <1>1, <2>3, <2>7, <3>1, TextPrefixes
  <2>11. PICK a \in Seq(Text), q \in Text : a = Sight(Q).all /\ q = Sight(Q).part
    BY SightParts DEF PartState
  <2>12. Sight(out).all = Append(a, q)
    BY <2>9, <2>10, <2>11, SightParts, StepClears
  <2>13. Front(Append(a, q)) = a /\ Append(a, q) # <<>>
    BY AppendSome
  <2>14. Sight(P).part = <<>>
    BY <2>5, SightLast
  <2> QED
    BY <1>2, <2>1, <2>4, <2>5, <2>6, <2>8, <2>11, <2>12, <2>13, <2>14
<1> QED
  BY <1>3, <1>4

\* A round: a run of slashes is one; then a dot, two dots, or any character.
Skips(in, q)  == in[q] = "." /\ Ends(in, q + 1)
Climbs(in, q) == in[q] = "." /\ At(in, q + 1) = "." /\ Ends(in, q + 2)

LEMMA RoundCases ==
  ASSUME NEW in \in Text, Clean(in), NEW st \in State, st.r <= Len(in)
  PROVE  \E q \in st.r .. Len(in) :
           /\ \/ q = st.r /\ in[q] # Slash
              \/ (\A j \in st.r .. q : in[j] = Slash) /\ At(in, q + 1) # Slash
           /\ \/ Skips(in, q) /\ Round(in, st) = [r |-> Past(in, q + 1), out |-> st.out]
              \/ ~Skips(in, q) /\ Climbs(in, q)
                 /\ Round(in, st) = [r |-> Past(in, q + 2), out |-> Pop(st.out)]
              \/ ~Skips(in, q) /\ ~Climbs(in, q)
                 /\ Round(in, st) = [r |-> q + 1, out |-> Append(st.out, in[q])]
<1>1. Len(in) \in Nat /\ st.r \in 1 .. Len(in)
  BY TextParts DEF State
<1> DEFINE r == IF At(in, st.r) = Slash
                THEN CHOOSE k \in st.r .. Len(in) : /\ \A j \in st.r .. k : in[j] = Slash
                                                    /\ At(in, k + 1) # Slash
                ELSE st.r
<1>2. r \in st.r .. Len(in) /\ \/ r = st.r /\ in[r] # Slash
                               \/ (\A j \in st.r .. r : in[j] = Slash) /\ At(in, r + 1) # Slash
  <2>1. CASE At(in, st.r) = Slash
    <3>1. in[st.r] = Slash
      BY <1>1, <2>1 DEF At
    <3>2. \E k \in st.r .. Len(in) : (\A j \in st.r .. k : in[j] = Slash) /\ At(in, k + 1) # Slash
      BY <1>1, <3>1, SlashRun
    <3> QED
      BY <2>1, <3>2, Zenon
  <2>2. CASE At(in, st.r) # Slash
    BY <1>1, <2>2 DEF At
  <2> QED
    BY <2>1, <2>2
<1>3. Round(in, st) =
        CASE At(in, r) = Nul -> st
          [] At(in, r) = "." /\ Ends(in, r + 1) -> [r |-> Past(in, r + 1), out |-> st.out]
          [] At(in, r) = "." /\ At(in, r + 1) = "." /\ Ends(in, r + 2) ->
               [r |-> Past(in, r + 2), out |-> Pop(st.out)]
          [] OTHER -> [r |-> r + 1, out |-> Append(st.out, in[r])]
  BY Zenon DEF Round
<1> HIDE DEF r
<1>4. PICK q \in st.r .. Len(in) : q = r
  BY <1>2
<1>5. q \in 1 .. Len(in) /\ At(in, q) = in[q] /\ in[q] # Nul
  BY <1>1 DEF At, Clean
<1>6. At(in, q + 1) = "." => ~Ends(in, q + 1)
  BY DEF Ends, Nul, Slash
<1>7. Skips(in, q) => Round(in, st) = [r |-> Past(in, q + 1), out |-> st.out]
  BY <1>3, <1>4, <1>5, <1>6 DEF Skips
<1>8. ~Skips(in, q) /\ Climbs(in, q) => Round(in, st) = [r |-> Past(in, q + 2), out |-> Pop(st.out)]
  BY <1>3, <1>4, <1>5 DEF Skips, Climbs
<1>9. ~Skips(in, q) /\ ~Climbs(in, q)
        => Round(in, st) = [r |-> q + 1, out |-> Append(st.out, in[q])]
  BY <1>3, <1>4, <1>5 DEF Skips, Climbs
<1> QED
  BY <1>2, <1>4, <1>7, <1>8, <1>9

\* A set of states that rounds keep holds what the loop ends with.
LEMMA ReadingKeeps ==
  ASSUME NEW in \in Text, Clean(in), NEW I \in SUBSET State, [r |-> 1, out |-> <<>>] \in I,
         \A st \in I : st.r <= Len(in) + 1,
         \A st \in I : st.r <= Len(in) => Round(in, st) \in I /\ Round(in, st).r > st.r
  PROVE  \E st \in I : st.r = Len(in) + 1 /\ Reduced(in) = st.out
<1>1. \E g : IsReading(g, in) /\ Reduced(in) = g[Len(in)].out
  BY ReadingExists, Zenon DEF Reduced, IsReading
<1>2. PICK g : IsReading(g, in) /\ Reduced(in) = g[Len(in)].out
  BY <1>1
<1>3. PICK N \in Nat : N = Len(in)
  BY TextParts
<1>4. g[0] = [r |-> 1, out |-> <<>>]
  BY <1>2, <1>3 DEF IsReading
<1>5. ASSUME NEW k \in 0 .. N - 1 PROVE g[k + 1] = Round(in, g[k])
  <2>1. k + 1 \in 0 .. Len(in) /\ k + 1 # 0 /\ (k + 1) - 1 = k
    BY <1>3
  <2> QED
    BY <1>2, <2>1 DEF IsReading
<1>6. ASSUME NEW st \in I, st.r > N PROVE Round(in, st) = st
  <2>1. st.r = N + 1 /\ st.r \in Nat
    BY <1>3, <1>6 DEF State
  <2>2. st.r \notin 1 .. Len(in)
    BY <1>3, <2>1
  <2>3. At(in, st.r) = ""
    BY <2>2 DEF At, Nul
  <2> DEFINE r == IF At(in, st.r) = Slash
                  THEN CHOOSE k \in st.r .. Len(in) : /\ \A j \in st.r .. k : in[j] = Slash
                                                      /\ At(in, k + 1) # Slash
                  ELSE st.r
  <2>4. r = st.r
    BY <2>3 DEF Slash
  <2>5. Round(in, st) =
          CASE At(in, r) = Nul -> st
            [] At(in, r) = "." /\ Ends(in, r + 1) -> [r |-> Past(in, r + 1), out |-> st.out]
            [] At(in, r) = "." /\ At(in, r + 1) = "." /\ Ends(in, r + 2) ->
                 [r |-> Past(in, r + 2), out |-> Pop(st.out)]
            [] OTHER -> [r |-> r + 1, out |-> Append(st.out, in[r])]
    BY Zenon DEF Round
  <2> HIDE DEF r
  <2> QED
    BY <2>3, <2>4, <2>5 DEF Nul
<1> DEFINE T == {k \in Nat : g[k] \in I /\ (g[k].r > N \/ g[k].r > k)}
<1>7. 0 \in T
  BY <1>4
<1>8. ASSUME NEW k \in 0 .. N - 1, k \in T PROVE k + 1 \in T
  <2>1. PICK st \in I : st = g[k] /\ (st.r > N \/ st.r > k) /\ st.r \in Nat
    BY <1>8 DEF State
  <2>2. g[k + 1] = Round(in, st) /\ k + 1 \in Nat
    BY <1>5, <2>1
  <2>3. CASE st.r > N
    BY <1>6, <2>1, <2>2, <2>3
  <2>4. CASE ~(st.r > N)
    <3>1. Round(in, st) \in I /\ Round(in, st).r > st.r /\ Round(in, st).r \in Nat
      BY <1>3, <2>1, <2>4 DEF State
    <3> QED
      BY <2>1, <2>2, <2>4, <3>1
  <2> QED
    BY <2>3, <2>4
<1> HIDE DEF T
<1>9. N \in T
  <2>1. N \in 0 .. N
    OBVIOUS
  <2> QED
    BY <1>7, <1>8, <2>1, Induct
<1>10. g[N] \in I /\ g[N].r > N /\ g[N].r \in Nat
  BY <1>9 DEF T, State
<1>11. g[N].r = N + 1
  BY <1>3, <1>10
<1> QED
  BY <1>2, <1>3, <1>10, <1>11

-----------------------------------------------------------------------------
(* path_resolve means Follow: what is written has the parts that Follow      *)
(* leaves of those that are read.                                            *)

\* Dots that end a component are the whole of it, and one slash follows them.
Good(in) ==
  /\ \A k \in 1 .. Len(in) : in[k] = "." /\ Ends(in, k + 1) =>
       Ends(in, k - 1) \/ (At(in, k - 1) = "." /\ Ends(in, k - 2))
  /\ \A k \in 1 .. Len(in) : in[k] = "." /\ At(in, k + 1) = Slash => At(in, k + 2) # Slash

Follows(x, y) == x.all = Follow(<<>>, y.all) /\ x.part = y.part

LEMMA FollowsGrow ==
  ASSUME NEW x \in PartState, NEW y \in PartState, Follows(x, y), NEW c \in Char, c # Slash
  PROVE  Follows(PartStep(x, c), PartStep(y, c))
<1>1. PartStep(x, c).all = x.all /\ PartStep(x, c).part = Append(x.part, c)
  BY StepGrows
<1>2. PartStep(y, c).all = y.all /\ PartStep(y, c).part = Append(y.part, c)
  BY StepGrows
<1> QED
  BY <1>1, <1>2 DEF Follows

LEMMA FollowsClose ==
  ASSUME NEW x \in PartState, NEW y \in PartState, Follows(x, y),
         y.part = <<>> \/ y.part[Len(y.part)] # "."
  PROVE  Follows(PartStep(x, Slash), PartStep(y, Slash))
<1>1. CASE y.part = <<>>
  BY <1>1, StepClears DEF Follows
<1>2. CASE y.part # <<>>
  <2>1. PICK a \in Seq(Text), p \in Text : a = y.all /\ p = y.part
    BY DEF PartState
  <2>2. PartStep(y, Slash).all = Append(a, p) /\ PartStep(y, Slash).part = <<>>
    BY <1>2, <2>1, StepClears
  <2>3. PartStep(x, Slash).all = Append(Follow(<<>>, a), p) /\ PartStep(x, Slash).part = <<>>
    BY <1>2, <2>1, StepClears DEF Follows
  <2>4. p # Dot /\ p # DotDot
    BY <1>2, <2>1 DEF Dot, DotDot
  <2>8. <<>> \in Seq(Text)
    OBVIOUS
  <2>5. <<>> \in Seq(Text) /\ Follow(<<>>, a) \in Seq(Text)
    BY <2>8, FollowText
  <2>6. Follow(<<>>, Append(a, p)) = FollowStep(Follow(<<>>, a), p)
    BY <2>5, FollowAppend
  <2>7. FollowStep(Follow(<<>>, a), p) = Append(Follow(<<>>, a), p)
    BY <2>4, <2>5, FollowSteps
  <2> QED
    BY <2>2, <2>3, <2>6, <2>7 DEF Follows
<1> QED
  BY <1>1, <1>2

\* In the loop, r - 1 characters are read; dots are held back until they prove
\* to be part of a name.
Sim(in, st) ==
  /\ st \in State /\ st.r <= Len(in) + 1
  /\ Follows(Sight(st.out), Sight(SubSeq(in, 1, st.r - 1)))
  /\ \/ st.r = 1 /\ st.out = <<>>
     \/ st.r > 1 /\ st.out # <<>> /\ st.out[1] = Slash /\ st.out[Len(st.out)] = in[st.r - 1]
  /\ st.r > 1 /\ in[st.r - 1] = "." =>
       ~Ends(in, st.r) /\ ~(At(in, st.r) = "." /\ Ends(in, st.r + 1))
  /\ st.r > 1 /\ in[st.r - 1] = Slash => At(in, st.r) # Slash
  /\ Single(st.out)

Done(in, st) ==
  /\ st \in State /\ st.r = Len(in) + 1
  /\ Parts(st.out) = Follow(<<>>, Parts(in))
  /\ st.out # <<>> /\ st.out[1] = Slash /\ Single(st.out)

LEMMA SimStarts ==
  ASSUME NEW in \in Text
  PROVE  Sim(in, [r |-> 1, out |-> <<>>])
<1> DEFINE st == [r |-> 1, out |-> <<>>]
<1>1. st \in State /\ st.r = 1 /\ st.out = <<>> /\ Len(in) \in Nat /\ 1 - 1 = 0
  BY SlashText, TextParts DEF State
<1>2. SubSeq(in, 1, st.r - 1) = <<>>
  BY <1>1, TextPrefixes
<1>3. Follows(NoParts, NoParts)
  <2>1. <<>> \in Seq(Text)
    OBVIOUS
  <2> QED
    BY <2>1, FollowNone DEF Follows, NoParts
<1>4. Single(<<>>)
  BY DEF Single
<1> HIDE DEF st
<1>5. Follows(Sight(st.out), Sight(SubSeq(in, 1, st.r - 1))) /\ Single(st.out)
  BY <1>1, <1>2, <1>3, <1>4, SightEmpty
<1>6. Sim(in, st)
  BY <1>1, <1>5 DEF Sim
<1> QED
  BY <1>6 DEF st

\* At a dot that ends a component, or two, nothing of the component was read.
LEMMA SimBoundary ==
  ASSUME NEW in \in Text, Clean(in), Good(in), in[1] = Slash, NEW st \in State, Sim(in, st),
         NEW q \in Nat, q = st.r, q <= Len(in), Skips(in, q) \/ (~Skips(in, q) /\ Climbs(in, q))
  PROVE  /\ q \in 2 .. Len(in) /\ in[q] = "." /\ in[q - 1] = Slash
         /\ st.out # <<>> /\ st.out[1] = Slash /\ st.out[Len(st.out)] = Slash
         /\ Sight(SubSeq(in, 1, q - 1)).part = <<>> /\ Sight(SubSeq(in, 1, q - 1)) \in PartState
         /\ Sight(SubSeq(in, 1, q)).all = Sight(SubSeq(in, 1, q - 1)).all
         /\ Sight(SubSeq(in, 1, q)).part = Dot /\ Sight(SubSeq(in, 1, q)) \in PartState
<1>1. Len(in) \in Nat /\ q \in 1 .. Len(in) /\ in[q] = "." /\ Slash # "." /\ Slash # Nul
        /\ Nul # "."
  BY TextParts DEF Sim, State, Skips, Climbs, Slash, Nul
<1>2. q # 1
  BY <1>1
<1>3. q - 1 \in 1 .. Len(in) /\ At(in, q - 1) = in[q - 1] /\ in[q - 1] # Nul /\ At(in, q) = in[q]
  BY <1>1, <1>2 DEF At, Clean
<1>4. Ends(in, q - 1)
  <2>1. CASE Skips(in, q)
    <3>1. Ends(in, q - 1) \/ (At(in, q - 1) = "." /\ Ends(in, q - 2))
      BY <1>1, <2>1 DEF Good, Skips
    <3>2. ~(in[q - 1] = ".")
      BY <1>1, <1>2, <1>3, <2>1 DEF Sim, Skips
    <3> QED
      BY <1>3, <3>1, <3>2
  <2>2. CASE Climbs(in, q)
    <3>1. q + 1 \in 1 .. Len(in) /\ in[q + 1] = "." /\ Ends(in, (q + 1) + 1)
      <4>1. q + 1 \in 1 .. Len(in) /\ in[q + 1] = "."
        BY <1>1, <2>2 DEF Climbs, At
      <4>2. (q + 1) + 1 = q + 2
        BY <1>1
      <4> QED
        BY <2>2, <4>1, <4>2 DEF Climbs
    <3>2. (q + 1) - 1 = q /\ (q + 1) - 2 = q - 1
      BY <1>1
    <3>3. Ends(in, q) \/ (At(in, q) = "." /\ Ends(in, q - 1))
      BY <3>1, <3>2 DEF Good
    <3> QED
      BY <1>1, <1>3, <3>3 DEF Ends
  <2> QED
    BY <2>1, <2>2
<1>5. in[q - 1] = Slash
  BY <1>3, <1>4 DEF Ends
<1>6. st.out # <<>> /\ st.out[1] = Slash /\ st.out[Len(st.out)] = Slash
  BY <1>1, <1>2, <1>5 DEF Sim
<1>7. PICK n \in 0 .. Len(in) - 1 : n = q - 1
  BY <1>1
<1>8. n \in 0 .. Len(in) /\ n \in 1 .. n /\ n + 1 = q
  BY <1>1, <1>2, <1>7
<1>9. PICK s \in Text : s = SubSeq(in, 1, n) /\ Len(s) = n /\ s[n] = Slash
  BY <1>5, <1>7, <1>8, TextPrefixes
<1>10. Sight(s).part = <<>> /\ Sight(s) \in PartState
  BY <1>9, SightLast, SightParts
<1>11. Sight(SubSeq(in, 1, q)) = PartStep(Sight(s), ".")
  <2>1. Sight(SubSeq(in, 1, n + 1)) = PartStep(Sight(s), in[n + 1])
    BY <1>9, SightNext
  <2> QED
    BY <1>1, <1>8, <2>1
<1>12. /\ PartStep(Sight(s), ".") \in PartState
       /\ PartStep(Sight(s), ".").all = Sight(s).all
       /\ PartStep(Sight(s), ".").part = Append(Sight(s).part, ".")
  BY <1>1, <1>10, Characters, StepGrows
<1>13. Append(<<>>, ".") = Dot
  BY DEF Dot
<1> QED
  <2>1. PartStep(Sight(s), ".").part = Dot
    BY <1>10, <1>12, <1>13
  <2>2. s = SubSeq(in, 1, q - 1)
    BY <1>7, <1>9
  <2>3. q \in 2 .. Len(in)
    BY <1>1, <1>2
  <2> QED
    BY <1>1, <1>5, <1>6, <1>10, <1>11, <1>12, <2>1, <2>2, <2>3

LEMMA SimSkip ==
  ASSUME NEW in \in Text, Clean(in), Good(in), in[1] = Slash, NEW st \in State, Sim(in, st),
         NEW q \in Nat, q = st.r, q <= Len(in), Skips(in, q)
  PROVE  LET new == [r |-> Past(in, q + 1), out |-> st.out]
         IN  new.r > q /\ (Sim(in, new) \/ Done(in, new))
<1> DEFINE new == [r |-> Past(in, q + 1), out |-> st.out]
<1>1. /\ q \in 2 .. Len(in) /\ in[q] = "." /\ in[q - 1] = Slash
      /\ st.out # <<>> /\ st.out[1] = Slash /\ st.out[Len(st.out)] = Slash
      /\ Sight(SubSeq(in, 1, q - 1)).part = <<>> /\ Sight(SubSeq(in, 1, q - 1)) \in PartState
      /\ Sight(SubSeq(in, 1, q)).all = Sight(SubSeq(in, 1, q - 1)).all
      /\ Sight(SubSeq(in, 1, q)).part = Dot /\ Sight(SubSeq(in, 1, q)) \in PartState
  BY SimBoundary, Zenon
<1>2. Len(in) \in Nat /\ Slash # "." /\ Slash # Nul /\ Nul # "."
  BY TextParts DEF Slash, Nul
<1>3. PICK a \in Seq(Text) : a = Sight(SubSeq(in, 1, q - 1)).all
  BY <1>1 DEF PartState
<1>4. PICK x \in PartState : x = Sight(st.out) /\ x.all = Follow(<<>>, a) /\ x.part = <<>>
  BY <1>1, <1>3, SightParts DEF Sim, State, Follows
<1>5. Follow(<<>>, Append(a, Dot)) = Follow(<<>>, a)
  <2>1. <<>> \in Seq(Text)
    OBVIOUS
  <2> QED
    BY <2>1, DotsDiffer, FollowText, FollowAppend, FollowSteps
<1>6. PICK y \in PartState : y = Sight(SubSeq(in, 1, q)) /\ y.all = a /\ y.part = Dot
  BY <1>1, <1>3
<1>7. PICK z \in PartState : z = PartStep(y, Slash) /\ z.all = Append(a, Dot) /\ z.part = <<>>
  <2>1. Dot # <<>>
    BY DEF Dot
  <2> QED
    BY <1>6, <2>1, StepClears
<1>8. new.out = st.out /\ new.r = Past(in, q + 1) /\ (new.r \in Nat \ {0} => new \in State)
  BY DEF State, Sim
<1> HIDE DEF new
<1>9. CASE q = Len(in)
  <2>1. q + 1 \notin 1 .. Len(in) /\ At(in, q + 1) # Slash
    BY <1>2, <1>9 DEF At
  <2>2. new.r = Len(in) + 1
    BY <1>8, <1>9, <2>1 DEF Past
  <2>3. SubSeq(in, 1, q) = in
    BY <1>9, TextPrefixes
  <2>4. Parts(in) = Append(a, Dot)
    BY <1>6, <1>7, <2>3, SightParts
  <2>5. Parts(st.out) = Follow(<<>>, a)
    BY <1>4, SightParts, StepClears DEF Sim, State
  <2>6. Done(in, new)
    BY <1>1, <1>2, <1>5, <1>8, <2>2, <2>4, <2>5 DEF Done, Sim
  <2> QED
    BY <1>2, <1>9, <2>2, <2>6 DEF new
<1>10. CASE q # Len(in)
  <2>1. q + 1 \in 1 .. Len(in) /\ q \in 0 .. Len(in) - 1 /\ q \in 1 .. Len(in)
    BY <1>1, <1>2, <1>10
  <2>2. in[q + 1] = Slash /\ At(in, q + 1) = Slash
    BY <1>2, <2>1 DEF Skips, Ends, At, Clean
  <2>3. At(in, q + 2) # Slash
    BY <1>1, <2>1, <2>2 DEF Good
  <2>4. new.r = q + 2
    BY <1>1, <1>8, <2>2 DEF Past
  <2>5. Sight(SubSeq(in, 1, q + 1)) = z
    BY <1>6, <1>7, <2>1, <2>2, SightNext
  <2>9. q + 1 <= Len(in)
    BY <1>2, <2>1
  <2>6. new.r - 1 = q + 1 /\ new.r <= Len(in) + 1 /\ new.r > q /\ new.r > 1 /\ new.r \in Nat \ {0}
    BY <1>2, <2>4, <2>9
  <2>7. Follows(Sight(new.out), Sight(SubSeq(in, 1, new.r - 1)))
    BY <1>4, <1>5, <1>7, <1>8, <2>5, <2>6 DEF Follows
  <2>8. Sim(in, new)
    BY <1>1, <1>2, <1>8, <2>2, <2>3, <2>4, <2>6, <2>7 DEF Sim
  <2> QED
    BY <2>6, <2>8 DEF new
<1> QED
  BY <1>9, <1>10

LEMMA TextSame ==
  ASSUME NEW s \in Text, NEW t \in Text, Len(s) = Len(t), \A k \in 1 .. Len(s) : s[k] = t[k]
  PROVE  s = t
BY SeqEqual DEF Text

LEMMA TwoDots == Append(Dot, ".") = DotDot
<1>0. PICK c \in Char, d \in Text : c = "." /\ d = Dot
  BY DotsDiffer, Characters
<1>2. d[1] = c /\ DotDot[1] = c /\ DotDot[2] = c /\ Len(d) = 1 /\ 1 \in 1 .. Len(d) /\ 1 + 1 = 2
  BY <1>0 DEF Dot, DotDot
<1>5. /\ Append(d, c) \in Text /\ Len(Append(d, c)) = Len(d) + 1
      /\ Append(d, c)[Len(d) + 1] = c /\ \A k \in 1 .. Len(d) : Append(d, c)[k] = d[k]
  BY TextAppend
<1>1. Append(d, c) \in Text /\ Len(Append(d, c)) = 2
  BY <1>2, <1>5
<1>3. Append(d, c)[1] = c /\ Append(d, c)[2] = c
  BY <1>2, <1>5
<1>4. \A k \in 1 .. 2 : Append(d, c)[k] = DotDot[k]
  <2>1. \A k \in 1 .. 2 : k = 1 \/ k = 2
    OBVIOUS
  <2> QED
    BY <1>2, <1>3, <2>1
<1> QED
  BY <1>0, <1>1, <1>4, DotsDiffer, TextSame

LEMMA SimClimb ==
  ASSUME NEW in \in Text, Clean(in), Good(in), in[1] = Slash, NEW st \in State, Sim(in, st),
         NEW q \in Nat, q = st.r, q <= Len(in), ~Skips(in, q), Climbs(in, q)
  PROVE  LET new == [r |-> Past(in, q + 2), out |-> Pop(st.out)]
         IN  new.r > q /\ (Sim(in, new) \/ Done(in, new))
<1> DEFINE new == [r |-> Past(in, q + 2), out |-> Pop(st.out)]
<1>1. /\ q \in 2 .. Len(in) /\ in[q] = "." /\ in[q - 1] = Slash
      /\ st.out # <<>> /\ st.out[1] = Slash /\ st.out[Len(st.out)] = Slash
      /\ Sight(SubSeq(in, 1, q - 1)).part = <<>> /\ Sight(SubSeq(in, 1, q - 1)) \in PartState
      /\ Sight(SubSeq(in, 1, q)).all = Sight(SubSeq(in, 1, q - 1)).all
      /\ Sight(SubSeq(in, 1, q)).part = Dot /\ Sight(SubSeq(in, 1, q)) \in PartState
  BY SimBoundary, Zenon
<1>2. Len(in) \in Nat /\ Slash # "." /\ Slash # Nul /\ Nul # "."
  BY TextParts DEF Slash, Nul
<1>3. PICK a \in Seq(Text) : a = Sight(SubSeq(in, 1, q - 1)).all
  BY <1>1 DEF PartState
<1>4. /\ Pop(st.out) \in Text /\ Pop(st.out) # <<>> /\ Single(Pop(st.out))
      /\ Pop(st.out)[1] = Slash /\ Pop(st.out)[Len(Pop(st.out))] = Slash
      /\ Sight(Pop(st.out)).all = IF Sight(st.out).all = <<>> THEN <<>>
         ELSE Front(Sight(st.out).all)
      /\ Sight(Pop(st.out)).part = <<>>
  BY <1>1, PopSight DEF Sim, State
<1>5. PICK x \in PartState : x = Sight(Pop(st.out)) /\ x.part = <<>>
        /\ x.all = Follow(<<>>, Append(a, DotDot))
  <2>1. <<>> \in Seq(Text)
    OBVIOUS
  <2>2. Follow(<<>>, a) \in Seq(Text)
    BY <2>1, FollowText
  <2>3. Follow(<<>>, Append(a, DotDot)) = FollowStep(Follow(<<>>, a), DotDot)
    BY <2>1, DotsDiffer, FollowAppend
  <2>4. FollowStep(Follow(<<>>, a), DotDot) = IF Follow(<<>>, a) = <<>> THEN Follow(<<>>, a)
          ELSE Front(Follow(<<>>, a))
    BY <2>2, DotsDiffer, FollowSteps
  <2>5. Sight(st.out).all = Follow(<<>>, a)
    BY <1>3 DEF Sim, Follows
  <2>6. Sight(Pop(st.out)).all = Follow(<<>>, Append(a, DotDot))
    BY <1>4, <2>3, <2>4, <2>5
  <2> QED
    BY <1>4, <2>6, SightParts
<1>6. q + 1 \in 1 .. Len(in) /\ in[q + 1] = "."
  BY <1>2 DEF Climbs, At
<1>7. PICK y \in PartState : y = Sight(SubSeq(in, 1, q + 1)) /\ y.all = a /\ y.part = DotDot
  <2>1. q \in 0 .. Len(in) - 1
    BY <1>1, <1>2, <1>6
  <2>2. Sight(SubSeq(in, 1, q + 1)) = PartStep(Sight(SubSeq(in, 1, q)), ".")
    BY <1>6, <2>1, SightNext
  <2>3. PICK w \in PartState : w = Sight(SubSeq(in, 1, q)) /\ w.all = a /\ w.part = Dot
    BY <1>1, <1>3
  <2>4. /\ PartStep(w, ".") \in PartState /\ PartStep(w, ".").all = w.all
        /\ PartStep(w, ".").part = Append(w.part, ".")
    BY <1>2, Characters, StepGrows
  <2>5. Append(Dot, ".") = DotDot
    BY TwoDots
  <2> QED
    BY <2>2, <2>3, <2>4, <2>5
<1>8. PICK z \in PartState : z = PartStep(y, Slash) /\ z.all = Append(a, DotDot) /\ z.part = <<>>
  <2>1. DotDot # <<>>
    BY DEF DotDot
  <2> QED
    BY <1>7, <2>1, StepClears
<1>9. new.out = Pop(st.out) /\ new.r = Past(in, q + 2) /\ (new.r \in Nat \ {0} => new \in State)
  BY <1>4 DEF State
<1> HIDE DEF new
<1>10. CASE q + 1 = Len(in)
  <2>1. q + 2 \notin 1 .. Len(in) /\ At(in, q + 2) # Slash
    <3>1. q + 2 \notin 1 .. Len(in)
      BY <1>2, <1>10
    <3> QED
      BY <1>2, <3>1 DEF At
  <2>2. new.r = Len(in) + 1
    <3>1. q + 2 = Len(in) + 1
      BY <1>10
    <3> QED
      BY <1>9, <2>1, <3>1 DEF Past
  <2>3. SubSeq(in, 1, q + 1) = in
    BY <1>10, TextPrefixes
  <2>4. Parts(in) = Append(a, DotDot)
    BY <1>7, <1>8, <2>3, SightParts
  <2>5. Parts(Pop(st.out)) = Follow(<<>>, Append(a, DotDot))
    BY <1>4, <1>5, SightParts, StepClears
  <2>6. Done(in, new)
    BY <1>2, <1>4, <1>9, <2>2, <2>4, <2>5 DEF Done
  <2>7. new.r > q
    BY <1>2, <1>10, <2>2
  <2> QED
    BY <2>6, <2>7 DEF new
<1>11. CASE q + 1 # Len(in)
  <2>1. q + 2 \in 1 .. Len(in) /\ q + 1 \in 0 .. Len(in) - 1 /\ q + 1 \in 1 .. Len(in)
        /\ (q + 1) + 1 = q + 2 /\ (q + 1) + 2 = q + 3
    <3>1. PICK N \in Nat : N = Len(in)
      BY <1>2
    <3>2. q + 1 <= N /\ q + 1 # N /\ q \in Nat
      BY <1>6, <1>11, <3>1
    <3>3. q + 2 \in 1 .. N /\ q + 1 \in 0 .. N - 1 /\ q + 1 \in 1 .. N
          /\ (q + 1) + 1 = q + 2 /\ (q + 1) + 2 = q + 3
      BY <3>2
    <3> QED
      BY <3>1, <3>3
  <2>2. in[q + 2] = Slash /\ At(in, q + 2) = Slash
    BY <1>2, <2>1 DEF Climbs, Ends, At, Clean
  <2>3. At(in, q + 3) # Slash
    <3>1. in[q + 1] = "." /\ At(in, (q + 1) + 1) = Slash => At(in, (q + 1) + 2) # Slash
      BY <2>1 DEF Good
    <3> QED
      BY <1>6, <2>1, <2>2, <3>1
  <2>4. new.r = q + 3
    <3>1. (q + 2) + 1 = q + 3
      BY <1>1
    <3> QED
      BY <1>9, <2>2, <3>1 DEF Past
  <2>5. Sight(SubSeq(in, 1, q + 2)) = z
    <3>1. Sight(SubSeq(in, 1, (q + 1) + 1)) = PartStep(Sight(SubSeq(in, 1, q + 1)), in[(q + 1) + 1])
      BY <2>1, SightNext
    <3> QED
      BY <1>7, <1>8, <2>1, <2>2, <3>1
  <2>9. q + 2 <= Len(in)
    BY <1>2, <2>1
  <2>6. new.r - 1 = q + 2 /\ new.r <= Len(in) + 1 /\ new.r > q /\ new.r > 1 /\ new.r \in Nat \ {0}
    BY <1>2, <2>4, <2>9
  <2>7. Follows(Sight(new.out), Sight(SubSeq(in, 1, new.r - 1)))
    BY <1>5, <1>8, <1>9, <2>5, <2>6 DEF Follows
  <2>8. Sim(in, new)
    BY <1>2, <1>4, <1>9, <2>2, <2>3, <2>4, <2>6, <2>7 DEF Sim
  <2> QED
    BY <2>6, <2>8 DEF new
<1> QED
  BY <1>10, <1>11

\* A run of slashes is read like one.
LEMMA SightOfRun ==
  ASSUME NEW in \in Text, NEW n \in 0 .. Len(in) - 1, NEW q \in n + 1 .. Len(in),
         \A j \in n + 1 .. q : in[j] = Slash
  PROVE  Sight(SubSeq(in, 1, q)) = PartStep(Sight(SubSeq(in, 1, n)), Slash)
<1> DEFINE T == {k \in Nat : Sight(SubSeq(in, 1, n + 1 + k))
      = PartStep(Sight(SubSeq(in, 1, n)), Slash)}
<1>1. Len(in) \in Nat /\ q - (n + 1) \in Nat /\ n \in 0 .. Len(in) /\ n + 1 \in n + 1 .. q
        /\ n + 1 + 0 = n + 1
  BY TextParts
<1>2. Sight(SubSeq(in, 1, n)) \in PartState
  BY <1>1, TextPrefixes, SightParts
<1>3. 0 \in T
  BY <1>1, SightNext
<1>4. ASSUME NEW k \in 0 .. (q - (n + 1)) - 1, k \in T PROVE k + 1 \in T
  <2>1. PICK m \in 0 .. Len(in) - 1 : m = n + 1 + k
    BY <1>1
  <2>2. m + 1 \in n + 1 .. q /\ n + 1 + (k + 1) = m + 1 /\ k + 1 \in Nat
    BY <1>1, <2>1
  <2>3. Sight(SubSeq(in, 1, m + 1)) = PartStep(Sight(SubSeq(in, 1, m)), Slash)
    BY <2>2, SightNext
  <2>4. Sight(SubSeq(in, 1, m)) = PartStep(Sight(SubSeq(in, 1, n)), Slash)
    BY <1>4, <2>1
  <2>5. PartStep(PartStep(Sight(SubSeq(in, 1, n)), Slash), Slash)
          = PartStep(Sight(SubSeq(in, 1, n)), Slash)
    BY <1>2, StepClears
  <2> QED
    BY <2>2, <2>3, <2>4, <2>5
<1> HIDE DEF T
<1>5. q - (n + 1) \in T
  <2>1. q - (n + 1) \in 0 .. q - (n + 1)
    BY <1>1
  <2> QED
    BY <1>1, <1>3, <1>4, <2>1, Induct
<1>6. n + 1 + (q - (n + 1)) = q
  BY <1>1
<1> QED
  BY <1>5, <1>6 DEF T

LEMMA SimCopy ==
  ASSUME NEW in \in Text, Clean(in), Good(in), in[1] = Slash, NEW st \in State, Sim(in, st),
         NEW q \in st.r .. Len(in), ~Skips(in, q), ~Climbs(in, q),
         \/ q = st.r /\ in[q] # Slash
         \/ (\A j \in st.r .. q : in[j] = Slash) /\ At(in, q + 1) # Slash
  PROVE  Sim(in, [r |-> q + 1, out |-> Append(st.out, in[q])])
<1> DEFINE new == [r |-> q + 1, out |-> Append(st.out, in[q])]
<1>1. Len(in) \in Nat /\ Slash # "." /\ Slash # Nul /\ Nul # "." /\ st.out \in Text
        /\ st.r \in Nat \ {0}
  BY TextParts DEF Slash, Nul, State
<1>2. q \in 1 .. Len(in) /\ in[q] \in Char /\ (q + 1) - 1 = q
  BY <1>1, TextParts
<1>3. PICK n \in 0 .. Len(in) - 1 : n = st.r - 1
  BY <1>1
<1>4. PICK s \in Text : s = SubSeq(in, 1, n) /\ Len(s) = n /\ \A i \in 1 .. n : s[i] = in[i]
  <2>1. n \in 0 .. Len(in)
    BY <1>1
  <2> QED
    BY <2>1, TextPrefixes
<1>5. PICK x \in PartState, y \in PartState : x = Sight(st.out) /\ y = Sight(s) /\ Follows(x, y)
  BY <1>1, <1>3, <1>4, SightParts DEF Sim
<1>6. PICK c \in Char : c = in[q]
  BY <1>2
<1>7. Sight(Append(st.out, c)) = PartStep(x, c)
  BY <1>1, <1>5, SightAppend
<1>8. /\ Append(st.out, c) \in Text /\ Len(Append(st.out, c)) = Len(st.out) + 1
         /\ Len(st.out) \in Nat
      /\ Append(st.out, c)[Len(st.out) + 1] = c
         /\ \A k \in 1 .. Len(st.out) : Append(st.out, c)[k] = st.out[k]
      /\ Append(st.out, c) # <<>>
  <2>1. PICK o \in Text : o = st.out
    BY <1>1
  <2>2. Append(o, c) # <<>> /\ Len(o) \in Nat
    <3>1. Len(o) \in Nat
      BY TextParts
    <3>2. Append(o, c) # <<>>
      BY AppendSome, ZenonT(40) DEF Text
    <3> QED
      BY <3>1, <3>2
  <2>3. /\ Append(o, c) \in Text /\ Len(Append(o, c)) = Len(o) + 1
        /\ Append(o, c)[Len(o) + 1] = c /\ \A k \in 1 .. Len(o) : Append(o, c)[k] = o[k]
    BY TextAppend
  <2> QED
    BY <2>1, <2>2, <2>3
<1>9. new.r = q + 1 /\ new.out = Append(st.out, c) /\ new \in State
  BY <1>2, <1>6, <1>8 DEF State
<1> HIDE DEF new
<1>10. st.out = <<>> => c = Slash
  <2>1. SUFFICES ASSUME st.out = <<>> PROVE c = Slash
    OBVIOUS
  <2>2. st.r = 1
    BY <2>1 DEF Sim
  <2>3. in[st.r] = Slash /\ st.r \in st.r .. q
    BY <1>1, <2>2
  <2> QED
    BY <1>1, <1>6, <2>3
<1>11. Append(st.out, c)[1] = Slash
  <2>1. CASE st.out = <<>>
    <3>1. Len(st.out) + 1 = 1
      BY <2>1
    <3> QED
      BY <1>8, <1>10, <2>1, <3>1
  <2>2. CASE st.out # <<>>
    <3>1. 1 \in 1 .. Len(st.out) /\ st.out[1] = Slash
      BY <1>1, <2>2, TextParts DEF Sim
    <3> QED
      BY <1>8, <3>1
  <2> QED
    BY <2>1, <2>2
<1>12. c = Slash /\ st.out # <<>> => st.out[Len(st.out)] # Slash
  <2> SUFFICES ASSUME c = Slash, st.out # <<>>, st.out[Len(st.out)] = Slash PROVE FALSE
    OBVIOUS
  <2>1. st.r > 1 /\ in[st.r - 1] = Slash
    BY DEF Sim
  <2>2. At(in, st.r) # Slash
    BY <2>1 DEF Sim
  <2>3. st.r \in 1 .. Len(in) /\ in[st.r] = Slash
    BY <1>1, <1>2, <1>6
  <2> QED
    BY <2>2, <2>3 DEF At
<1>13. Single(Append(st.out, c))
  <2> SUFFICES ASSUME NEW k \in 1 .. Len(Append(st.out, c)) - 1
               PROVE  ~(Append(st.out, c)[k] = Slash /\ Append(st.out, c)[k + 1] = Slash)
    BY DEF Single
  <2>1. k \in 1 .. Len(st.out)
    BY <1>8
  <2>2. CASE k = Len(st.out)
    <3>1. st.out # <<>>
      BY <2>1
    <3> QED
      BY <1>8, <1>12, <2>1, <2>2, <3>1
  <2>3. CASE k # Len(st.out)
    <3>1. k \in 1 .. Len(st.out) - 1 /\ k + 1 \in 1 .. Len(st.out)
      BY <1>8, <2>1, <2>3
    <3> QED
      BY <1>8, <2>1, <3>1 DEF Sim, Single
  <2> QED
    BY <2>2, <2>3
<1>14. c = "." => ~Ends(in, q + 1) /\ ~(At(in, q + 1) = "." /\ Ends(in, (q + 1) + 1))
  <2>1. (q + 1) + 1 = q + 2
    BY <1>2
  <2> QED
    BY <1>6, <2>1 DEF Skips, Climbs
<1>15. c = Slash => At(in, q + 1) # Slash
  BY <1>6
<1>16. Follows(Sight(Append(st.out, c)), Sight(SubSeq(in, 1, q)))
  <2>1. CASE c # Slash
    <3>1. q = n + 1
      BY <1>1, <1>2, <1>3, <1>6, <2>1
    <3>2. Sight(SubSeq(in, 1, q)) = PartStep(y, c)
      BY <1>4, <1>5, <1>6, <3>1, SightNext
    <3> QED
      BY <1>5, <1>7, <2>1, <3>2, FollowsGrow
  <2>2. CASE c = Slash
    <3>1. q \in n + 1 .. Len(in) /\ \A j \in n + 1 .. q : in[j] = Slash
      BY <1>1, <1>2, <1>3, <1>6, <2>2
    <3>2. Sight(SubSeq(in, 1, q)) = PartStep(y, Slash)
      BY <1>4, <1>5, <3>1, SightOfRun
    <3>3. y.part = <<>> \/ y.part[Len(y.part)] # "."
      <4>1. CASE n = 0
        <5>1. s = <<>>
          BY <1>4, <4>1, TextPrefixes
        <5> QED
          BY <1>5, <5>1, SightLast
      <4>2. CASE n # 0
        <5>1. n \in 1 .. n /\ st.r > 1 /\ in[st.r - 1] = s[n] /\ s # <<>>
          <6>1. n \in 1 .. n /\ st.r > 1 /\ st.r - 1 = n
            BY <1>1, <1>3, <4>2
          <6>2. in[n] = s[n] /\ Len(s) # 0
            BY <1>4, <4>2, <6>1
          <6>3. Len(<<>>) = 0
            OBVIOUS
          <6> QED
            BY <6>1, <6>2, <6>3
        <5>2. st.r \in n + 1 .. q /\ st.r \in 1 .. Len(in)
          BY <1>1, <1>2, <1>3
        <5>3. Ends(in, st.r)
          BY <3>1, <5>2 DEF Ends, At
        <5>4. s[n] # "."
          BY <5>1, <5>3 DEF Sim
        <5> QED
          BY <1>4, <1>5, <5>1, <5>4, SightLast
      <4> QED
        BY <4>1, <4>2
    <3> QED
      BY <1>5, <1>7, <2>2, <3>2, <3>3, FollowsClose
  <2> QED
    BY <2>1, <2>2
<1>17. new.r <= Len(in) + 1 /\ new.r > 1 /\ new.r - 1 = q
  BY <1>1, <1>2, <1>9
<1>18. Sim(in, new)
  BY <1>6, <1>8, <1>9, <1>11, <1>13, <1>14, <1>15, <1>16, <1>17 DEF Sim
<1> QED
  BY <1>6, <1>18 DEF new

\* What path_resolve's loop leaves.
LEMMA ReducedFollows ==
  ASSUME NEW in \in Text, in # <<>>, Clean(in), Good(in), in[1] = Slash
  PROVE  /\ Parts(Reduced(in)) = Follow(<<>>, Parts(in))
         /\ Reduced(in) # <<>> /\ Reduced(in)[1] = Slash /\ Single(Reduced(in))
<1> DEFINE I == {st \in State : Sim(in, st) \/ Done(in, st)}
<1>1. Len(in) \in Nat /\ Len(in) >= 1
  BY TextParts
<1>2. [r |-> 1, out |-> <<>>] \in I
  BY SimStarts DEF Sim
<1>3. \A st \in I : st.r <= Len(in) + 1
  BY <1>1 DEF Sim, Done, State
<1>4. ASSUME NEW st \in I, st.r <= Len(in) PROVE Round(in, st) \in I /\ Round(in, st).r > st.r
  <2>1. st \in State /\ Sim(in, st) /\ st.r \in Nat
    BY <1>1, <1>4 DEF Done, State
  <2>2. PICK q \in st.r .. Len(in) :
           /\ \/ q = st.r /\ in[q] # Slash
              \/ (\A j \in st.r .. q : in[j] = Slash) /\ At(in, q + 1) # Slash
           /\ \/ Skips(in, q) /\ Round(in, st) = [r |-> Past(in, q + 1), out |-> st.out]
              \/ ~Skips(in, q) /\ Climbs(in, q)
                 /\ Round(in, st) = [r |-> Past(in, q + 2), out |-> Pop(st.out)]
              \/ ~Skips(in, q) /\ ~Climbs(in, q)
                 /\ Round(in, st) = [r |-> q + 1, out |-> Append(st.out, in[q])]
    BY <1>4, <2>1, RoundCases
  <2>3. q \in Nat /\ q <= Len(in) /\ (in[q] # Slash => q = st.r) /\ Slash # "."
    BY <1>1, <2>1, <2>2 DEF Slash
  <2>4. CASE Skips(in, q)
    <3>1. q = st.r
      BY <2>3, <2>4 DEF Skips
    <3>2. Round(in, st) = [r |-> Past(in, q + 1), out |-> st.out]
      BY <2>2, <2>4
    <3>3. Round(in, st).r > q /\ (Sim(in, Round(in, st)) \/ Done(in, Round(in, st)))
      BY <2>1, <2>3, <2>4, <3>1, <3>2, SimSkip, Zenon
    <3> QED
      BY <3>1, <3>3 DEF Sim, Done
  <2>5. CASE ~Skips(in, q) /\ Climbs(in, q)
    <3>1. q = st.r
      BY <2>3, <2>5 DEF Climbs
    <3>2. Round(in, st) = [r |-> Past(in, q + 2), out |-> Pop(st.out)]
      BY <2>2, <2>5
    <3>3. Round(in, st).r > q /\ (Sim(in, Round(in, st)) \/ Done(in, Round(in, st)))
      BY <2>1, <2>3, <2>5, <3>1, <3>2, SimClimb, Zenon
    <3> QED
      BY <3>1, <3>3 DEF Sim, Done
  <2>6. CASE ~Skips(in, q) /\ ~Climbs(in, q)
    <3>1. Round(in, st) = [r |-> q + 1, out |-> Append(st.out, in[q])]
      BY <2>2, <2>6
    <3>2. Sim(in, Round(in, st))
      BY <2>1, <2>2, <2>6, <3>1, SimCopy
    <3>3. Round(in, st).r = q + 1 /\ q + 1 > st.r
      BY <2>1, <2>2, <3>1
    <3> QED
      BY <3>2, <3>3 DEF Sim
  <2> QED
    BY <2>4, <2>5, <2>6
<1>5. PICK st \in I : st.r = Len(in) + 1 /\ Reduced(in) = st.out
  <2>1. I \in SUBSET State
    OBVIOUS
  <2> HIDE DEF I
  <2> QED
    BY <1>2, <1>3, <1>4, <2>1, ReadingKeeps
<1>6. CASE Done(in, st)
  BY <1>5, <1>6 DEF Done
<1>7. CASE Sim(in, st)
  <2>1. st.r > 1 /\ st.r - 1 = Len(in)
    BY <1>1, <1>5
  <2>2. st.out # <<>> /\ st.out[1] = Slash /\ Single(st.out) /\ st.out \in Text
    BY <1>7, <2>1 DEF Sim, State
  <2>3. in[Len(in)] # "."
    <3>1. At(in, st.r) = Nul
      <4>1. st.r \notin 1 .. Len(in)
        BY <1>1, <1>5
      <4> QED
        BY <4>1 DEF At
    <3> QED
      BY <1>7, <2>1, <3>1 DEF Sim, Ends
  <2>4. PICK x \in PartState, y \in PartState : x = Sight(st.out) /\ y = Sight(in) /\ Follows(x, y)
    <3>1. SubSeq(in, 1, st.r - 1) = in
      BY <2>1, TextPrefixes
    <3> QED
      BY <1>7, <2>2, <3>1, SightParts DEF Sim
  <2>5. y.part = <<>> \/ y.part[Len(y.part)] # "."
    BY <2>3, <2>4, SightLast
  <2>6. Follows(PartStep(x, Slash), PartStep(y, Slash))
    BY <2>4, <2>5, FollowsClose
  <2>7. Parts(st.out) = Follow(<<>>, Parts(in))
    BY <2>2, <2>4, <2>6, SightParts DEF Follows
  <2> QED
    BY <1>5, <2>2, <2>7
<1> QED
  BY <1>6, <1>7

-----------------------------------------------------------------------------
(* No component that path_resolve writes ends in a dot.                      *)

\* Pop leaves a part of the text that ends in a slash.
LEMMA PopPrefix ==
  ASSUME NEW out \in Text, out # <<>>, out[1] = Slash
  PROVE  \E top \in 1 .. Len(out) : out[top] = Slash /\ Pop(out) = SubSeq(out, 1, top)
<1>1. Len(out) \in Nat /\ Len(out) >= 1
  BY TextParts
<1>2. CASE Len(out) = 1
  <2>1. Pop(out) = out
    BY <1>2 DEF Pop
  <2>2. SubSeq(out, 1, 1) = out
    BY <1>2, TextPrefixes
  <2> QED
    BY <1>2, <2>1, <2>2
<1>3. CASE Len(out) # 1
  <2>1. Len(out) > 1
    <3>1. PICK n \in Nat : n = Len(out) /\ n >= 1
      BY <1>1
    <3> QED
      BY <1>3, <3>1
  <2>2. PICK top \in 1 .. Len(out) - 1 : out[top] = Slash /\ Pop(out) = SubSeq(out, 1, top)
    BY <2>1, PopCuts
  <2>3. top \in 1 .. Len(out)
    BY <1>1
  <2> QED
    BY <2>2, <2>3
<1> QED
  BY <1>2, <1>3

\* A dot at the end of what is written is one that a name goes on after.
Whole(in, st) ==
  /\ st \in State /\ st.r <= Len(in) + 1
  /\ Clean(st.out)
  /\ \/ st.r = 1 /\ st.out = <<>>
     \/ st.out # <<>> /\ st.out[1] = Slash
  /\ \A k \in 1 .. Len(st.out) - 1 : st.out[k] = "." => st.out[k + 1] # Slash
  /\ st.out # <<>> /\ st.out[Len(st.out)] = "." =>
       ~Ends(in, st.r) /\ ~(At(in, st.r) = "." /\ Ends(in, st.r + 1))

LEMMA WholeStarts ==
  ASSUME NEW in \in Text
  PROVE  Whole(in, [r |-> 1, out |-> <<>>])
<1> DEFINE st == [r |-> 1, out |-> <<>>]
<1>1. st \in State /\ st.r = 1 /\ st.out = <<>> /\ Len(in) \in Nat
  BY SlashText, TextParts DEF State
<1>2. Clean(<<>>) /\ \A k \in 1 .. Len(<<>>) - 1 : FALSE
  BY DEF Clean
<1> HIDE DEF st
<1>3. Whole(in, st)
  BY <1>1, <1>2 DEF Whole
<1> QED
  BY <1>3 DEF st

LEMMA WholeDots ==
  ASSUME NEW in \in Text, Clean(in), in[1] = Slash, NEW st \in State, Whole(in, st),
         NEW q \in Nat, q = st.r, q <= Len(in), Skips(in, q) \/ Climbs(in, q),
         NEW out \in Text, NEW r \in Nat \ {0}, r <= Len(in) + 1,
         (out = st.out /\ Skips(in, q)) \/ out = Pop(st.out)
  PROVE  Whole(in, [r |-> r, out |-> out])
<1>1. /\ Len(in) \in Nat /\ q \in 1 .. Len(in) /\ in[q] = "." /\ Slash # "." /\ st.out \in Text
      /\ Nul # "." /\ Nul # Slash
  BY TextParts DEF Skips, Climbs, Slash, State, Nul
<1>2. st.out # <<>> /\ st.out[1] = Slash
  <2>1. q # 1
    BY <1>1
  <2> QED
    BY <2>1 DEF Whole
<1>3. PICK top \in 1 .. Len(st.out) : /\ out = SubSeq(st.out, 1, top)
                                      /\ st.out[top] # "."
  <2>1. CASE out = Pop(st.out)
    BY <1>1, <1>2, <2>1, PopPrefix
  <2>2. CASE out = st.out /\ Skips(in, q)
    <3>1. SubSeq(st.out, 1, Len(st.out)) = st.out /\ Len(st.out) \in Nat /\ Len(st.out) >= 1
      BY <1>1, <1>2, TextPrefixes, TextParts
    <3>2. At(in, q) = "." /\ Ends(in, q + 1)
      BY <1>1, <2>2 DEF At, Skips
    <3>3. st.out[Len(st.out)] # "."
      BY <1>2, <3>2 DEF Whole
    <3> QED
      BY <2>2, <3>1, <3>3
  <2> QED
    BY <2>1, <2>2
<1>4. PICK N \in Nat : N = Len(st.out)
  BY <1>1, TextParts
<1>5. Len(out) = top /\ \A k \in 1 .. top : out[k] = st.out[k]
  <2>1. top \in 0 .. Len(st.out)
    BY <1>4
  <2> QED
    BY <1>1, <1>3, <2>1, TextPrefixes
<1>6. Clean(out)
  <2>1. \A k \in 1 .. top : k \in 1 .. N /\ st.out[k] # Nul
    BY <1>4 DEF Whole, Clean
  <2> QED
    BY <1>5, <2>1 DEF Clean
<1>7. out # <<>> /\ out[1] = Slash /\ out[Len(out)] # "."
  <2>1. 1 \in 1 .. top /\ top \in 1 .. top /\ Len(out) # 0
    BY <1>4, <1>5
  <2>2. Len(<<>>) = 0
    OBVIOUS
  <2> QED
    BY <1>2, <1>3, <1>5, <2>1, <2>2
<1>8. ASSUME NEW k \in 1 .. Len(out) - 1, out[k] = "." PROVE out[k + 1] # Slash
  <2>1. k \in 1 .. N - 1 /\ k \in 1 .. top /\ k + 1 \in 1 .. top
    BY <1>4, <1>5
  <2>2. st.out[k] = "." => st.out[k + 1] # Slash
    BY <1>4, <2>1 DEF Whole
  <2> QED
    BY <1>5, <1>8, <2>1, <2>2
<1> DEFINE new == [r |-> r, out |-> out]
<1>9. new.r = r /\ new.out = out /\ new \in State
  BY DEF State
<1> HIDE DEF new
<1>10. Whole(in, new)
  BY <1>6, <1>7, <1>8, <1>9 DEF Whole
<1> QED
  BY <1>10 DEF new

LEMMA WholeCopies ==
  ASSUME NEW in \in Text, Clean(in), in[1] = Slash, NEW st \in State, Whole(in, st),
         NEW q \in st.r .. Len(in), ~Skips(in, q), ~Climbs(in, q),
         \/ q = st.r /\ in[q] # Slash
         \/ (\A j \in st.r .. q : in[j] = Slash) /\ At(in, q + 1) # Slash
  PROVE  Whole(in, [r |-> q + 1, out |-> Append(st.out, in[q])])
<1>1. Len(in) \in Nat /\ Slash # "." /\ Slash # Nul /\ Nul # "." /\ st.out \in Text
        /\ st.r \in Nat \ {0}
  BY TextParts DEF Slash, Nul, State
<1>2. q \in 1 .. Len(in) /\ q <= Len(in) /\ q + 1 \in Nat \ {0} /\ q + 1 <= Len(in) + 1
        /\ st.r \in 1 .. Len(in)
      /\ st.r \in st.r .. q
  BY <1>1
<1>3. PICK c \in Char : c = in[q] /\ c # Nul
  BY <1>2, TextParts DEF Clean
<1>4. PICK o \in Text, n \in Nat : o = st.out /\ n = Len(o)
  BY <1>1, TextParts
<1>5. PICK out \in Text : /\ out = Append(o, c) /\ Len(out) = n + 1 /\ out[n + 1] = c
                          /\ \A k \in 1 .. n : out[k] = o[k]
                          /\ out # <<>>
  <2>1. /\ Append(o, c) \in Text /\ Len(Append(o, c)) = Len(o) + 1
        /\ \A k \in 1 .. Len(o) : Append(o, c)[k] = o[k]
        /\ Append(o, c)[Len(o) + 1] = c
    BY TextAppend
  <2>2. Append(o, c) # <<>>
    BY AppendSome DEF Text
  <2> QED
    BY <1>4, <2>1, <2>2
<1>6. o = <<>> => c = Slash
  <2> SUFFICES ASSUME o = <<>> PROVE c = Slash
    OBVIOUS
  <2>1. st.r = 1
    BY <1>4 DEF Whole
  <2> QED
    BY <1>2, <1>3, <2>1
<1>7. n = 0 <=> o = <<>>
  BY <1>4, TextParts
<1>8. out[1] = Slash /\ out # <<>>
  <2>1. CASE n = 0
    BY <1>5, <1>6, <1>7, <2>1
  <2>2. CASE n # 0
    <3>1. 1 \in 1 .. n
      BY <2>2
    <3>2. o[1] = Slash
      BY <1>4, <1>7, <2>2 DEF Whole
    <3> QED
      BY <1>5, <3>1, <3>2
  <2> QED
    BY <2>1, <2>2
<1>9. Clean(out)
  <2>1. \A k \in 1 .. n : o[k] # Nul
    BY <1>4 DEF Whole, Clean
  <2>2. \A k \in 1 .. n + 1 : k \in 1 .. n \/ k = n + 1
    OBVIOUS
  <2> QED
    BY <1>3, <1>5, <2>1, <2>2 DEF Clean
<1>10. ASSUME NEW k \in 1 .. Len(out) - 1, out[k] = "." PROVE out[k + 1] # Slash
  <2>1. k \in 1 .. n /\ o[k] = "."
    BY <1>5, <1>10
  <2>2. CASE k = n
    <3>1. ~Ends(in, st.r)
      BY <1>4, <1>7, <2>1, <2>2 DEF Whole
    <3>2. in[st.r] # Slash
      BY <1>2, <3>1 DEF Ends, At
    <3>3. c # Slash
      BY <1>2, <1>3, <3>2
    <3> QED
      BY <1>5, <2>2, <3>3
  <2>3. CASE k # n
    <3>1. k \in 1 .. n - 1 /\ k + 1 \in 1 .. n
      BY <2>1, <2>3
    <3>2. o[k + 1] # Slash
      BY <1>4, <2>1, <3>1 DEF Whole
    <3> QED
      BY <1>5, <3>1, <3>2
  <2> QED
    BY <2>2, <2>3
<1>11. c = "." => ~Ends(in, q + 1) /\ ~(At(in, q + 1) = "." /\ Ends(in, (q + 1) + 1))
  <2>1. (q + 1) + 1 = q + 2
    BY <1>2
  <2> QED
    BY <1>3, <2>1 DEF Skips, Climbs
<1> DEFINE new == [r |-> q + 1, out |-> out]
<1>12. new.r = q + 1 /\ new.out = out /\ new \in State
  BY <1>2 DEF State
<1>13. out[Len(out)] = c
  BY <1>5
<1> HIDE DEF new
<1>14. Whole(in, new)
  BY <1>2, <1>8, <1>9, <1>10, <1>11, <1>12, <1>13 DEF Whole
<1> QED
  BY <1>3, <1>4, <1>5, <1>14 DEF new

LEMMA PastBounds ==
  ASSUME NEW in \in Text, NEW i \in Nat \ {0}, i <= Len(in) + 1
  PROVE  Past(in, i) \in Nat \ {0} /\ Past(in, i) <= Len(in) + 1 /\ Past(in, i) >= i
<1>1. Len(in) \in Nat /\ Slash # Nul
  BY TextParts DEF Slash, Nul
<1>2. CASE At(in, i) = Slash
  <2>1. i \in 1 .. Len(in)
    BY <1>1, <1>2 DEF At
  <2>2. Past(in, i) = i + 1
    BY <1>2 DEF Past
  <2> QED
    BY <1>1, <2>1, <2>2
<1>3. CASE At(in, i) # Slash
  BY <1>3 DEF Past
<1> QED
  BY <1>2, <1>3

LEMMA ReducedTidy ==
  ASSUME NEW in \in Text, in # <<>>, Clean(in), in[1] = Slash
  PROVE  /\ Reduced(in) # <<>> /\ Reduced(in)[1] = Slash
         /\ Clean(Reduced(in)) /\ Tidy(Reduced(in))
<1> DEFINE I == {st \in State : Whole(in, st)}
<1>1. PICK N \in Nat : N = Len(in) /\ N >= 1
  BY TextParts
<1>2. [r |-> 1, out |-> <<>>] \in I
  BY WholeStarts DEF Whole
<1>3. \A st \in I : st.r <= Len(in) + 1
  BY DEF Whole
<1>4. ASSUME NEW st \in I, st.r <= Len(in) PROVE Round(in, st) \in I /\ Round(in, st).r > st.r
  <2>1. st \in State /\ Whole(in, st) /\ st.r \in Nat \ {0} /\ st.out \in Text
    BY DEF State
  <2>2. PICK q \in st.r .. Len(in) :
           /\ \/ q = st.r /\ in[q] # Slash
              \/ (\A j \in st.r .. q : in[j] = Slash) /\ At(in, q + 1) # Slash
           /\ \/ Skips(in, q) /\ Round(in, st) = [r |-> Past(in, q + 1), out |-> st.out]
              \/ ~Skips(in, q) /\ Climbs(in, q)
                 /\ Round(in, st) = [r |-> Past(in, q + 2), out |-> Pop(st.out)]
              \/ ~Skips(in, q) /\ ~Climbs(in, q)
                 /\ Round(in, st) = [r |-> q + 1, out |-> Append(st.out, in[q])]
    BY <1>4, <2>1, RoundCases
  <2>3. q \in Nat /\ q <= N /\ q >= st.r /\ Slash # "." /\ (in[q] # Slash => q = st.r)
    BY <1>1, <2>1, <2>2 DEF Slash
  <2>4. CASE Skips(in, q)
    <3>1. q = st.r /\ q + 1 \in Nat \ {0} /\ q + 1 <= N + 1
      BY <2>3, <2>4 DEF Skips
    <3>2. PICK r \in Nat \ {0} : r = Past(in, q + 1) /\ r <= N + 1 /\ r >= q + 1
      BY <1>1, <3>1, PastBounds
    <3>3. Round(in, st) = [r |-> r, out |-> st.out]
      BY <2>2, <2>4, <3>2
    <3>4. Whole(in, Round(in, st))
      BY <1>1, <2>1, <2>3, <2>4, <3>1, <3>2, <3>3, WholeDots
    <3>5. Round(in, st).r = r /\ r > q
      BY <2>3, <3>2, <3>3
    <3> QED
      BY <3>1, <3>4, <3>5 DEF Whole
  <2>5. CASE ~Skips(in, q) /\ Climbs(in, q)
    <3>0. in[q + 1] = "." /\ q + 1 \in 1 .. N
      BY <1>1, <2>5 DEF Climbs, At, Nul
    <3>1. q = st.r /\ q + 2 \in Nat \ {0} /\ q + 2 <= N + 1
      BY <2>3, <2>5, <3>0 DEF Climbs
    <3>2. PICK r \in Nat \ {0} : r = Past(in, q + 2) /\ r <= N + 1 /\ r >= q + 2
      BY <1>1, <3>1, PastBounds
    <3>3. Round(in, st) = [r |-> r, out |-> Pop(st.out)] /\ Pop(st.out) \in Text
      BY <2>1, <2>2, <2>5, <3>2, PopText
    <3>4. Whole(in, Round(in, st))
      BY <1>1, <2>1, <2>3, <2>5, <3>1, <3>2, <3>3, WholeDots
    <3>5. Round(in, st).r = r /\ r > q
      BY <2>3, <3>2, <3>3
    <3> QED
      BY <3>1, <3>4, <3>5 DEF Whole
  <2>6. CASE ~Skips(in, q) /\ ~Climbs(in, q)
    <3>1. Round(in, st) = [r |-> q + 1, out |-> Append(st.out, in[q])]
      BY <2>2, <2>6
    <3>2. Whole(in, Round(in, st))
      BY <2>1, <2>2, <2>6, <3>1, WholeCopies
    <3>3. Round(in, st).r = q + 1 /\ q + 1 > st.r
      BY <2>1, <2>2, <3>1
    <3> QED
      BY <3>2, <3>3 DEF Whole
  <2> QED
    BY <2>4, <2>5, <2>6
<1>5. PICK st \in I : st.r = Len(in) + 1 /\ Reduced(in) = st.out
  <2>1. I \in SUBSET State
    OBVIOUS
  <2> HIDE DEF I
  <2> QED
    BY <1>2, <1>3, <1>4, <2>1, ReadingKeeps
<1>6. PICK o \in Text : o = st.out
  BY DEF State
<1>7. Whole(in, st) /\ st.r # 1
  BY <1>1, <1>5
<1>8. o # <<>> /\ o[1] = Slash /\ Clean(o)
  BY <1>6, <1>7 DEF Whole
<1>9. o[Len(o)] # "."
  <2>1. At(in, st.r) = Nul
    <3>1. st.r \notin 1 .. Len(in)
      BY <1>1, <1>5
    <3> QED
      BY <3>1 DEF At
  <2> QED
    BY <1>6, <1>7, <1>8, <2>1 DEF Whole, Ends
<1>10. Tidy(o)
  <2> SUFFICES ASSUME NEW k \in 1 .. Len(o), o[k] = "." PROVE ~Ends(o, k + 1)
    BY DEF Tidy
  <2>1. Len(o) \in Nat /\ k # Len(o)
    BY <1>9, TextParts
  <2>2. k \in 1 .. Len(o) - 1 /\ k + 1 \in 1 .. Len(o)
    BY <2>1
  <2>3. o[k + 1] # Slash /\ o[k + 1] # Nul
    BY <1>6, <1>7, <1>8, <2>2 DEF Whole, Clean
  <2> QED
    BY <2>2, <2>3 DEF Ends, At
<1> QED
  BY <1>5, <1>6, <1>8, <1>10

-----------------------------------------------------------------------------
(* path_resolve of a path that fits means what Meaning says.                 *)

NoDotEnds(comps) == \A k \in 1 .. Len(comps) : comps[k] # <<>> /\ comps[k][Len(comps[k])] # "."

LEMMA StepNoDotEnds ==
  ASSUME NEW st \in PartState, NEW c \in Char, NoDotEnds(st.all),
         c = Slash /\ st.part # <<>> => st.part[Len(st.part)] # "."
  PROVE  NoDotEnds(PartStep(st, c).all)
<1>1. CASE c # Slash
  BY <1>1, StepGrows
<1>2. CASE c = Slash /\ st.part = <<>>
  BY <1>2, StepClears
<1>3. CASE c = Slash /\ st.part # <<>>
  <2>1. PICK a \in Seq(Text), p \in Text : a = st.all /\ p = st.part
    BY DEF PartState
  <2>2. PICK b \in Seq(Text) : b = Append(a, p)
    <3>1. Append(a, p) \in Seq(Text)
      BY AppendProperties
    <3> QED
      BY <3>1
  <2>3. PICK n \in Nat : n = Len(a)
    BY <2>1
  <2>4. Len(b) = n + 1 /\ b[n + 1] = p /\ \A k \in 1 .. n : b[k] = a[k]
    BY <2>1, <2>2, <2>3
  <2>5. \A k \in 1 .. n + 1 : k \in 1 .. n \/ k = n + 1
    BY <2>3
  <2>6. NoDotEnds(b)
    BY <1>3, <2>1, <2>3, <2>4, <2>5 DEF NoDotEnds
  <2> QED
    BY <1>3, <2>1, <2>2, <2>6, StepClears
<1> QED
  BY <1>1, <1>2, <1>3

LEMMA TidyParts ==
  ASSUME NEW s \in Text, Tidy(s)
  PROVE  \A k \in 1 .. Len(Parts(s)) : Parts(s)[k] \notin {Dot, DotDot}
<1> DEFINE T == {k \in Nat : NoDotEnds(Sight(SubSeq(s, 1, k)).all)}
<1>1. PICK N \in Nat : N = Len(s)
  BY TextParts
<1>2. 0 \in T
  <2>1. NoParts.all = <<>> /\ SubSeq(s, 1, 0) = <<>>
    BY TextPrefixes DEF NoParts
  <2>2. NoDotEnds(<<>>)
    BY DEF NoDotEnds
  <2> QED
    BY <2>1, <2>2, SightEmpty
<1>3. ASSUME NEW k \in 0 .. N, k = N \/ s[k + 1] = Slash,
             Sight(SubSeq(s, 1, k)).part # <<>>
      PROVE  Sight(SubSeq(s, 1, k)).part[Len(Sight(SubSeq(s, 1, k)).part)] # "."
  <2>1. PICK u \in Text : u = SubSeq(s, 1, k) /\ Len(u) = k /\ \A i \in 1 .. k : u[i] = s[i]
    BY <1>1, TextPrefixes
  <2>2. u # <<>> /\ u[Len(u)] # Slash
    BY <1>3, <2>1, SightLast
  <2>3. k \in 1 .. k /\ k \in 1 .. N
    BY <1>1, <2>1, <2>2, TextParts
  <2>4. At(s, k + 1) \in {Slash, Nul}
    <3>1. CASE k = N
      BY <1>1, <3>1 DEF At
    <3>2. CASE k # N
      <4>1. k + 1 \in 1 .. N
        BY <1>1, <2>3, <3>2
      <4> QED
        BY <1>1, <1>3, <3>2, <4>1 DEF At
    <3> QED
      BY <3>1, <3>2
  <2>5. s[k] # "."
    BY <1>1, <2>3, <2>4 DEF Tidy, Ends
  <2>6. u[Len(u)] # "."
    BY <2>1, <2>3, <2>5
  <2>7. Sight(u).part[Len(Sight(u).part)] = u[Len(u)]
    BY <2>2, SightLast
  <2> QED
    BY <2>1, <2>6, <2>7
<1>4. ASSUME NEW k \in 0 .. N - 1, k \in T PROVE k + 1 \in T
  <2>1. k \in 0 .. N /\ k + 1 \in 1 .. N /\ s[k + 1] \in Char /\ k + 1 \in Nat
          /\ k \in 0 .. Len(s) - 1
    BY <1>1, TextParts
  <2>2. PICK st \in PartState : st = Sight(SubSeq(s, 1, k))
    BY <1>1, <2>1, TextPrefixes, SightParts
  <2>3. Sight(SubSeq(s, 1, k + 1)) = PartStep(st, s[k + 1])
    BY <2>1, <2>2, SightNext
  <2>4. NoDotEnds(st.all)
    BY <1>4, <2>2
  <2>5. s[k + 1] = Slash /\ st.part # <<>> => st.part[Len(st.part)] # "."
    BY <1>3, <2>1, <2>2
  <2>6. NoDotEnds(PartStep(st, s[k + 1]).all)
    BY <2>1, <2>4, <2>5, StepNoDotEnds
  <2> QED
    BY <2>1, <2>3, <2>6
<1> HIDE DEF T
<1>5. N \in T /\ N \in 0 .. N
  <2>1. N \in 0 .. N
    BY <1>1
  <2> QED
    BY <1>2, <1>4, <2>1, Induct
<1>6. PICK st \in PartState : st = Sight(s) /\ NoDotEnds(st.all)
        /\ Parts(s) = PartStep(st, Slash).all
  <2>1. SubSeq(s, 1, N) = s
    BY <1>1, TextPrefixes
  <2> QED
    BY <1>5, <2>1, SightParts DEF T
<1>7. st.part # <<>> => st.part[Len(st.part)] # "."
  <2>1. SubSeq(s, 1, N) = s
    BY <1>1, TextPrefixes
  <2> QED
    BY <1>3, <1>5, <1>6, <2>1
<1>8. NoDotEnds(Parts(s))
  BY <1>6, <1>7, Characters, StepNoDotEnds
<1>9. Dot[Len(Dot)] = "." /\ DotDot[Len(DotDot)] = "."
  BY DEF Dot, DotDot
<1> QED
  BY <1>8, <1>9 DEF NoDotEnds

LEMMA CutAll ==
  ASSUME NEW s \in Text, NEW n \in Nat, Len(s) < n
  PROVE  Cut(s, n) = s
<1>1. Cut(s, n) = SubSeq(s, 1, Len(s))
  BY DEF Cut
<1> QED
  BY <1>1, TextPrefixes

LEMMA CutSome ==
  ASSUME NEW s \in Text, s # <<>>, NEW n \in Nat, n > 1
  PROVE  /\ Cut(s, n) \in Text /\ Cut(s, n) # <<>> /\ Len(Cut(s, n)) <= Len(s)
         /\ \A k \in 1 .. Len(Cut(s, n)) : Cut(s, n)[k] = s[k]
<1>1. PICK N \in Nat : N = Len(s) /\ N >= 1
  BY TextParts
<1>2. PICK m \in 0 .. N : m >= 1 /\ Cut(s, n) = SubSeq(s, 1, m)
  <2>1. CASE N < n
    BY <1>1, <2>1 DEF Cut
  <2>2. CASE ~(N < n)
    <3>1. n - 1 \in 0 .. N /\ n - 1 >= 1
      BY <1>1, <2>2
    <3>2. Cut(s, n) = SubSeq(s, 1, n - 1)
      BY <1>1, <2>2 DEF Cut
    <3> QED
      BY <3>1, <3>2
  <2> QED
    BY <2>1, <2>2
<1>3. SubSeq(s, 1, m) \in Text /\ Len(SubSeq(s, 1, m)) = m
        /\ \A k \in 1 .. m : SubSeq(s, 1, m)[k] = s[k]
  BY <1>1, <1>2, TextPrefixes
<1>4. SubSeq(s, 1, m) # <<>>
  <2>1. Len(<<>>) = 0
    OBVIOUS
  <2> QED
    BY <1>2, <1>3, <2>1
<1> QED
  BY <1>1, <1>2, <1>3, <1>4

\* A text that ends in a slash has closed all of its parts.
LEMMA ClosedParts ==
  ASSUME NEW s \in Text, s # <<>>, s[Len(s)] = Slash
  PROVE  Sight(s).all = Parts(s) /\ Sight(s).part = <<>>
<1>1. Sight(s).part = <<>>
  BY SightLast
<1> QED
  BY <1>1, SightParts, StepClears

LEMMA SlashEnds ==
  ASSUME NEW s \in Text
  PROVE  /\ Append(s, Slash) \in Text
         /\ Parts(Append(s, Slash)) = Parts(s)
<1>1. Sight(Append(s, Slash)) = PartStep(Sight(s), Slash) /\ Append(s, Slash) \in Text
  BY Characters, SightAppend, TextAppend
<1>2. Append(s, Slash) # <<>> /\ Append(s, Slash)[Len(Append(s, Slash))] = Slash
  BY Characters, AppendSome DEF Text
<1>3. Sight(Append(s, Slash)).all = Parts(Append(s, Slash))
  BY <1>1, <1>2, ClosedParts
<1> QED
  BY <1>1, <1>3, SightParts

\* Behind a directory, a plain path is good to read.
LEMMA PlainBehind ==
  ASSUME NEW head \in Text, head # <<>>, head[1] = Slash, head[Len(head)] = Slash, Clean(head),
         \A k \in 1 .. Len(head) - 1 : head[k] = "." => head[k + 1] # Slash,
         NEW in \in Text, Clean(in), Plain(in)
  PROVE  /\ head \o in \in Text /\ head \o in # <<>> /\ (head \o in)[1] = Slash
         /\ Clean(head \o in) /\ Good(head \o in)
         /\ Parts(head \o in) = Parts(head) \o Parts(in)
<1>1. PICK D \in Nat, N \in Nat : D = Len(head) /\ D >= 1 /\ N = Len(in)
  BY TextParts
<1>2. PICK J \in Text : /\ J = head \o in /\ Len(J) = D + N
                        /\ \A k \in 1 .. D : J[k] = head[k]
                        /\ \A k \in 1 .. N : J[D + k] = in[k]
  <2>1. /\ head \o in \in Text /\ Len(head \o in) = Len(head) + Len(in)
        /\ \A k \in 1 .. Len(head) : (head \o in)[k] = head[k]
        /\ \A k \in 1 .. Len(in) : (head \o in)[Len(head) + k] = in[k]
    BY TextConcat
  <2> QED
    BY <1>1, <2>1
<1>3. Slash # "." /\ Slash # Nul /\ Nul # "."
  BY DEF Slash, Nul
<1>4. J[1] = Slash /\ J # <<>> /\ J[D] = Slash
  <2>1. 1 \in 1 .. D /\ D \in 1 .. D /\ D + N # 0 /\ Len(<<>>) = 0
    BY <1>1
  <2> QED
    BY <1>1, <1>2, <2>1
<1>5. \A k \in 1 .. D + N : k \in 1 .. D \/ (k - D \in 1 .. N /\ D + (k - D) = k)
  BY <1>1
<1>6. Clean(J)
  <2>1. \A k \in 1 .. D : head[k] # Nul
    BY <1>1 DEF Clean
  <2>2. \A k \in 1 .. N : in[k] # Nul
    BY <1>1 DEF Clean
  <2> QED
    BY <1>2, <1>5, <2>1, <2>2 DEF Clean
<1>7. ASSUME NEW i \in Nat \ {0} PROVE At(J, D + i) = At(in, i)
  <2>1. CASE i \in 1 .. N
    <3>1. D + i \in 1 .. D + N
      BY <1>1, <2>1
    <3> QED
      BY <1>1, <1>2, <2>1, <3>1 DEF At
  <2>2. CASE i \notin 1 .. N
    <3>1. D + i \notin 1 .. D + N
      BY <1>1, <1>7, <2>2
    <3> QED
      BY <1>1, <1>2, <2>2, <3>1 DEF At
  <2> QED
    BY <2>1, <2>2
<1>8. At(J, D) = Slash
  <2>1. D \in 1 .. D + N
    BY <1>1
  <2> QED
    BY <1>2, <1>4, <2>1 DEF At
<1>9. ASSUME NEW k \in 1 .. D, J[k] = "."
      PROVE  ~Ends(J, k + 1)
  <2>1. k # D /\ head[k] = "."
    BY <1>2, <1>3, <1>4, <1>9
  <2>2. k \in 1 .. D - 1 /\ k + 1 \in 1 .. D /\ k + 1 \in 1 .. D + N
    BY <1>1, <2>1
  <2>3. head[k + 1] # Slash /\ head[k + 1] # Nul
    BY <1>1, <2>1, <2>2 DEF Clean
  <2>4. At(J, k + 1) = head[k + 1]
    BY <1>2, <2>2 DEF At
  <2> QED
    BY <2>3, <2>4 DEF Ends
<1>10. ASSUME NEW k \in 1 .. D + N, J[k] = ".", Ends(J, k + 1)
       PROVE  Ends(J, k - 1) \/ (At(J, k - 1) = "." /\ Ends(J, k - 2))
  <2>1. PICK i \in 1 .. N : k = D + i
    BY <1>5, <1>9, <1>10
  <2>2. in[i] = "." /\ i + 1 \in Nat \ {0} /\ D + (i + 1) = k + 1
    BY <1>1, <1>2, <1>10, <2>1
  <2>3. Ends(in, i + 1)
    BY <1>7, <1>10, <2>2 DEF Ends
  <2>4. Ends(in, i - 1) \/ (At(in, i - 1) = "." /\ Ends(in, i - 2))
    BY <1>1, <2>2, <2>3 DEF Plain
  <2>5. CASE i = 1
    <3>1. k - 1 = D
      BY <1>1, <2>1, <2>5
    <3> QED
      BY <1>8, <3>1 DEF Ends
  <2>6. CASE i = 2
    <3>1. i - 1 \in Nat \ {0} /\ D + (i - 1) = k - 1 /\ k - 2 = D
      BY <1>1, <2>1, <2>6
    <3>2. At(J, k - 1) = At(in, i - 1)
      BY <1>7, <3>1
    <3> QED
      BY <1>8, <2>4, <3>1, <3>2 DEF Ends
  <2>7. CASE i > 2
    <3>1. i - 1 \in Nat \ {0} /\ D + (i - 1) = k - 1 /\ i - 2 \in Nat \ {0} /\ D + (i - 2) = k - 2
      BY <1>1, <2>1, <2>7
    <3>2. At(J, k - 1) = At(in, i - 1) /\ At(J, k - 2) = At(in, i - 2)
      BY <1>7, <3>1
    <3> QED
      BY <2>4, <3>2 DEF Ends
  <2> QED
    BY <2>1, <2>5, <2>6, <2>7
<1>11. ASSUME NEW k \in 1 .. D + N, J[k] = ".", At(J, k + 1) = Slash
       PROVE  At(J, k + 2) # Slash
  <2>1. PICK i \in 1 .. N : k = D + i
    BY <1>5, <1>9, <1>11 DEF Ends
  <2>2. i + 1 \in Nat \ {0} /\ D + (i + 1) = k + 1 /\ i + 2 \in Nat \ {0} /\ D + (i + 2) = k + 2
          /\ (i + 1) + 1 = i + 2
    BY <1>1, <2>1
  <2>3. At(in, i + 1) = Slash /\ At(J, k + 2) = At(in, i + 2)
    BY <1>7, <1>11, <2>2
  <2> SUFFICES ASSUME At(in, i + 2) = Slash PROVE FALSE
    BY <2>3
  <2>4. i + 2 \in 1 .. N /\ in[i + 2] = Slash
    BY <1>1, <1>3 DEF At
  <2>5. i + 1 \in 1 .. N - 1 /\ i + 1 \in 1 .. N
    BY <1>1, <2>1, <2>4
  <2>6. in[i + 1] = Slash
    BY <1>1, <2>3, <2>5 DEF At
  <2> QED
    BY <1>1, <2>2, <2>4, <2>5, <2>6 DEF Plain
<1>12. Good(J)
  BY <1>2, <1>10, <1>11 DEF Good
<1>13. Parts(head \o in) = Parts(head) \o Parts(in)
  <2>1. Sight(head).all = Parts(head) /\ Sight(head).part = <<>>
    BY ClosedParts
  <2>2. Parts(head \o in) = Sight(head).all \o Parts(in)
    BY <2>1, SightConcat
  <2> QED
    BY <2>1, <2>2
<1> QED
  BY <1>2, <1>4, <1>6, <1>12, <1>13

LEMMA JoinedMeans ==
  ASSUME NEW dir \in Text, dir # <<>>, dir[1] = Slash, Clean(dir), Tidy(dir),
         NEW in \in Text, Clean(in), Plain(in), Fits(dir, in)
  PROVE  LET J == Joined(dir, in)
         IN  /\ J \in Text /\ J # <<>> /\ J[1] = Slash /\ Clean(J) /\ Good(J)
             /\ Len(J) <= Len(dir) + 1 + Len(in)
             /\ Follow(<<>>, Parts(J)) = Meaning(dir, in)
<1>1. PICK A \in Nat, B \in Nat, C \in Nat, Q \in Nat :
        A = Len(dir) /\ B = Len(in) /\ C = Cap /\ Q = Len(DiskPrefix) /\ A + B + Q + 2 < C /\ A >= 1
  BY TextParts, PrefixText, PathConstants DEF Fits
<1>2. Slash # "." /\ Slash # Nul /\ Nul # "."
  BY DEF Slash, Nul
<1>3. <<>> \in Seq(Text)
  OBVIOUS
<1>4. CASE in # <<>> /\ in[1] = Slash
  <2>1. PICK head \in Text : head = <<Slash>> /\ Len(head) = 1 /\ head # <<>> /\ head[1] = Slash
    BY SlashText
  <2>2. Clean(head) /\ \A k \in 1 .. Len(head) - 1 : head[k] = "." => head[k + 1] # Slash
    BY <1>2, <2>1 DEF Clean
  <2>3. PICK J \in Text : /\ J = head \o in /\ J # <<>> /\ J[1] = Slash /\ Clean(J) /\ Good(J)
                          /\ Parts(J) = Parts(head) \o Parts(in)
    BY <2>1, <2>2, PlainBehind
  <2>4. Len(J) = 1 + B
    BY <1>1, <2>1, <2>3, TextConcat
  <2>5. Joined(dir, in) = J
    <3>1. Len(J) < Cap
      BY <1>1, <2>4
    <3> QED
      BY <1>1, <1>4, <2>1, <2>3, <3>1, CutAll DEF Joined
  <2>6. Parts(J) = Parts(in)
    <3>1. <<>> \o Parts(in) = Parts(in)
      BY PartsText
    <3> QED
      BY <2>1, <2>3, <3>1, PartsOfSlash
  <2>7. Meaning(dir, in) = Follow(<<>>, Parts(in))
    BY <1>4 DEF Meaning
  <2> QED
    BY <1>1, <2>3, <2>4, <2>5, <2>6, <2>7
<1>5. CASE ~(in # <<>> /\ in[1] = Slash)
  <2>1. PICK head \in Text : /\ head = IF dir[Len(dir)] = Slash THEN dir ELSE Append(dir, Slash)
                             /\ Parts(head) = Parts(dir)
    BY SlashEnds
  <2>2. /\ head # <<>> /\ head[1] = Slash /\ head[Len(head)] = Slash /\ Clean(head)
        /\ Len(head) <= A + 1 /\ \A k \in 1 .. Len(head) - 1 : head[k] = "." => head[k + 1] # Slash
    <3>1. ASSUME NEW k \in 1 .. A, dir[k] = "." PROVE k # A /\ dir[k + 1] # Slash
      <4>1. ~Ends(dir, k + 1)
        BY <1>1, <3>1 DEF Tidy
      <4>2. k # A
        <5>1. ~(A + 1 \in 1 .. A)
          BY <1>1
        <5> QED
          BY <1>1, <4>1, <5>1 DEF Ends, At
      <4>3. k + 1 \in 1 .. A
        BY <1>1, <4>2
      <4> QED
        BY <1>1, <4>1, <4>2, <4>3 DEF Ends, At
    <3>2. CASE dir[Len(dir)] = Slash
      <4>1. \A k \in 1 .. A - 1 : k \in 1 .. A
        BY <1>1
      <4> QED
        BY <1>1, <2>1, <3>1, <3>2, <4>1
    <3>3. CASE dir[Len(dir)] # Slash
      <4>1. head = Append(dir, Slash)
        BY <2>1, <3>3
      <4>2. head # <<>> /\ head[Len(head)] = Slash
        BY <4>1, Characters, AppendSome DEF Text
      <4>3. Len(head) = A + 1 /\ head[A + 1] = Slash /\ \A k \in 1 .. A : head[k] = dir[k]
        BY <1>1, <4>1, Characters, TextAppend
      <4>4. \A k \in 1 .. A + 1 : k \in 1 .. A \/ k = A + 1
        BY <1>1
      <4>5. Clean(head)
        BY <1>1, <1>2, <4>3, <4>4 DEF Clean
      <4>6. ASSUME NEW k \in 1 .. Len(head) - 1, head[k] = "." PROVE head[k + 1] # Slash
        <5>1. k \in 1 .. A /\ dir[k] = "."
          BY <1>1, <4>3, <4>6
        <5>2. k # A /\ dir[k + 1] # Slash
          BY <3>1, <5>1
        <5>3. k + 1 \in 1 .. A
          BY <1>1, <5>1, <5>2
        <5> QED
          BY <4>3, <5>2, <5>3
      <4>7. head[1] = Slash
        <5>1. 1 \in 1 .. A
          BY <1>1
        <5> QED
          BY <4>3, <5>1
      <4> QED
        BY <1>1, <4>2, <4>3, <4>5, <4>6, <4>7
    <3> QED
      BY <3>2, <3>3
  <2>3. PICK J \in Text : /\ J = head \o in /\ J # <<>> /\ J[1] = Slash /\ Clean(J) /\ Good(J)
                          /\ Parts(J) = Parts(head) \o Parts(in)
    BY <2>2, PlainBehind
  <2>4. Len(J) <= A + 1 + B
    <3>1. Len(J) = Len(head) + B /\ Len(head) \in Nat
      BY <1>1, <2>3, TextConcat, TextParts
    <3> QED
      BY <1>1, <2>2, <3>1
  <2>5. Joined(dir, in) = J
    <3>1. Len(J) < Cap /\ Len(dir) < Cap /\ Cap \in Nat
      <4>1. Len(J) \in Nat
        BY <2>3, TextParts
      <4> QED
        BY <1>1, <2>4, <4>1
    <3>2. Cut(dir, Cap) = dir /\ Cut(J, Cap) = J
      BY <3>1, CutAll
    <3>3. Joined(dir, in) =
            LET base == IF dir = <<>> THEN <<Slash>> ELSE Cut(dir, Cap)
                at   == IF base[Len(base)] = Slash THEN base ELSE Append(base, Slash)
            IN  Cut(at \o in, Cap)
      BY <1>5, Zenon DEF Joined
    <3> QED
      BY <2>1, <2>3, <3>2, <3>3
  <2>6. Follow(<<>>, Parts(dir) \o Parts(in)) = Follow(Parts(dir), Parts(in))
    <3>1. Follow(<<>>, Parts(dir) \o Parts(in)) = Follow(Follow(<<>>, Parts(dir)), Parts(in))
      BY <1>3, PartsText, FollowConcat
    <3>2. Follow(<<>>, Parts(dir)) = Parts(dir)
      BY TidyParts, PartsText, FollowNames
    <3> QED
      BY <3>1, <3>2
  <2>7. Meaning(dir, in) = Follow(Parts(dir), Parts(in))
    BY <1>5 DEF Meaning
  <2> QED
    BY <1>1, <2>1, <2>3, <2>4, <2>5, <2>6, <2>7
<1> QED
  BY <1>4, <1>5

\* The slash at the end goes.
LEMMA Trimmed ==
  ASSUME NEW out \in Text, out # <<>>, out[1] = Slash, Clean(out), Tidy(out),
         NEW p, p = IF Len(out) > 1 /\ out[Len(out)] = Slash THEN Front(out) ELSE out
  PROVE  /\ p \in Text /\ p # <<>> /\ p[1] = Slash /\ Clean(p) /\ Tidy(p)
         /\ Len(p) <= Len(out) /\ Parts(p) = Parts(out)
         /\ Single(out) => Single(p)
<1>1. PICK N \in Nat : N = Len(out) /\ N >= 1
  BY TextParts
<1>2. CASE ~(Len(out) > 1 /\ out[Len(out)] = Slash)
  BY <1>1, <1>2
<1>3. CASE Len(out) > 1 /\ out[Len(out)] = Slash
  <2>1. N - 1 \in 1 .. N /\ N - 1 \in 0 .. N - 1 /\ N - 1 \in 0 .. N /\ (N - 1) + 1 = N
    BY <1>1, <1>3
  <2>2. /\ p = SubSeq(out, 1, N - 1) /\ p \in Text /\ Len(p) = N - 1
        /\ \A i \in 1 .. N - 1 : p[i] = out[i]
    BY <1>1, <1>3, <2>1, TextPrefixes DEF Front
  <2>3. Append(p, Slash) = out
    <3>1. Append(SubSeq(out, 1, N - 1), out[(N - 1) + 1]) = SubSeq(out, 1, (N - 1) + 1)
      BY <1>1, <2>1, LongerPrefix DEF Text
    <3>2. SubSeq(out, 1, N) = out
      BY <1>1, TextPrefixes
    <3> QED
      BY <1>1, <1>3, <2>1, <2>2, <3>1, <3>2
  <2>4. Parts(p) = Parts(out)
    BY <2>2, <2>3, SlashEnds
  <2>5. p # <<>> /\ p[1] = Slash
    <3>1. 1 \in 1 .. N - 1 /\ N - 1 # 0 /\ Len(<<>>) = 0
      BY <2>1
    <3> QED
      BY <2>2, <3>1
  <2>6. \A k \in 1 .. N - 1 : k \in 1 .. N /\ k + 1 \in 1 .. N
    BY <1>1
  <2>7. Clean(p)
    BY <1>1, <2>2, <2>6 DEF Clean
  <2>8. ASSUME NEW k \in 1 .. N - 1, p[k] = "." PROVE ~Ends(p, k + 1)
    <3>1. ~Ends(out, k + 1)
      BY <1>1, <2>2, <2>6, <2>8 DEF Tidy
    <3>2. At(out, k + 1) = out[k + 1]
      BY <1>1, <2>6 DEF At
    <3>3. k # N - 1
      BY <1>1, <1>3, <2>1, <3>1, <3>2 DEF Ends
    <3>4. k + 1 \in 1 .. N - 1
      BY <1>1, <3>3
    <3>5. At(p, k + 1) = out[k + 1]
      BY <2>2, <3>4 DEF At
    <3> QED
      BY <3>1, <3>2, <3>5 DEF Ends
  <2>9. Single(out) => Single(p)
    <3>1. \A k \in 1 .. (N - 1) - 1 : k \in 1 .. N - 1 /\ k + 1 \in 1 .. N - 1
      BY <1>1
    <3> QED
      BY <1>1, <2>2, <3>1 DEF Single
  <2>10. N - 1 <= N
    BY <1>1
  <2> QED
    BY <1>1, <2>2, <2>4, <2>5, <2>7, <2>8, <2>9, <2>10 DEF Tidy
<1> QED
  BY <1>2, <1>3

\* A path that fits is resolved to its meaning.
LEMMA ResolveMeans ==
  ASSUME NEW dir \in Text, dir # <<>>, dir[1] = Slash, Clean(dir), Tidy(dir),
         NEW in \in Text, Clean(in), Plain(in), Fits(dir, in)
  PROVE  LET p == path_resolve(dir, in)
         IN  /\ p \in Text /\ p # <<>> /\ p[1] = Slash /\ Single(p)
             /\ Len(p) <= Len(dir) + 1 + Len(in)
             /\ Parts(p) = Meaning(dir, in)
<1>1. PICK J \in Text : /\ J = Joined(dir, in) /\ J # <<>> /\ J[1] = Slash /\ Clean(J) /\ Good(J)
                        /\ Len(J) <= Len(dir) + 1 + Len(in)
                        /\ Follow(<<>>, Parts(J)) = Meaning(dir, in)
  BY JoinedMeans, Zenon
<1>2. PICK out \in Text : out = Reduced(J) /\ Len(out) <= Len(J)
  BY ReducedText
<1>3. Parts(out) = Meaning(dir, in) /\ out # <<>> /\ out[1] = Slash /\ Single(out)
  BY <1>1, <1>2, ReducedFollows
<1>4. Clean(out) /\ Tidy(out)
  BY <1>1, <1>2, ReducedTidy
<1>5. path_resolve(dir, in) = IF Len(out) > 1 /\ out[Len(out)] = Slash THEN Front(out) ELSE out
  BY <1>1, <1>2 DEF path_resolve
<1>6. PICK p \in Text : /\ p = path_resolve(dir, in) /\ p # <<>> /\ p[1] = Slash /\ Single(p)
                        /\ Len(p) <= Len(out) /\ Parts(p) = Parts(out)
  BY <1>3, <1>4, <1>5, Trimmed
<1>7. Len(p) <= Len(dir) + 1 + Len(in)
  <2>1. Len(p) \in Nat /\ Len(out) \in Nat /\ Len(J) \in Nat /\ Len(dir) \in Nat /\ Len(in) \in Nat
    BY TextParts
  <2> QED
    BY <1>1, <1>2, <1>6, <2>1
<1> QED
  BY <1>3, <1>6, <1>7

\* Whatever is resolved is an absolute path, and no component of it ends in a dot.
LEMMA ResolveTidy ==
  ASSUME NEW dir \in Text, dir # <<>>, dir[1] = Slash, Clean(dir), NEW in \in Text, Clean(in)
  PROVE  LET p == path_resolve(dir, in)
         IN  p \in Text /\ p # <<>> /\ p[1] = Slash /\ Clean(p) /\ Tidy(p)
<1>1. Cap \in Nat /\ Cap > 1
  BY PathConstants, PrefixText, TextConstants, TextParts
<1>2. PICK J \in Text : J = Joined(dir, in) /\ J # <<>> /\ J[1] = Slash /\ Clean(J)
  <2>1. ASSUME NEW a \in Text, a # <<>>, a[1] = Slash, Clean(a), NEW b \in Text, Clean(b)
        PROVE  /\ a \o b \in Text /\ a \o b # <<>> /\ (a \o b)[1] = Slash /\ Clean(a \o b)
    <3>1. PICK m \in Nat, n \in Nat : m = Len(a) /\ m >= 1 /\ n = Len(b)
      BY <2>1, TextParts
    <3>2. /\ a \o b \in Text /\ Len(a \o b) = m + n
          /\ \A k \in 1 .. m : (a \o b)[k] = a[k]
          /\ \A k \in 1 .. n : (a \o b)[m + k] = b[k]
      BY <3>1, TextConcat
    <3>3. \A k \in 1 .. m + n : k \in 1 .. m \/ (k - m \in 1 .. n /\ m + (k - m) = k)
      BY <3>1
    <3>4. 1 \in 1 .. m /\ m + n # 0 /\ Len(<<>>) = 0
      BY <3>1
    <3>5. \A k \in 1 .. n : b[k] # Nul
      BY <2>1, <3>1 DEF Clean
    <3>6. \A k \in 1 .. m : a[k] # Nul
      BY <2>1, <3>1 DEF Clean
    <3>7. \A k \in 1 .. m + n : (a \o b)[k] # Nul
      BY <3>2, <3>3, <3>5, <3>6, ZenonT(40)
    <3> QED
      BY <2>1, <3>2, <3>4, <3>7 DEF Clean
  <2>2. ASSUME NEW a \in Text, a # <<>>, a[1] = Slash, Clean(a)
        PROVE  Cut(a, Cap) \in Text /\ Cut(a, Cap) # <<>> /\ Cut(a, Cap)[1] = Slash
          /\ Clean(Cut(a, Cap))
    <3>1. PICK c \in Text : /\ c = Cut(a, Cap) /\ c # <<>> /\ Len(c) <= Len(a)
                            /\ \A k \in 1 .. Len(c) : c[k] = a[k]
      BY <1>1, <2>2, CutSome
    <3>2. Len(c) \in Nat /\ Len(a) \in Nat /\ Len(c) >= 1
      BY <3>1, TextParts
    <3>3. 1 \in 1 .. Len(c) /\ \A k \in 1 .. Len(c) : k \in 1 .. Len(a)
      BY <3>1, <3>2
    <3> QED
      BY <2>2, <3>1, <3>3 DEF Clean
  <2>3. <<Slash>> \in Text /\ <<Slash>> # <<>> /\ <<Slash>>[1] = Slash /\ Clean(<<Slash>>)
    <3>1. Slash # Nul
      BY DEF Slash, Nul
    <3> QED
      BY <3>1, SlashText DEF Clean
  <2>4. CASE in # <<>> /\ in[1] = Slash
    <3>1. Joined(dir, in) = Cut(<<Slash>> \o in, Cap)
      BY <2>4 DEF Joined
    <3> QED
      BY <2>1, <2>2, <2>3, <3>1
  <2>5. CASE ~(in # <<>> /\ in[1] = Slash)
    <3>1. PICK base \in Text : base = Cut(dir, Cap) /\ base # <<>> /\ base[1] = Slash /\ Clean(base)
      BY <2>2
    <3>2. Append(base, Slash) = base \o <<Slash>>
      BY <3>1, Characters, AppendIsConcat DEF Text
    <3>3. PICK at \in Text : /\ at = IF base[Len(base)] = Slash THEN base ELSE Append(base, Slash)
                             /\ at # <<>> /\ at[1] = Slash /\ Clean(at)
      BY <2>1, <2>3, <3>1, <3>2
    <3>4. Joined(dir, in) =
            LET first == IF dir = <<>> THEN <<Slash>> ELSE Cut(dir, Cap)
                whole == IF first[Len(first)] = Slash THEN first ELSE Append(first, Slash)
            IN  Cut(whole \o in, Cap)
      BY <2>5, Zenon DEF Joined
    <3>5. Joined(dir, in) = Cut(at \o in, Cap)
      BY <3>1, <3>3, <3>4
    <3> QED
      BY <2>1, <2>2, <3>3, <3>5
  <2> QED
    BY <2>4, <2>5
<1>3. PICK out \in Text : out = Reduced(J)
  BY ReducedText
<1>4. out # <<>> /\ out[1] = Slash /\ Clean(out) /\ Tidy(out)
  BY <1>2, <1>3, ReducedTidy
<1>5. path_resolve(dir, in) = IF Len(out) > 1 /\ out[Len(out)] = Slash THEN Front(out) ELSE out
  BY <1>2, <1>3 DEF path_resolve
<1> QED
  BY <1>4, <1>5, Trimmed

-----------------------------------------------------------------------------
(* The disk's part of an absolute path.                                      *)

LEMMA FirstOf ==
  ASSUME NEW c \in Text, NEW rest \in Seq(Text)
  PROVE  Append(<<>>, c) \o rest # <<>> /\ (Append(<<>>, c) \o rest)[1] = c
         /\ Append(<<>>, c) # <<>> /\ Append(<<>>, c)[1] = c /\ Append(<<>>, c) \in Seq(Text)
<1>0. PICK none \in Seq(Text) : none = <<>> /\ Len(none) + 1 = 1
  <2>1. <<>> \in Seq(Text)
    OBVIOUS
  <2>2. Len(<<>>) + 1 = 1
    OBVIOUS
  <2> QED
    BY <2>1, <2>2
<1>1. PICK one \in Seq(Text) : one = Append(none, c) /\ Len(one) = 1 /\ one[1] = c
  <2>2. /\ Append(none, c) \in Seq(Text) /\ Len(Append(none, c)) = Len(none) + 1
        /\ Append(none, c)[Len(none) + 1] = c
    BY AppendProperties
  <2>3. Len(Append(none, c)) = 1 /\ Append(none, c)[1] = c
    BY <1>0, <2>2, Zenon
  <2> QED
    BY <2>2, <2>3, Zenon
<1>2. Len(one \o rest) = 1 + Len(rest) /\ (one \o rest)[1] = one[1] /\ Len(rest) \in Nat
  BY <1>1, ConcatProperties
<1>3. Len(<<>>) = 0
  OBVIOUS
<1> QED
  BY <1>0, <1>1, <1>2, <1>3

\* The first part of a path without doubled slashes stands right behind its
\* first slash, and a slash or the end behind it.
LEMMA FirstPart ==
  ASSUME NEW p \in Text, p # <<>>, p[1] = Slash, Single(p)
  PROVE  \/ p = <<Slash>> /\ Parts(p) = <<>>
         \/ /\ Parts(p) # <<>> /\ Parts(p)[1] \in Text
            /\ Len(Parts(p)[1]) >= 1 /\ Len(Parts(p)[1]) + 1 <= Len(p)
            /\ \A k \in 1 .. Len(Parts(p)[1]) : p[k + 1] = Parts(p)[1][k] /\ p[k + 1] # Slash
            /\ Len(p) = Len(Parts(p)[1]) + 1 \/ p[Len(Parts(p)[1]) + 2] = Slash
<1>1. PICK N \in Nat : N = Len(p) /\ N >= 1
  BY TextParts
<1>2. CASE N = 1
  <2>1. <<Slash>>[1] = Slash /\ \A k \in 1 .. Len(p) : k = 1
    BY <1>1, <1>2
  <2>2. p = <<Slash>>
    BY <1>1, <1>2, <2>1, SlashText, TextSame
  <2> QED
    BY <2>2, PartsOfSlash
<1>3. CASE N # 1
  <2> DEFINE Stops == {k \in 2 .. N + 1 : k = N + 1 \/ p[k] = Slash}
  <2>1. PICK e \in Stops : \A k \in Stops : e <= k
    <3>1. Stops \in SUBSET Nat /\ N + 1 \in Stops
      BY <1>1
    <3> QED
      BY <3>1, Minimum
  <2>2. e \in 3 .. N + 1
    <3>1. 1 \in 1 .. Len(p) - 1 /\ 1 + 1 = 2 /\ 2 # N + 1
      BY <1>1, <1>3
    <3>2. p[2] # Slash
      BY <3>1 DEF Single
    <3> QED
      BY <2>1, <3>1, <3>2
  <2>3. \A k \in 2 .. e - 1 : p[k] # Slash /\ k \in 1 .. N
    <3>1. \A k \in 2 .. e - 1 : k \in 2 .. N + 1 /\ ~(e <= k) /\ k \in 1 .. N
      BY <2>2
    <3> QED
      BY <2>1, <3>1
  <2>4. e = N + 1 \/ (e \in 1 .. N /\ p[e] = Slash)
    BY <2>1, <2>2
  <2> HIDE DEF Stops
  <2> DEFINE T == {k \in Nat : /\ Sight(SubSeq(p, 1, 1 + k)).all = <<>>
                               /\ Sight(SubSeq(p, 1, 1 + k)).part = SubSeq(p, 2, 1 + k)}
  <2>5. 0 \in T
    <3>1. 0 \in 0 .. Len(p) - 1 /\ 0 + 1 = 1 /\ 1 + 0 = 1
      BY <1>1
    <3>2. Sight(SubSeq(p, 1, 0 + 1)) = PartStep(Sight(SubSeq(p, 1, 0)), p[0 + 1])
      BY <3>1, SightNext
    <3>3. Sight(SubSeq(p, 1, 0)) = NoParts
      BY TextPrefixes, SightEmpty
    <3>4. NoParts \in PartState /\ NoParts.all = <<>> /\ NoParts.part = <<>>
      BY <3>3, TextPrefixes, SightParts, SlashText DEF NoParts
    <3>5. PartStep(NoParts, Slash) = NoParts
      BY <3>4, StepClears
    <3>6. SubSeq(p, 2, 1) = <<>>
      BY SubSeqEmpty
    <3> QED
      BY <3>1, <3>2, <3>3, <3>4, <3>5, <3>6
  <2>6. ASSUME NEW k \in 0 .. (e - 2) - 1, k \in T PROVE k + 1 \in T
    <3>1. PICK m \in Nat : m = 1 + k /\ m \in 0 .. N - 1 /\ m \in 0 .. N /\ m + 1 \in 2 .. e - 1
            /\ 1 + (k + 1) = m + 1
                           /\ m + 1 \in 2 .. N /\ 2 \in 1 .. N /\ k + 1 \in Nat
      BY <1>1, <2>2
    <3>2. PICK st \in PartState : st = Sight(SubSeq(p, 1, m)) /\ st.all = <<>>
            /\ st.part = SubSeq(p, 2, m)
      BY <1>1, <2>6, <3>1, TextPrefixes, SightParts
    <3>3. Sight(SubSeq(p, 1, m + 1)) = PartStep(st, p[m + 1])
      BY <1>1, <3>1, <3>2, SightNext
    <3>4. p[m + 1] \in Char /\ p[m + 1] # Slash
      BY <1>1, <2>3, <3>1, TextParts
    <3>5. PartStep(st, p[m + 1]).all = <<>>
            /\ PartStep(st, p[m + 1]).part = Append(st.part, p[m + 1])
      BY <3>2, <3>4, StepGrows
    <3>6. SubSeq(p, 2, m + 1) = SubSeq(p, 2, (m + 1) - 1) \o <<p[m + 1]>>
      BY <1>1, <3>1, SubSeqRecursiveSecond DEF Text
    <3>7. Append(st.part, p[m + 1]) = st.part \o <<p[m + 1]>>
      <4>1. st.part \in Seq(Char)
        BY DEF PartState, Text
      <4> QED
        BY <3>4, <4>1, AppendIsConcat
    <3>8. (m + 1) - 1 = m
      BY <3>1
    <3> QED
      BY <3>1, <3>2, <3>3, <3>5, <3>6, <3>7, <3>8
  <2> HIDE DEF T
  <2>7. e - 2 \in T
    <3>1. e - 2 \in Nat /\ e - 2 \in 0 .. e - 2
      BY <2>2
    <3> QED
      BY <2>5, <2>6, <3>1, Induct
  <2>8. PICK st \in PartState : /\ st = Sight(SubSeq(p, 1, e - 1)) /\ st.all = <<>>
                                /\ st.part = SubSeq(p, 2, e - 1)
    <3>1. 1 + (e - 2) = e - 1 /\ e - 1 \in 0 .. N
      BY <2>2
    <3> QED
      BY <1>1, <2>7, <3>1, TextPrefixes, SightParts DEF T
  <2>9. PICK c \in Text : /\ c = st.part /\ Len(c) = e - 2 /\ \A k \in 1 .. e - 2 : c[k] = p[k + 1]
    <3>1. \A i \in 2 .. e - 1 : p[i] \in Char
      BY <1>1, <2>3, TextParts
    <3>2. 2 <= e - 1 /\ (e - 1) - 2 + 1 = e - 2 /\ \A k \in 1 .. e - 2 : 2 + k - 1 = k + 1
      BY <2>2
    <3>3. /\ SubSeq(p, 2, e - 1) \in Seq(Char)
          /\ Len(SubSeq(p, 2, e - 1)) = IF 2 <= e - 1 THEN (e - 1) - 2 + 1 ELSE 0
          /\ \A i \in 1 .. (e - 1) - 2 + 1 : SubSeq(p, 2, e - 1)[i] = p[2 + i - 1]
      <4>1. e - 1 \in Int
        BY <2>2
      <4> QED
        BY <3>1, <4>1, SubSeqProperties
    <3> QED
      BY <2>8, <3>2, <3>3 DEF Text
  <2>10. c # <<>>
    <3>1. e - 2 # 0 /\ Len(<<>>) = 0
      BY <2>2
    <3> QED
      BY <2>9, <3>1
  <2>11. PartStep(st, Slash).all = Append(<<>>, c) /\ PartStep(st, Slash).part = <<>>
    BY <2>8, <2>9, <2>10, StepClears
  <2>12. Parts(p) # <<>> /\ Parts(p)[1] = c
    <3>1. CASE e = N + 1
      <4>1. SubSeq(p, 1, e - 1) = p
        BY <1>1, <3>1, TextPrefixes
      <4>2. Parts(p) = Append(<<>>, c)
        BY <2>8, <2>11, <4>1, SightParts
      <4>3. <<>> \in Seq(Text)
        OBVIOUS
      <4> QED
        BY <4>2, <4>3, FirstOf
    <3>2. CASE e \in 1 .. N /\ p[e] = Slash
      <4>1. PICK u \in Text : u = SubSeq(p, 1, e)
        <5>1. e \in 0 .. N
          BY <3>2
        <5> QED
          BY <1>1, <5>1, TextPrefixes
      <4>2. Sight(u) = PartStep(st, Slash)
        <5>1. e - 1 \in 0 .. N - 1 /\ (e - 1) + 1 = e
          BY <3>2
        <5>2. Sight(SubSeq(p, 1, (e - 1) + 1))
                = PartStep(Sight(SubSeq(p, 1, e - 1)), p[(e - 1) + 1])
          BY <1>1, <5>1, SightNext
        <5> QED
          BY <2>8, <3>2, <4>1, <5>1, <5>2
      <4>3. PICK t \in Text : p = u \o t
        <5>1. /\ 1 \in 1 .. N + 1 /\ e \in 1 - 1 .. N /\ N \in e .. N /\ e + 1 \in 1 .. N + 1
              /\ N \in 0 .. N /\ (e + 1) - 1 <= N
          BY <1>1, <3>2
        <5>2. SubSeq(p, 1, e) \o SubSeq(p, e + 1, N) = SubSeq(p, 1, N)
          BY <1>1, <5>1, ConcatAdjacentSubSeq DEF Text
        <5>3. SubSeq(p, e + 1, N) \in Text
          BY <1>1, <5>1, TextParts
        <5>4. SubSeq(p, 1, N) = p
          BY <1>1, TextPrefixes
        <5> QED
          BY <4>1, <5>2, <5>3, <5>4
      <4>4. Parts(u \o t) = Append(<<>>, c) \o Parts(t)
        <5>1. Sight(u).all = Append(<<>>, c) /\ Sight(u).part = <<>>
          BY <2>11, <4>2
        <5>2. Parts(u \o t) = Sight(u).all \o Parts(t)
          BY <5>1, SightConcat
        <5> QED
          BY <5>1, <5>2
      <4> QED
        BY <4>3, <4>4, PartsText, FirstOf
    <3> QED
      BY <2>4, <3>1, <3>2
  <2>13. /\ Len(c) >= 1 /\ Len(c) + 1 <= N
         /\ \A k \in 1 .. Len(c) : k \in 1 .. e - 2 /\ k + 1 \in 2 .. e - 1
         /\ (N = Len(c) + 1 \/ (Len(c) + 2 = e /\ e # N + 1))
    BY <2>2, <2>9
  <2> QED
    BY <1>1, <2>3, <2>4, <2>9, <2>12, <2>13
<1> QED
  BY <1>2, <1>3

\* Where the disk's name heads a path, letter by letter.
LEMMA PrefixMeans ==
  ASSUME NEW p \in Text
  PROVE  IsPrefix(DiskPrefix, p) <=> /\ Len(p) >= Len(DiskPrefix)
                                     /\ \A k \in 1 .. Len(DiskPrefix) : p[k] = DiskPrefix[k]
<1>1. PICK n \in Nat, N \in Nat : n = Len(DiskPrefix) /\ N = Len(p) /\ DiskPrefix \in Text
  BY PrefixText, TextParts
<1>2. SubSeq(DiskPrefix, 1, n) = DiskPrefix
  BY <1>1, TextPrefixes
<1>3. CASE n <= N
  <2>1. /\ SubSeq(p, 1, n) \in Text /\ Len(SubSeq(p, 1, n)) = n
        /\ \A i \in 1 .. n : SubSeq(p, 1, n)[i] = p[i]
    <3>1. n \in 0 .. N
      BY <1>3
    <3> QED
      BY <1>1, <3>1, TextPrefixes
  <2>2. DiskPrefix = SubSeq(p, 1, n) <=> \A k \in 1 .. n : p[k] = DiskPrefix[k]
    <3>1. (\A k \in 1 .. n : p[k] = DiskPrefix[k]) => DiskPrefix = SubSeq(p, 1, n)
      BY <1>1, <2>1, TextSame
    <3> QED
      BY <2>1, <3>1
  <2> QED
    BY <1>1, <1>2, <1>3, <2>2 DEF IsPrefix
<1>4. CASE ~(n <= N)
  BY <1>1, <1>4 DEF IsPrefix
<1> QED
  BY <1>3, <1>4

\* Behind the disk's name comes a slash, or nothing.
LEMMA SubpathThere ==
  ASSUME NEW p \in Text, IsPrefix(DiskPrefix, p),
         Len(p) = Len(DiskPrefix) \/ p[Len(DiskPrefix) + 1] = Slash
  PROVE  disk_subpath(p) # {}
<1>1. PICK n \in Nat, N \in Nat : n = Len(DiskPrefix) /\ N = Len(p) /\ n <= N
  BY PrefixText, TextParts DEF IsPrefix
<1> DEFINE rest == SubSeq(p, Len(DiskPrefix) + 1, Len(p))
<1>2. disk_subpath(p) = CASE rest = <<>> -> {<<Slash>>}
                          [] rest # <<>> /\ rest[1] = Slash -> {Tail(rest)}
                          [] OTHER -> {}
  BY DEF disk_subpath
<1>3. CASE n = N
  <2>1. rest = <<>>
    BY <1>1, <1>3, SubSeqEmpty
  <2> HIDE DEF rest
  <2> QED
    BY <1>2, <2>1
<1>4. CASE n # N
  <2>1. n + 1 \in 1 .. N + 1 /\ N \in 0 .. N /\ (n + 1) - 1 <= N /\ n < N
    BY <1>1, <1>4
  <2>2. rest \in Text /\ Len(rest) = N - (n + 1) + 1
    BY <1>1, <2>1, TextParts
  <2>3. \A i \in n + 1 .. N : p[i] \in Char
    <3>1. \A i \in n + 1 .. N : i \in 1 .. N
      BY <1>1
    <3> QED
      BY <1>1, <3>1, TextParts
  <2>4. \A i \in 1 .. N - (n + 1) + 1 : rest[i] = p[(n + 1) + i - 1]
    BY <1>1, <2>3, SubSeqProperties
  <2>5. 1 \in 1 .. N - (n + 1) + 1 /\ (n + 1) + 1 - 1 = n + 1 /\ N - (n + 1) + 1 # 0
          /\ Len(<<>>) = 0
    BY <2>1
  <2>6. rest[1] = p[n + 1]
    BY <2>4, <2>5
  <2>7. rest # <<>> /\ rest[1] = Slash
    BY <1>1, <1>4, <2>2, <2>5, <2>6
  <2> HIDE DEF rest
  <2> QED
    BY <1>2, <2>7
<1> QED
  BY <1>3, <1>4

LEMMA SubpathParts ==
  ASSUME NEW abs \in Text, disk_subpath(abs) # {}
  PROVE  /\ One(disk_subpath(abs)) \in Text
         /\ Parts(One(disk_subpath(abs))) = OnDisk(Parts(abs))
<1>1. PICK t \in Text : /\ t = One(disk_subpath(abs))
                        /\ (abs = DiskPrefix /\ t = <<Slash>>)
                           \/ abs = (DiskPrefix \o <<Slash>>) \o t
  BY SubpathText
<1>2. CASE abs = DiskPrefix /\ t = <<Slash>>
  BY <1>1, <1>2, PartsOfPrefix, PartsOfSlash, RootIsDirectory
<1>3. CASE abs = (DiskPrefix \o <<Slash>>) \o t
  BY <1>1, <1>3, PartsText, PartsOnDisk, BelowDisk
<1> QED
  BY <1>1, <1>2, <1>3

LEMMA SlashFirst ==
  ASSUME NEW p \in Text, p # <<>>, p[1] = Slash
  PROVE  /\ Tail(p) \in Text /\ p = <<Slash>> \o Tail(p) /\ Parts(Tail(p)) = Parts(p)
<1>1. PICK t \in Text, N \in Nat : /\ t = Tail(p) /\ N = Len(p) /\ N >= 1 /\ Len(t) = N - 1
                                   /\ \A k \in 1 .. N - 1 : t[k] = p[k + 1]
  <2>1. Len(p) \in Nat /\ Len(p) >= 1 /\ Tail(p) \in Text /\ Len(Tail(p)) = Len(p) - 1
    BY TextParts
  <2>3. \A k \in 1 .. Len(p) - 1 : Tail(p)[k] = p[k + 1]
    BY <2>1 DEF Text
  <2> QED
    BY <2>1, <2>3
<1>2. PICK s \in Text : /\ s = <<Slash>> \o t /\ Len(s) = N /\ s[1] = Slash
                        /\ \A k \in 1 .. N - 1 : s[1 + k] = t[k]
  <2>1. PICK o \in Text : o = <<Slash>> /\ Len(o) = 1 /\ o[1] = Slash
    BY SlashText
  <2>2. o \o t \in Text /\ Len(o \o t) = Len(o) + Len(t)
          /\ (\A k \in 1 .. Len(o) : (o \o t)[k] = o[k])
        /\ \A k \in 1 .. Len(t) : (o \o t)[Len(o) + k] = t[k]
    BY TextConcat
  <2>3. 1 + (N - 1) = N /\ 1 \in 1 .. 1
    BY <1>1
  <2>4. PICK s \in Text : s = o \o t
    BY <2>2
  <2>5. Len(s) = N /\ s[1] = Slash /\ \A k \in 1 .. N - 1 : s[1 + k] = t[k]
    BY <1>1, <2>1, <2>2, <2>3, <2>4
  <2> QED
    BY <2>1, <2>4, <2>5
<1>3. \A k \in 1 .. N : k = 1 \/ (k - 1 \in 1 .. N - 1 /\ 1 + (k - 1) = k /\ (k - 1) + 1 = k)
  BY <1>1
<1>4. s = p
  <2>1. \A k \in 1 .. N : s[k] = p[k]
    BY <1>1, <1>2, <1>3
  <2> QED
    BY <1>1, <1>2, <2>1, TextSame
<1>5. Parts(<<Slash>> \o t) = Parts(<<Slash>>) \o Parts(t)
  <2>1. <<Slash>> # <<>> /\ <<Slash>>[Len(<<Slash>>)] = Slash
    OBVIOUS
  <2>2. PICK o \in Text : o = <<Slash>> /\ o # <<>> /\ o[Len(o)] = Slash
    BY <2>1, SlashText
  <2>3. Sight(o).all = Parts(o) /\ Sight(o).part = <<>>
    BY <2>2, ClosedParts
  <2>4. Parts(o \o t) = Sight(o).all \o Parts(t)
    BY <2>3, SightConcat
  <2> QED
    BY <2>2, <2>3, <2>4
<1>6. <<>> \o Parts(t) = Parts(t)
  BY PartsText
<1> QED
  BY <1>1, <1>2, <1>4, <1>5, <1>6, PartsOfSlash, Zenon

\* The disk's name is the first part of a path where the path begins with it.
LEMMA NameFirst ==
  ASSUME NEW p \in Text, p # <<>>, p[1] = Slash, Single(p)
  PROVE  /\ UnderDisk(Parts(p)) => IsPrefix(DiskPrefix, p)
         /\ IsPrefix(DiskPrefix, p) => disk_subpath(p) # {} \/ Clash(Parts(p))
<1>1. PICK L \in Nat : /\ L = Len(DiskName) /\ DiskName \in Text /\ Len(DiskPrefix) = L + 1
                          /\ DiskPrefix[1] = Slash
                       /\ \A k \in 1 .. L : DiskPrefix[k + 1] = DiskName[k] /\ DiskName[k] # Slash
  <2>1. Len(DiskName) \in Nat /\ DiskName \in Text
    BY TextConstants, TextParts
  <2>2. \A k \in 1 .. Len(DiskName) : DiskName[k] # Slash
    BY <2>1, PathConstants DEF Text
  <2> QED
    BY <2>1, <2>2, PrefixCharacters
<1>5. L >= 1
  BY <1>1, TextParts, PathConstants
<1>2. CASE p = <<Slash>> /\ Parts(p) = <<>>
  <2>1. ~UnderDisk(Parts(p))
    BY <1>2 DEF UnderDisk
  <2>2. Len(p) = 1
    BY <1>2
  <2>3. ~(Len(p) >= Len(DiskPrefix))
    BY <1>1, <1>5, <2>2
  <2> QED
    BY <2>1, <2>3, PrefixMeans
<1>3. CASE ~(p = <<Slash>> /\ Parts(p) = <<>>)
  <2>1. PICK c \in Text, m \in Nat, N \in Nat :
             /\ Parts(p) # <<>> /\ Parts(p)[1] = c /\ m = Len(c) /\ m >= 1 /\ N = Len(p)
                /\ m + 1 <= N
             /\ \A k \in 1 .. m : p[k + 1] = c[k] /\ p[k + 1] # Slash
             /\ N = m + 1 \/ p[m + 2] = Slash
    BY <1>3, FirstPart, TextParts
  <2>2. \A k \in 1 .. L + 1 : k = 1 \/ (k - 1 \in 1 .. L /\ (k - 1) + 1 = k)
    BY <1>1
  <2>3. ASSUME c = DiskName PROVE IsPrefix(DiskPrefix, p)
    <3>1. m = L /\ N >= L + 1
      BY <1>1, <2>1, <2>3
    <3>2. \A k \in 1 .. L + 1 : p[k] = DiskPrefix[k]
      <4> SUFFICES ASSUME NEW k \in 1 .. L + 1 PROVE p[k] = DiskPrefix[k]
        OBVIOUS
      <4>1. CASE k = 1
        BY <1>1, <4>1
      <4>2. CASE k # 1
        <5>1. k - 1 \in 1 .. L /\ (k - 1) + 1 = k
          BY <2>2, <4>2
        <5>2. p[(k - 1) + 1] = c[k - 1] /\ DiskPrefix[(k - 1) + 1] = DiskName[k - 1]
          BY <1>1, <2>1, <3>1, <5>1
        <5> QED
          BY <2>3, <5>1, <5>2
      <4> QED
        BY <4>1, <4>2
    <3> QED
      BY <1>1, <2>1, <3>1, <3>2, PrefixMeans
  <2>4. ASSUME IsPrefix(DiskPrefix, p) PROVE disk_subpath(p) # {} \/ Clash(Parts(p))
    <3>1. N >= L + 1 /\ \A k \in 1 .. L + 1 : p[k] = DiskPrefix[k]
      BY <1>1, <2>1, <2>4, PrefixMeans
    <3>2. \A k \in 1 .. L : p[k + 1] = DiskName[k] /\ p[k + 1] # Slash
      <4>1. \A k \in 1 .. L : k + 1 \in 1 .. L + 1
        BY <1>1
      <4> QED
        BY <1>1, <3>1, <4>1
    <3>3. m >= L
      <4> SUFFICES ASSUME m < L PROVE FALSE
        BY <1>1, <2>1
      <4>1. m + 1 \in 1 .. L /\ (m + 1) + 1 = m + 2 /\ N # m + 1
        BY <1>1, <2>1, <3>1
      <4> QED
        BY <2>1, <3>2, <4>1
    <3>4. CASE m = L
      <4>1. L + 2 = (L + 1) + 1
        BY <1>1
      <4>2. Len(p) = Len(DiskPrefix) \/ p[Len(DiskPrefix) + 1] = Slash
        BY <1>1, <2>1, <3>4, <4>1
      <4> QED
        BY <2>4, <4>2, SubpathThere
    <3>5. CASE m # L
      <4>1. L \in 0 .. m /\ L <= m /\ c # DiskName /\ \A k \in 1 .. L : k \in 1 .. m
        BY <1>1, <2>1, <3>3, <3>5
      <4>2. SubSeq(c, 1, L) \in Text /\ Len(SubSeq(c, 1, L)) = L
              /\ \A i \in 1 .. L : SubSeq(c, 1, L)[i] = c[i]
        BY <2>1, <4>1, TextPrefixes
      <4>3. \A k \in 1 .. L : c[k] = DiskName[k]
        BY <2>1, <3>2, <4>1
      <4>4. SubSeq(c, 1, L) = DiskName
        <5>1. PICK d \in Text : d = SubSeq(c, 1, L) /\ Len(d) = L /\ \A i \in 1 .. L : d[i] = c[i]
          BY <4>2
        <5>2. Len(d) = Len(DiskName) /\ \A i \in 1 .. Len(d) : d[i] = DiskName[i]
          BY <1>1, <4>3, <5>1
        <5> QED
          BY <1>1, <5>1, <5>2, TextSame
      <4>5. SubSeq(DiskName, 1, L) = DiskName
        BY <1>1, TextPrefixes
      <4>6. IsStrictPrefix(DiskName, c)
        BY <1>1, <2>1, <4>1, <4>4, <4>5 DEF IsStrictPrefix, IsPrefix
      <4> QED
        BY <2>1, <4>6 DEF Clash
    <3> QED
      BY <3>4, <3>5
  <2> QED
    BY <2>1, <2>3, <2>4 DEF UnderDisk
<1> QED
  BY <1>2, <1>3

\* What the disk is asked for is the path's part of it.
LEMMA DiskView ==
  ASSUME NEW p \in Text, p # <<>>, p[1] = Slash, Single(p), ~Clash(Parts(p)),
         Len(p) + Len(DiskPrefix) < Cap
  PROVE  LET tmp == force_disk_abs(p)
         IN  /\ tmp \in Text /\ disk_subpath(tmp) # {}
             /\ Parts(One(disk_subpath(tmp))) = OnDisk(Parts(p))
             /\ OnDisk(Parts(tmp)) = OnDisk(Parts(p))
<1>1. CASE IsPrefix(DiskPrefix, p)
  <2>1. force_disk_abs(p) = p
    BY <1>1 DEF force_disk_abs
  <2>2. disk_subpath(p) # {}
    BY <1>1, NameFirst
  <2> QED
    BY <2>1, <2>2, SubpathParts
<1>2. CASE ~IsPrefix(DiskPrefix, p)
  <2>1. PICK t \in Text : t = Tail(p) /\ p = <<Slash>> \o t /\ Parts(t) = Parts(p)
    BY SlashFirst
  <2>2. PICK n \in Nat, N \in Nat, C \in Nat :
           n = Len(DiskPrefix) /\ N = Len(p) /\ C = Cap /\ DiskPrefix \in Text /\ N >= 1
             /\ N + n < C
    BY PrefixText, TextParts, PathConstants
  <2>3. PICK a \in Text : /\ a = DiskPrefix \o p /\ Len(a) = n + N
                          /\ \A k \in 1 .. n : a[k] = DiskPrefix[k]
                          /\ \A k \in 1 .. N : a[n + k] = p[k]
    <3>1. /\ DiskPrefix \o p \in Text /\ Len(DiskPrefix \o p) = Len(DiskPrefix) + Len(p)
          /\ \A k \in 1 .. Len(DiskPrefix) : (DiskPrefix \o p)[k] = DiskPrefix[k]
          /\ \A k \in 1 .. Len(p) : (DiskPrefix \o p)[Len(DiskPrefix) + k] = p[k]
      BY <2>2, TextConcat
    <3> QED
      BY <2>2, <3>1
  <2>4. force_disk_abs(p) = a
    <3>1. DiskPrefix \o <<>> = DiskPrefix
      BY <2>2 DEF Text
    <3>2. force_disk_abs(p) = Cut(DiskPrefix \o (IF p[1] = Slash THEN <<>>
            ELSE <<Slash>>) \o p, Cap)
      BY <1>2 DEF force_disk_abs
    <3>3. force_disk_abs(p) = Cut(a, Cap)
      BY <2>3, <3>1, <3>2
    <3>4. Len(a) < Cap /\ Cap \in Nat
      BY <2>2, <2>3
    <3> QED
      BY <3>3, <3>4, CutAll
  <2>5. IsPrefix(DiskPrefix, a)
    <3>1. Len(a) >= Len(DiskPrefix)
      BY <2>2, <2>3
    <3> QED
      BY <2>2, <2>3, <3>1, PrefixMeans
  <2>6. a[Len(DiskPrefix) + 1] = Slash
    <3>1. 1 \in 1 .. N
      BY <2>2
    <3> QED
      BY <2>2, <2>3, <3>1
  <2>7. disk_subpath(a) # {}
    BY <2>5, <2>6, SubpathThere
  <2>8. a = (DiskPrefix \o <<Slash>>) \o t
    BY <2>1, <2>2, <2>3, SlashText, ConcatAssociative DEF Text
  <2>9. OnDisk(Parts(a)) = Parts(p)
    BY <2>1, <2>8, PartsText, PartsOnDisk, BelowDisk
  <2>10. OnDisk(Parts(p)) = Parts(p)
    <3>1. ~UnderDisk(Parts(p))
      BY <1>2, NameFirst
    <3> QED
      BY <3>1 DEF OnDisk
  <2> QED
    BY <2>4, <2>7, <2>9, <2>10, SubpathParts
<1> QED
  BY <1>1, <1>2

-----------------------------------------------------------------------------
(* A walk finds what the components name.                                    *)

LEMMA FieldsAppend ==
  ASSUME NEW u \in Seq(Text), NEW c \in Text
  PROVE  /\ Append(u, c) \in Seq(Text)
         /\ Fields(Append(u, c)) = Append(Fields(u), up11(c))
<1>1. PICK v \in Seq(Text), n \in Nat : /\ v = Append(u, c) /\ n = Len(u) /\ Len(v) = n + 1
                                           /\ v[n + 1] = c
                                        /\ \A k \in 1 .. n : v[k] = u[k]
  <2>1. Append(u, c) \in Seq(Text) /\ Len(Append(u, c)) = Len(u) + 1
        /\ \A i \in 1 .. Len(u) + 1 : Append(u, c)[i] = IF i <= Len(u) THEN u[i] ELSE c
    BY AppendProperties
  <2>2. Len(u) \in Nat
    OBVIOUS
  <2>3. /\ Len(u) + 1 \in 1 .. Len(u) + 1 /\ ~(Len(u) + 1 <= Len(u))
        /\ \A k \in 1 .. Len(u) : k \in 1 .. Len(u) + 1 /\ k <= Len(u)
    BY <2>2
  <2> QED
    BY <2>1, <2>2, <2>3
<1>2. up11(c) \in Names
  BY NameOfText
<1>3. PICK f \in Seq(Names) : f = Fields(u) /\ Len(f) = n /\ \A k \in 1 .. n : f[k] = up11(u[k])
  BY <1>1, FieldsSeq
<1>4. PICK h \in Seq(Names) : h = Fields(v) /\ Len(h) = n + 1
        /\ \A k \in 1 .. n + 1 : h[k] = up11(v[k])
  BY <1>1, FieldsSeq
<1>5. /\ Append(f, up11(c)) \in Seq(Names) /\ Len(Append(f, up11(c))) = n + 1
      /\ \A i \in 1 .. n + 1 : Append(f, up11(c))[i] = IF i <= n THEN f[i] ELSE up11(c)
  BY <1>2, <1>3, AppendProperties
<1>6. \A i \in 1 .. n + 1 : h[i] = Append(f, up11(c))[i]
  <2> SUFFICES ASSUME NEW i \in 1 .. n + 1 PROVE h[i] = Append(f, up11(c))[i]
    OBVIOUS
  <2>1. CASE i = n + 1
    BY <1>1, <1>4, <1>5, <2>1
  <2>2. CASE i # n + 1
    <3>1. i \in 1 .. n /\ i <= n
      BY <2>2
    <3> QED
      BY <1>1, <1>3, <1>4, <1>5, <3>1
  <2> QED
    BY <2>1, <2>2
<1>7. h = Append(f, up11(c))
  BY <1>4, <1>5, <1>6, SeqEqual
<1> QED
  BY <1>1, <1>3, <1>4, <1>7

LEMMA FindStep ==
  ASSUME FilesInv, NEW u \in Seq(Text), NEW c \in Text
  PROVE  Find(Append(u, c)) = Lookup(Find(u), c)
<1>1. PICK f \in Seq(Names), x \in Names, h \in Seq(Names) :
         f = Fields(u) /\ x = up11(c) /\ h = Append(f, x) /\ h = Fields(Append(u, c))
  <2>1. Fields(u) \in Seq(Names) /\ up11(c) \in Names
    BY FieldsSeq, NameOfText
  <2>2. Append(Fields(u), up11(c)) \in Seq(Names)
    BY <2>1, AppendProperties
  <2> QED
    BY <2>1, <2>2, FieldsAppend
<1>2. h # <<>> /\ Last(h) = x /\ Front(h) = f
  BY <1>1, AppendSome DEF Last
<1>3. Find(Append(u, c)) = IF h \in Dirs THEN DirNode(h)
                           ELSE IF <<f, x>> \in DOMAIN files THEN FileNode(<<f, x>>) ELSE NoNode
  BY <1>1, <1>2 DEF Find, Fields
<1>4. CASE f \in Dirs
  <2>1. Find(u) = DirNode(f)
    BY <1>1, <1>4 DEF Find, Fields
  <2>2. DirNode(f)[1] = "dir" /\ DirNode(f)[2] = f
    BY DEF DirNode
  <2>3. CASE h \in Dirs
    BY <1>1, <1>3, <2>1, <2>2, <2>3, Zenon DEF Lookup
  <2>4. CASE h \notin Dirs /\ <<f, x>> \in DOMAIN files
    <3>1. Lookup(DirNode(f), c) = FileNode(<<f, x>>)
      BY <1>1, <2>2, <2>4 DEF Lookup
    <3> QED
      BY <1>3, <2>1, <2>4, <3>1
  <2>5. CASE h \notin Dirs /\ <<f, x>> \notin DOMAIN files
    <3>1. Lookup(DirNode(f), c) = NoNode
      BY <1>1, <2>2, <2>5 DEF Lookup
    <3> QED
      BY <1>3, <2>1, <2>5, <3>1
  <2> QED
    BY <2>3, <2>4, <2>5
<1>5. CASE f \notin Dirs
  <2>1. Find(u)[1] # "dir"
    <3>1. FileNode(<<Front(f), Last(f)>>)[1] # "dir" /\ NoNode[1] # "dir"
      BY DEF FileNode, NoNode
    <3>2. Find(u) \in {FileNode(<<Front(f), Last(f)>>), NoNode}
      BY <1>1, <1>5 DEF Find, Fields
    <3> QED
      BY <3>1, <3>2
  <2>2. Lookup(Find(u), c) = NoNode
    BY <2>1 DEF Lookup
  <2>3. h \notin Dirs
    BY <1>2, <1>5, ShellConstants
  <2>4. <<f, x>> \notin DOMAIN files
    <3>1. <<f, x>>[1] = f
      OBVIOUS
    <3> QED
      BY <1>5, <3>1 DEF FilesInv
  <2> QED
    BY <1>3, <2>2, <2>3, <2>4
<1> QED
  BY <1>4, <1>5

LEMMA WalkFinds ==
  ASSUME FilesInv, NEW parts \in Seq(Text)
  PROVE  Walk(parts) = Find(parts)
<1>1. \E g : IsWalk(g, parts) /\ Walk(parts) = g[Len(parts)]
  BY WalkExists, Zenon DEF Walk, IsWalk
<1>2. PICK g : IsWalk(g, parts) /\ Walk(parts) = g[Len(parts)]
  BY <1>1
<1>3. PICK N \in Nat : N = Len(parts)
  OBVIOUS
<1> DEFINE T == {k \in Nat : g[k] = Find(SubSeq(parts, 1, k))}
<1>4. 0 \in T
  <2>1. g[0] = DirNode(<<>>)
    BY <1>2, <1>3 DEF IsWalk
  <2>2. SubSeq(parts, 1, 0) = <<>>
    BY SubSeqEmpty
  <2>3. Find(<<>>) = DirNode(<<>>)
    <3>1. [k \in DOMAIN <<>> |-> up11(<<>>[k])] = <<>>
      OBVIOUS
    <3> QED
      BY <3>1, ShellConstants DEF Find
  <2> QED
    BY <2>1, <2>2, <2>3
<1>5. ASSUME NEW k \in 0 .. N - 1, k \in T PROVE k + 1 \in T
  <2>1. k + 1 \in 0 .. N /\ k + 1 # 0 /\ (k + 1) - 1 = k /\ k + 1 \in 1 .. N /\ k \in 0 .. N
    BY <1>3
  <2>2. g[k + 1] = Lookup(g[k], parts[k + 1])
    BY <1>2, <1>3, <2>1 DEF IsWalk
  <2>3. PICK u \in Seq(Text), c \in Text : u = SubSeq(parts, 1, k) /\ c = parts[k + 1]
    <3>1. SubSeq(parts, 1, k) \in Seq(Text)
      BY <1>3, <2>1, SeqPrefixes
    <3>2. parts[k + 1] \in Text
      BY <1>3, <2>1
    <3> QED
      BY <3>1, <3>2
  <2>4. Append(u, c) = SubSeq(parts, 1, k + 1)
    BY <1>3, <2>3, LongerPrefix
  <2>5. Find(Append(u, c)) = Lookup(Find(u), c)
    BY FindStep
  <2> QED
    <3>1. g[k] = Find(u)
      BY <1>5, <2>3, Zenon
    <3>2. g[k + 1] = Find(SubSeq(parts, 1, k + 1))
      BY <2>2, <2>3, <2>4, <2>5, <3>1, Zenon
    <3>3. k + 1 \in Nat
      BY <2>1
    <3> QED
      BY <3>2, <3>3, Zenon
<1> HIDE DEF T
<1>6. N \in T
  <2>1. N \in 0 .. N
    BY <1>3
  <2> QED
    BY <1>3, <1>4, <1>5, <2>1, Induct
<1>7. SubSeq(parts, 1, N) = parts
  BY <1>3, SeqPrefixes
<1> QED
  BY <1>2, <1>3, <1>6, <1>7 DEF T

\* The walk that cuts its components finds the same, if no field is cut.
LEMMA KeptFinds ==
  ASSUME FilesInv, NEW parts \in Seq(Text), AllUncut(parts)
  PROVE  walk_path(parts) = Find(parts)
<1> DEFINE kept == [k \in DOMAIN parts |-> Kept(parts[k])]
<1>1. DOMAIN parts = 1 .. Len(parts) /\ Len(parts) \in Nat
        /\ \A k \in 1 .. Len(parts) : parts[k] \in Text
  OBVIOUS
<1>2. SegCap \in Nat \ {0}
  BY PathConstants, PrefixText
<1>3. \A k \in 1 .. Len(parts) : Kept(parts[k]) \in Text
  BY <1>1, <1>2, CutText DEF Kept
<1>4. kept \in Seq(Text)
  <2>1. kept \in [1 .. Len(parts) -> Text]
    BY <1>1, <1>3
  <2> QED
    BY <1>1, <2>1, SeqDef
<1>5. walk_path(parts) = Find(kept)
  BY <1>4, WalkFinds DEF walk_path
<1>6. [k \in DOMAIN kept |-> up11(kept[k])] = [k \in DOMAIN parts |-> up11(parts[k])]
  <2>1. DOMAIN kept = DOMAIN parts
    OBVIOUS
  <2>2. \A k \in DOMAIN parts : up11(kept[k]) = up11(parts[k])
    BY DEF AllUncut, Uncut
  <2> HIDE DEF kept
  <2> QED
    BY <2>1, <2>2
<1> HIDE DEF kept
<1> QED
  BY <1>5, <1>6 DEF Find

-----------------------------------------------------------------------------
(* The two readers of an 8.3 name.                                           *)

Splitting == [base : Text, ext : Text, dot : BOOLEAN]
SplitStep(acc, c) == IF c = "." THEN [acc EXCEPT !.dot = TRUE]
                     ELSE IF ~acc.dot THEN [acc EXCEPT !.base = Append(@, Upper(c))]
                     ELSE [acc EXCEPT !.ext = Append(@, Upper(c))]
Unsplit == [base |-> <<>>, ext |-> <<>>, dot |-> FALSE]

LEMMA SplitSteps ==
  ASSUME NEW y \in Splitting, NEW c \in Char
  PROVE  /\ c = "." => SplitStep(y, c) = [base |-> y.base, ext |-> y.ext, dot |-> TRUE]
         /\ c # "." /\ ~y.dot =>
              SplitStep(y, c) = [base |-> Append(y.base, Upper(c)), ext |-> y.ext, dot |-> y.dot]
         /\ c # "." /\ y.dot =>
              SplitStep(y, c) = [base |-> y.base, ext |-> Append(y.ext, Upper(c)), dot |-> y.dot]
         /\ SplitStep(y, c) \in Splitting
<1>1. y.base \in Text /\ y.ext \in Text /\ y.dot \in BOOLEAN /\ Upper(c) \in Char
  BY UpperText DEF Splitting
<1>2. Append(y.base, Upper(c)) \in Text /\ Append(y.ext, Upper(c)) \in Text
  BY <1>1, TextAppend
<1>0. PICK b \in Text, e \in Text, d \in BOOLEAN :
        /\ y = [base |-> b, ext |-> e, dot |-> d] /\ y.base = b /\ y.ext = e /\ y.dot = d
  BY DEF Splitting
<1> DEFINE u == Upper(c)
<1>3. ASSUME c = "."
      PROVE  SplitStep(y, c) = [base |-> y.base, ext |-> y.ext, dot |-> TRUE]
        /\ SplitStep(y, c) \in Splitting
  <2>1. SplitStep(y, c) = [base |-> b, ext |-> e, dot |-> TRUE]
    BY <1>0, <1>3 DEF SplitStep
  <2>2. [base |-> b, ext |-> e, dot |-> TRUE] \in Splitting
    BY <1>0 DEF Splitting
  <2> QED
    BY <1>0, <2>1, <2>2
<1>4. ASSUME c # ".", ~y.dot
      PROVE  /\ SplitStep(y, c) = [base |-> Append(y.base, u), ext |-> y.ext, dot |-> y.dot]
             /\ SplitStep(y, c) \in Splitting
  <2>0. PICK t \in Text : t = Append(b, u)
    BY <1>0, <1>2
  <2>1. SplitStep(y, c) = [base |-> t, ext |-> e, dot |-> d]
    BY <1>0, <1>4, <2>0 DEF SplitStep
  <2>2. [base |-> t, ext |-> e, dot |-> d] \in Splitting
    BY <1>0 DEF Splitting
  <2> QED
    BY <1>0, <2>0, <2>1, <2>2
<1>5. ASSUME c # ".", y.dot
      PROVE  /\ SplitStep(y, c) = [base |-> y.base, ext |-> Append(y.ext, u), dot |-> y.dot]
             /\ SplitStep(y, c) \in Splitting
  <2>0. PICK t \in Text : t = Append(e, u)
    BY <1>0, <1>2
  <2>1. SplitStep(y, c) = [base |-> b, ext |-> t, dot |-> d]
    BY <1>0, <1>5, <2>0 DEF SplitStep
  <2>2. [base |-> b, ext |-> t, dot |-> d] \in Splitting
    BY <1>0 DEF Splitting
  <2> QED
    BY <1>0, <2>0, <2>1, <2>2
<1> QED
  BY <1>3, <1>4, <1>5

LEMMA UnsplitTypes == Unsplit \in Splitting /\ Unsplit.base = <<>> /\ Unsplit.ext = <<>>
  /\ ~Unsplit.dot
<1>1. PICK e \in Text : e = <<>>
  BY SlashText
<1>2. Unsplit = [base |-> e, ext |-> e, dot |-> FALSE]
  BY <1>1 DEF Unsplit
<1>3. [base |-> e, ext |-> e, dot |-> FALSE] \in Splitting
  BY DEF Splitting
<1> QED
  BY <1>1, <1>2, <1>3

IsSplit(g, name) ==
  g = [n \in 0 .. Len(name) |-> IF n = 0 THEN Unsplit ELSE SplitStep(g[n - 1], name[n])]

LEMMA SplitExists ==
  ASSUME NEW name \in Text
  PROVE  \E g : IsSplit(g, name)
<1> DEFINE N    == Len(name)
           step == [x \in Splitting \X (1 .. N) |-> SplitStep(x[1], name[x[2]])]
<1>1. N \in Nat /\ \A k \in 1 .. N : name[k] \in Char
  BY TextParts
<1>2. \A x \in Splitting : \A k \in 1 .. N : step[<<x, k>>] = SplitStep(x, name[k])
  OBVIOUS
<1> HIDE DEF step
<1>3. \A x \in Splitting : \A k \in 1 .. N : step[<<x, k>>] \in Splitting
  BY <1>1, <1>2, SplitSteps
<1>0. Unsplit \in Splitting
  BY UnsplitTypes
<1>4. PICK g \in [0 .. N -> Splitting] : Runs(g, Unsplit, step, N)
  BY <1>0, <1>1, <1>3, Recursion
<1>5. ASSUME NEW n \in 0 .. N
      PROVE  g[n] = IF n = 0 THEN Unsplit ELSE SplitStep(g[n - 1], name[n])
  <2>1. CASE n = 0
    BY <1>4, <2>1 DEF Runs
  <2>2. CASE n # 0
    <3>1. n \in 1 .. N /\ n - 1 \in 0 .. N
      BY <1>1, <2>2
    <3>2. g[n] = step[<<g[n - 1], n>>] /\ g[n - 1] \in Splitting
      BY <1>4, <3>1 DEF Runs
    <3> QED
      BY <1>2, <2>2, <3>1, <3>2
  <2> QED
    BY <2>1, <2>2
<1>6. g = [n \in 0 .. N |-> g[n]]
  OBVIOUS
<1>7. IsSplit(g, name)
  BY <1>5, <1>6 DEF IsSplit
<1> QED
  BY <1>7

\* The loops of both readers, as runs.
LEMMA NameRuns ==
  ASSUME NEW name \in Text
  PROVE  \E g, h : /\ g[0] = Blank /\ h[0] = Unsplit
                   /\ \A n \in 0 .. Len(name) - 1 : /\ g[n + 1] = UpStep(g[n], name[n + 1])
                                                    /\ h[n + 1] = SplitStep(h[n], name[n + 1])
                   /\ up11(name) = g[Len(name)].f
                   /\ name83(name) = Field(Cut(h[Len(name)].base, BaseLen + 1),
                                           Cut(h[Len(name)].ext, ExtLen + 1))
<1>1. \E g : IsFilling(g, name) /\ up11(name) = g[Len(name)].f
  BY FillingExists, Zenon DEF up11, IsFilling, UpStep, Blank
<1>2. PICK g : IsFilling(g, name) /\ up11(name) = g[Len(name)].f
  BY <1>1
<1>3. \E h : IsSplit(h, name) /\ name83(name) = Field(Cut(h[Len(name)].base, BaseLen + 1),
                                                       Cut(h[Len(name)].ext, ExtLen + 1))
  BY SplitExists, Zenon DEF name83, IsSplit, SplitStep, Unsplit
<1>4. PICK h : IsSplit(h, name) /\ name83(name) = Field(Cut(h[Len(name)].base, BaseLen + 1),
                                                         Cut(h[Len(name)].ext, ExtLen + 1))
  BY <1>3
<1>5. PICK N \in Nat : N = Len(name)
  BY TextParts
<1>6. \A n \in 0 .. N - 1 : n + 1 \in 0 .. N /\ n + 1 # 0 /\ (n + 1) - 1 = n
  BY <1>5
<1>7. g[0] = Blank /\ \A n \in 0 .. N - 1 : g[n + 1] = UpStep(g[n], name[n + 1])
  BY <1>2, <1>5, <1>6 DEF IsFilling
<1>8. h[0] = Unsplit /\ \A n \in 0 .. N - 1 : h[n + 1] = SplitStep(h[n], name[n + 1])
  BY <1>4, <1>5, <1>6 DEF IsSplit
<1> QED
  BY <1>2, <1>4, <1>5, <1>7, <1>8

LEMMA FieldBase ==
  ASSUME NEW b \in Text, Len(b) < BaseLen, NEW c \in Char
  PROVE  [Field(b, <<>>) EXCEPT ![Len(b) + 1] = c] = Field(Append(b, c), <<>>)
<1>1. PICK B \in Nat, X \in Nat, n \in Nat : B = BaseLen /\ X = ExtLen /\ n = Len(b) /\ n < B
  BY PathConstants, TextParts
<1>2. PICK d \in Text : /\ d = Append(b, c) /\ Len(d) = n + 1 /\ d[n + 1] = c
                        /\ \A k \in 1 .. n : d[k] = b[k]
  <2>1. /\ Append(b, c) \in Text /\ Len(Append(b, c)) = Len(b) + 1
        /\ \A k \in 1 .. Len(b) : Append(b, c)[k] = b[k]
        /\ Append(b, c)[Len(b) + 1] = c
    BY TextAppend
  <2> QED
    BY <1>1, <2>1
<1>3. Len(<<>>) = 0 /\ \A i \in 1 .. B + X : ~(i > B /\ i - B <= 0)
  BY <1>1
<1> DEFINE F == Field(b, <<>>)
<1>4. ASSUME NEW i \in 1 .. B + X
      PROVE  /\ F[i] = IF i <= n THEN b[i] ELSE " "
             /\ Field(d, <<>>)[i] = IF i <= n + 1 THEN d[i] ELSE " "
  <2>1. ~(i > BaseLen /\ i - BaseLen <= Len(<<>>))
    BY <1>1, <1>3
  <2>2. F[i] = IF i <= Len(b) THEN b[i] ELSE " "
    BY <1>1, <2>1 DEF Field
  <2>3. Field(d, <<>>)[i] = IF i <= Len(d) THEN d[i] ELSE " "
    BY <1>1, <2>1 DEF Field
  <2> QED
    BY <1>1, <1>2, <2>2, <2>3
<1>5. F = [i \in 1 .. B + X |-> F[i]] /\ Field(d, <<>>) = [i \in 1 .. B + X |-> Field(d, <<>>)[i]]
  BY <1>1 DEF Field
<1>6. n + 1 \in 1 .. B + X /\ \A i \in 1 .. B + X : (i <= n <=> i \in 1 .. n) /\ (i <= n + 1
        <=> i \in 1 .. n \/ i = n + 1)
  BY <1>1
<1> HIDE DEF F
<1>7. [F EXCEPT ![n + 1] = c] = [i \in 1 .. B + X |-> IF i = n + 1 THEN c ELSE F[i]]
  BY <1>5, <1>6
<1>8. \A i \in 1 .. B + X : (IF i = n + 1 THEN c ELSE F[i]) = Field(d, <<>>)[i]
  <2> SUFFICES ASSUME NEW i \in 1 .. B + X
               PROVE  (IF i = n + 1 THEN c ELSE F[i]) = Field(d, <<>>)[i]
    OBVIOUS
  <2>2. CASE i = n + 1
    BY <1>2, <1>4, <1>6, <2>2
  <2>3. CASE i # n + 1
    BY <1>2, <1>4, <1>6, <2>3
  <2> QED
    BY <2>2, <2>3
<1>9. [F EXCEPT ![n + 1] = c] = Field(d, <<>>)
  BY <1>5, <1>7, <1>8
<1> QED
  BY <1>1, <1>2, <1>9 DEF F

LEMMA FieldExt ==
  ASSUME NEW b \in Text, Len(b) <= BaseLen, NEW e \in Text, Len(e) < ExtLen, NEW c \in Char
  PROVE  [Field(b, e) EXCEPT ![(BaseLen + Len(e)) + 1] = c] = Field(b, Append(e, c))
<1>1. PICK B \in Nat, X \in Nat, n \in Nat, m \in Nat :
        B = BaseLen /\ X = ExtLen /\ n = Len(b) /\ n <= B /\ m = Len(e) /\ m < X
  BY PathConstants, TextParts
<1>2. PICK d \in Text : /\ d = Append(e, c) /\ Len(d) = m + 1 /\ d[m + 1] = c
                        /\ \A k \in 1 .. m : d[k] = e[k]
  <2>1. /\ Append(e, c) \in Text /\ Len(Append(e, c)) = Len(e) + 1
        /\ \A k \in 1 .. Len(e) : Append(e, c)[k] = e[k]
        /\ Append(e, c)[Len(e) + 1] = c
    BY TextAppend
  <2> QED
    BY <1>1, <2>1
<1>4. Field(b, e) = [i \in 1 .. B + X |-> IF i <= n THEN b[i] ELSE IF i > B
        /\ i - B <= m THEN e[i - B] ELSE " "]
  BY <1>1 DEF Field
<1>5. Field(b, d) = [i \in 1 .. B + X |-> IF i <= n THEN b[i] ELSE IF i > B
        /\ i - B <= m + 1 THEN d[i - B] ELSE " "]
  BY <1>1, <1>2 DEF Field
<1>6. (B + m) + 1 \in 1 .. B + X
  BY <1>1
<1>7. [Field(b, e) EXCEPT ![(B + m) + 1] = c] = [i \in 1 .. B + X |-> IF i = (B + m) + 1 THEN c
        ELSE Field(b, e)[i]]
  BY <1>4, <1>6
<1>8. \A i \in 1 .. B + X : (IF i = (B + m) + 1 THEN c ELSE Field(b, e)[i]) = Field(b, d)[i]
  <2> SUFFICES ASSUME NEW i \in 1 .. B + X
               PROVE  (IF i = (B + m) + 1 THEN c ELSE Field(b, e)[i]) = Field(b, d)[i]
    OBVIOUS
  <2>1. Field(b, e)[i] = IF i <= n THEN b[i] ELSE IF i > B /\ i - B <= m THEN e[i - B] ELSE " "
    BY <1>4
  <2>4. Field(b, d)[i] = IF i <= n THEN b[i] ELSE IF i > B /\ i - B <= m + 1 THEN d[i - B] ELSE " "
    BY <1>5
  <2>2. CASE i = (B + m) + 1
    <3>1. ~(i <= n) /\ i > B /\ i - B <= m + 1 /\ i - B = m + 1
      BY <1>1, <2>2
    <3>2. d[i - B] = c
      BY <1>2, <3>1
    <3>3. Field(b, d)[i] = d[i - B]
      BY <2>4, <3>1
    <3> QED
      BY <2>2, <3>2, <3>3
  <2>3. CASE i # (B + m) + 1
    <3>1. CASE i <= n
      BY <2>1, <2>3, <2>4, <3>1
    <3>2. CASE ~(i <= n) /\ i > B /\ i - B <= m
      <4>1. i - B \in 1 .. m /\ i - B <= m + 1
        BY <1>1, <3>2
      <4> QED
        BY <1>2, <2>1, <2>3, <2>4, <3>2, <4>1
    <3>3. CASE ~(i <= n) /\ ~(i > B /\ i - B <= m)
      <4>1. ~(i > B /\ i - B <= m + 1)
        BY <1>1, <2>3, <3>3
      <4> QED
        BY <2>1, <2>3, <2>4, <3>3, <4>1
    <3> QED
      BY <3>1, <3>2, <3>3
  <2> QED
    BY <2>2, <2>3
<1>9. Field(b, d) = [i \in 1 .. B + X |-> Field(b, d)[i]]
  BY <1>5
<1> QED
  BY <1>1, <1>2, <1>7, <1>8, <1>9

LEMMA TextDomain ==
  ASSUME NEW s \in Text
  PROVE  DOMAIN s = 1 .. Len(s)
BY DEF Text

\* A short name has its one dot, or its end, behind at most eight letters.
LEMMA ShortDot ==
  ASSUME NEW c \in Text, Short(c)
  PROVE  \E k \in 2 .. BaseLen + 1 :
           /\ k <= Len(c) + 1 /\ Len(c) <= k + ExtLen /\ (k <= Len(c) => k < Len(c))
           /\ \A i \in 1 .. Len(c) : c[i] = "." <=> i = k
<1> DEFINE dots == {k \in DOMAIN c : c[k] = "."}
<1>0. DOMAIN c = 1 .. Len(c)
  BY TextDomain
<1>1. PICK B \in Nat, X \in Nat, n \in Nat : B = BaseLen /\ X = ExtLen /\ n = Len(c)
        /\ DOMAIN c = 1 .. n
  BY <1>0, PathConstants, TextParts
<1>2. CASE dots = {} /\ Len(c) \in 1 .. BaseLen
  <2>1. n + 1 \in 2 .. B + 1 /\ n <= (n + 1) + X /\ ~(n + 1 <= n) /\ \A i \in 1 .. n : i # n + 1
    BY <1>1, <1>2
  <2>2. \A i \in 1 .. n : c[i] # "."
    BY <1>1, <1>2
  <2> QED
    BY <1>1, <2>1, <2>2
<1>3. CASE \E k \in 2 .. BaseLen + 1 : dots = {k} /\ Len(c) - k \in 1 .. ExtLen
  <2>1. PICK k \in 2 .. B + 1 : dots = {k} /\ n - k \in 1 .. X
    BY <1>1, <1>3
  <2>2. k <= n + 1 /\ n <= k + X /\ k < n
    BY <1>1, <2>1
  <2>3. \A i \in 1 .. n : c[i] = "." <=> i = k
    <3>1. \A i \in 1 .. n : c[i] = "." <=> i \in dots
      BY <1>1
    <3> QED
      BY <2>1, <3>1
  <2> QED
    BY <1>1, <2>1, <2>2, <2>3
<1> QED
  BY <1>2, <1>3 DEF Short

\* It is read whole.
LEMMA ShortUncut ==
  ASSUME NEW c \in Text, Short(c)
  PROVE  Uncut(c)
<1>1. PICK B \in Nat, X \in Nat, S \in Nat, n \in Nat :
        B = BaseLen /\ X = ExtLen /\ S = SegCap /\ n = Len(c) /\ B + X + 1 < S
  BY PathConstants, TextParts
<1>2. PICK k \in 2 .. B + 1 : n <= k + X
  BY <1>1, ShortDot
<1>3. n < S
  BY <1>1, <1>2
<1>4. Cut(c, SegCap) = c
  BY <1>1, <1>3, CutAll
<1> QED
  BY <1>4 DEF Uncut, Kept

\* After n letters of a name with its dot at k, both readers are at one place.
Abreast(x, y, n, k) ==
  /\ x \in Filling /\ y \in Splitting
  /\ x.f = Field(y.base, y.ext)
  /\ n < k => ~y.dot /\ Len(y.base) = n /\ y.ext = <<>> /\ x.j = n
  /\ n >= k => y.dot /\ Len(y.base) = k - 1 /\ Len(y.ext) = n - k /\ x.j = BaseLen + (n - k)

LEMMA AbreastStep ==
  ASSUME NEW n \in Nat, NEW k \in 2 .. BaseLen + 1, NEW x, NEW y, Abreast(x, y, n, k),
         NEW c \in Char, c = "." <=> n + 1 = k, n + 1 >= k => n < k + ExtLen /\ ExtLen > 0
  PROVE  Abreast(UpStep(x, c), SplitStep(y, c), n + 1, k)
<1>1. PICK B \in Nat, X \in Nat : B = BaseLen /\ X = ExtLen
  BY PathConstants
<1>2. PICK b \in Text, e \in Text, f \in Names, j \in Nat :
        /\ b = y.base /\ e = y.ext /\ f = x.f /\ j = x.j /\ f = Field(b, e)
  BY DEF Abreast, Filling, Splitting
<1>3. /\ UpStep(x, c) \in Filling /\ SplitStep(y, c) \in Splitting /\ Upper(c) \in Char
      /\ x \in Filling /\ y \in Splitting
  BY UpStepTypes, SplitSteps, UpperText DEF Abreast
<1>4. CASE n + 1 < k
  <2>1. ~y.dot /\ Len(b) = n /\ e = <<>> /\ j = n /\ c # "." /\ n < B
    BY <1>1, <1>2, <1>4 DEF Abreast
  <2>2. ~(j >= BaseLen + ExtLen)
    BY <1>1, <2>1
  <2>3. UpStep(x, c) = [f |-> [f EXCEPT ![j + 1] = Upper(c)], j |-> j + 1]
    BY <1>2, <2>1, <2>2 DEF UpStep
  <2>4. SplitStep(y, c) = [base |-> Append(b, Upper(c)), ext |-> e, dot |-> y.dot]
    BY <1>2, <1>3, <2>1, SplitSteps
  <2>5. [Field(b, <<>>) EXCEPT ![Len(b) + 1] = Upper(c)] = Field(Append(b, Upper(c)), <<>>)
    BY <1>1, <1>3, <2>1, FieldBase
  <2>6. Len(Append(b, Upper(c))) = n + 1
    BY <1>3, <2>1, TextAppend
  <2>7. UpStep(x, c).f = Field(SplitStep(y, c).base, SplitStep(y, c).ext)
    <3>1. UpStep(x, c).f = [f EXCEPT ![j + 1] = Upper(c)]
      BY <2>3
    <3>2. j = Len(b) /\ f = Field(b, <<>>) /\ e = <<>>
      BY <1>2, <2>1
    <3>3. UpStep(x, c).f = [Field(b, <<>>) EXCEPT ![Len(b) + 1] = Upper(c)]
      BY <3>1, <3>2, Zenon
    <3>4. SplitStep(y, c).base = Append(b, Upper(c)) /\ SplitStep(y, c).ext = <<>>
      BY <2>4, <3>2
    <3> QED
      BY <2>5, <3>3, <3>4, Zenon
  <2>8. /\ UpStep(x, c).j = n + 1 /\ ~SplitStep(y, c).dot /\ Len(SplitStep(y, c).base) = n + 1
        /\ SplitStep(y, c).ext = <<>>
    BY <2>1, <2>3, <2>4, <2>6
  <2>9. ~(n + 1 >= k)
    BY <1>1, <1>4
  <2> QED
    BY <1>3, <2>7, <2>8, <2>9 DEF Abreast
<1>5. CASE n + 1 = k
  <2>1. ~y.dot /\ Len(b) = n /\ e = <<>> /\ j = n /\ c = "." /\ n <= B /\ X > 0
    BY <1>1, <1>2, <1>5 DEF Abreast
  <2>2. ~(j >= BaseLen + ExtLen)
    BY <1>1, <2>1
  <2>3. UpStep(x, c) = [f |-> f, j |-> BaseLen]
    BY <1>2, <1>3, <2>1, <2>2 DEF UpStep, Filling
  <2>4. SplitStep(y, c) = [base |-> b, ext |-> e, dot |-> TRUE]
    BY <1>2, <1>3, <2>1, SplitSteps
  <2>5. Len(e) = (n + 1) - k /\ BaseLen = BaseLen + ((n + 1) - k) /\ n = k - 1 /\ ~(n + 1 < k)
    <3>1. Len(<<>>) = 0
      OBVIOUS
    <3> QED
      BY <1>1, <1>5, <2>1, <3>1
  <2> QED
    BY <1>2, <1>3, <2>1, <2>3, <2>4, <2>5 DEF Abreast
<1>6. CASE n + 1 > k
  <2>1. y.dot /\ Len(b) = k - 1 /\ Len(e) = n - k /\ j = B + (n - k) /\ c # "." /\ n - k < X
          /\ k - 1 <= B
    BY <1>1, <1>2, <1>6 DEF Abreast
  <2>2. ~(j >= BaseLen + ExtLen) /\ n - k \in Nat
    BY <1>1, <1>6, <2>1
  <2>3. UpStep(x, c) = [f |-> [f EXCEPT ![j + 1] = Upper(c)], j |-> j + 1]
    BY <1>2, <2>1, <2>2 DEF UpStep
  <2>4. SplitStep(y, c) = [base |-> b, ext |-> Append(e, Upper(c)), dot |-> y.dot]
    BY <1>2, <1>3, <2>1, SplitSteps
  <2>5. [Field(b, e) EXCEPT ![(BaseLen + Len(e)) + 1] = Upper(c)] = Field(b, Append(e, Upper(c)))
    BY <1>1, <1>3, <2>1, FieldExt, ZenonT(40)
  <2>6. Len(Append(e, Upper(c))) = (n + 1) - k
    <3>1. Len(Append(e, Upper(c))) = Len(e) + 1
      BY <1>3, TextAppend
    <3> QED
      BY <1>1, <2>1, <3>1
  <2>7. UpStep(x, c).f = Field(SplitStep(y, c).base, SplitStep(y, c).ext)
    <3>1. j + 1 = (BaseLen + Len(e)) + 1
      BY <1>1, <2>1
    <3>2. UpStep(x, c).f = [Field(b, e) EXCEPT ![(BaseLen + Len(e)) + 1] = Upper(c)]
      <4>1. UpStep(x, c).f = [f EXCEPT ![j + 1] = Upper(c)]
        BY <2>3
      <4> QED
        BY <1>2, <3>1, <4>1, Zenon
    <3>3. SplitStep(y, c).base = b /\ SplitStep(y, c).ext = Append(e, Upper(c))
      BY <2>4
    <3> QED
      BY <2>5, <3>2, <3>3, Zenon
  <2>8. /\ UpStep(x, c).j = BaseLen + ((n + 1) - k) /\ SplitStep(y, c).dot
        /\ Len(SplitStep(y, c).base) = k - 1 /\ Len(SplitStep(y, c).ext) = (n + 1) - k
    <3>1. j + 1 = BaseLen + ((n + 1) - k)
      BY <1>1, <2>1
    <3> QED
      BY <2>1, <2>3, <2>4, <2>6, <3>1
  <2>9. ~(n + 1 < k)
    BY <1>1, <1>6
  <2> QED
    BY <1>3, <2>7, <2>8, <2>9 DEF Abreast
<1> QED
  BY <1>1, <1>4, <1>5, <1>6

\* For a short name, up11 and name83 write the same field.
LEMMA ShortNames ==
  ASSUME NEW name \in Text, Short(name)
  PROVE  name83(name) = up11(name)
<1>1. PICK g, h : /\ g[0] = Blank /\ h[0] = Unsplit
                  /\ \A n \in 0 .. Len(name) - 1 : /\ g[n + 1] = UpStep(g[n], name[n + 1])
                                                   /\ h[n + 1] = SplitStep(h[n], name[n + 1])
                  /\ up11(name) = g[Len(name)].f
                  /\ name83(name) = Field(Cut(h[Len(name)].base, BaseLen + 1),
                                          Cut(h[Len(name)].ext, ExtLen + 1))
  BY NameRuns
<1>2. PICK B \in Nat, X \in Nat, N \in Nat : B = BaseLen /\ X = ExtLen /\ N = Len(name)
  BY PathConstants, TextParts
<1>3. PICK k \in 2 .. BaseLen + 1 :
        /\ k <= N + 1 /\ N <= k + X /\ (k <= N => k < N)
        /\ \A i \in 1 .. N : name[i] = "." <=> i = k
  BY <1>2, ShortDot
<1> DEFINE T == {n \in Nat : Abreast(g[n], h[n], n, k)}
<1>4. 0 \in T
  <2>1. Blank \in Filling /\ Blank.f = Field(<<>>, <<>>) /\ Blank.j = 0
    BY BlankTypes DEF Blank
  <2>2. Unsplit \in Splitting /\ Unsplit.base = <<>> /\ Unsplit.ext = <<>> /\ ~Unsplit.dot
          /\ Len(<<>>) = 0
    BY UnsplitTypes
  <2>3. 0 < k /\ ~(0 >= k)
    BY <1>2
  <2>4. Abreast(Blank, Unsplit, 0, k)
    BY <2>1, <2>2, <2>3 DEF Abreast
  <2> QED
    BY <1>1, <2>4
<1>5. ASSUME NEW n \in 0 .. N - 1, n \in T PROVE n + 1 \in T
  <2>1. n \in Nat /\ n + 1 \in 1 .. N /\ name[n + 1] \in Char /\ n \in 0 .. Len(name) - 1
    BY <1>2, TextParts
  <2>2. name[n + 1] = "." <=> n + 1 = k
    BY <1>3, <2>1
  <2>3. n + 1 >= k => n < k + ExtLen /\ ExtLen > 0
    BY <1>2, <1>3, <2>1
  <2>4. Abreast(UpStep(g[n], name[n + 1]), SplitStep(h[n], name[n + 1]), n + 1, k)
    BY <1>5, <2>1, <2>2, <2>3, AbreastStep
  <2> QED
    BY <1>1, <2>1, <2>4
<1> HIDE DEF T
<1>6. N \in T
  <2>1. N \in 0 .. N
    BY <1>2
  <2> QED
    BY <1>2, <1>4, <1>5, <2>1, Induct
<1>7. Abreast(g[N], h[N], N, k)
  BY <1>6 DEF T
<1>8. PICK b \in Text, e \in Text : b = h[N].base /\ e = h[N].ext /\ g[N].f = Field(b, e)
  BY <1>7 DEF Abreast, Splitting
<1>9. Len(b) < BaseLen + 1 /\ Len(e) < ExtLen + 1
  <2>1. CASE N < k
    <3>1. Len(b) = N /\ e = <<>> /\ Len(<<>>) = 0
      BY <1>7, <1>8, <2>1 DEF Abreast
    <3> QED
      BY <1>2, <2>1, <3>1
  <2>2. CASE ~(N < k)
    <3>1. Len(b) = k - 1 /\ Len(e) = N - k
      BY <1>2, <1>7, <1>8, <2>2 DEF Abreast
    <3> QED
      BY <1>2, <1>3, <2>2, <3>1
  <2> QED
    BY <2>1, <2>2
<1>10. Cut(b, BaseLen + 1) = b /\ Cut(e, ExtLen + 1) = e
  BY <1>2, <1>9, CutAll
<1> QED
  BY <1>1, <1>2, <1>8, <1>10

NoSlash(s) == \A k \in DOMAIN s : s[k] # Slash

LEMMA UpperNoSlash ==
  ASSUME NEW c, c # Slash
  PROVE  Upper(c) # Slash
BY PathConstants DEF Upper

\* No slash gets into a name that has none.
LEMMA FieldNoSlash ==
  ASSUME NEW name \in Text, NoSlash(name)
  PROVE  NoSlash(up11(name))
<1>1. PICK g, h : /\ g[0] = Blank /\ h[0] = Unsplit
                  /\ \A n \in 0 .. Len(name) - 1 : /\ g[n + 1] = UpStep(g[n], name[n + 1])
                                                   /\ h[n + 1] = SplitStep(h[n], name[n + 1])
                  /\ up11(name) = g[Len(name)].f
                  /\ name83(name) = Field(Cut(h[Len(name)].base, BaseLen + 1),
                                          Cut(h[Len(name)].ext, ExtLen + 1))
  BY NameRuns
<1>0. DOMAIN name = 1 .. Len(name) /\ BaseLen + ExtLen \in Nat
  BY PathConstants DEF Text
<1>2. PICK M \in Nat, N \in Nat : M = BaseLen + ExtLen /\ N = Len(name) /\ DOMAIN name = 1 .. N
  BY <1>0, TextParts
<1> DEFINE T == {n \in Nat : g[n] \in Filling /\ \A i \in 1 .. M : g[n].f[i] # Slash}
<1>3. 0 \in T
  <2>1. Blank \in Filling /\ Blank.f = Field(<<>>, <<>>)
    BY BlankTypes DEF Blank
  <2>2. \A i \in 1 .. M : Field(<<>>, <<>>)[i] = " "
    <3>1. Len(<<>>) = 0
      OBVIOUS
    <3>2. PICK b \in Nat : b = BaseLen
      BY PathConstants
    <3>3. \A i \in 1 .. M : ~(i <= 0) /\ ~(i > b /\ i - b <= 0)
      BY <1>2
    <3> QED
      BY <1>2, <3>1, <3>2, <3>3 DEF Field
  <2>3. " " # Slash
    BY DEF Slash
  <2> QED
    BY <1>1, <2>1, <2>2, <2>3
<1>4. ASSUME NEW n \in 0 .. N - 1, n \in T PROVE n + 1 \in T
  <2>1. PICK x \in Filling : x = g[n] /\ \A i \in 1 .. M : x.f[i] # Slash
    BY <1>4
  <2>2. PICK c \in Char : c = name[n + 1] /\ c # Slash /\ Upper(c) # Slash
    <3>1. n + 1 \in 1 .. N
      BY <1>2
    <3> QED
      BY <1>2, <3>1, TextParts, UpperNoSlash DEF NoSlash
  <2>3. g[n + 1] = UpStep(x, c) /\ UpStep(x, c) \in Filling /\ n + 1 \in Nat
    BY <1>1, <1>2, <2>1, <2>2, UpStepTypes
  <2>4. \A i \in 1 .. M : UpStep(x, c).f[i] # Slash
    <3>1. x.f \in Names /\ x.j \in Nat
      BY DEF Filling
    <3>2. CASE x.j >= BaseLen + ExtLen
      BY <2>1, <3>2 DEF UpStep
    <3>3. CASE ~(x.j >= BaseLen + ExtLen) /\ c = "."
      <4>1. UpStep(x, c).f = x.f
        BY <3>3 DEF UpStep, Filling
      <4> QED
        BY <2>1, <4>1
    <3>4. CASE ~(x.j >= BaseLen + ExtLen) /\ c # "."
      <4>1. UpStep(x, c).f = [x.f EXCEPT ![x.j + 1] = Upper(c)]
        BY <3>4 DEF UpStep
      <4> QED
        BY <1>2, <2>1, <2>2, <3>1, <4>1 DEF Names
    <3> QED
      BY <3>2, <3>3, <3>4
  <2> QED
    BY <2>3, <2>4
<1> HIDE DEF T
<1>5. N \in T
  <2>1. N \in 0 .. N
    BY <1>2
  <2> QED
    BY <1>2, <1>3, <1>4, <2>1, Induct
<1>6. DOMAIN up11(name) = 1 .. M
  BY <1>2, NameOfText DEF Names
<1> QED
  BY <1>1, <1>2, <1>5, <1>6 DEF T, NoSlash

\* The name cat makes of a slash does have one.
LEMMA SlashName == name83(<<Slash>>)[1] = Slash /\ 1 \in DOMAIN name83(<<Slash>>)
<1>1. PICK name \in Text : name = <<Slash>> /\ Len(name) = 1 /\ name[1] = Slash
  BY SlashText
<1>2. PICK g, h : /\ g[0] = Blank /\ h[0] = Unsplit
                  /\ \A n \in 0 .. Len(name) - 1 : /\ g[n + 1] = UpStep(g[n], name[n + 1])
                                                   /\ h[n + 1] = SplitStep(h[n], name[n + 1])
                  /\ up11(name) = g[Len(name)].f
                  /\ name83(name) = Field(Cut(h[Len(name)].base, BaseLen + 1),
                                          Cut(h[Len(name)].ext, ExtLen + 1))
  BY NameRuns
<1>3. PICK u \in Splitting : u = Unsplit /\ u.base = <<>> /\ ~u.dot
  BY UnsplitTypes
<1>4. h[1] = SplitStep(u, Slash)
  <2>1. 0 \in 0 .. Len(name) - 1 /\ 0 + 1 = 1
    BY <1>1
  <2> QED
    BY <1>1, <1>2, <1>3, <2>1
<1>5. Upper(Slash) = Slash /\ Slash # "."
  BY PathConstants DEF Upper, Slash
<1>6. PICK none \in Text : none = <<>>
  BY SlashText
<1>7. h[1].base = Append(none, Slash)
  <2>1. SplitStep(u, Slash) = [base |-> Append(u.base, Upper(Slash)), ext |-> u.ext, dot |-> u.dot]
    BY <1>3, <1>5, Characters, SplitSteps
  <2>2. SplitStep(u, Slash).base = Append(u.base, Upper(Slash))
    BY <2>1
  <2> QED
    BY <1>3, <1>4, <1>5, <1>6, <2>2, Zenon
<1>8. PICK b \in Text : b = h[1].base /\ Len(b) = 1 /\ b[1] = Slash
  <2>1. /\ Append(none, Slash) \in Text /\ Len(Append(none, Slash)) = Len(none) + 1
        /\ Append(none, Slash)[Len(none) + 1] = Slash
    BY Characters, TextAppend
  <2>2. Len(none) + 1 = 1
    BY <1>6
  <2>3. Len(Append(none, Slash)) = 1 /\ Append(none, Slash)[1] = Slash
    BY <2>1, <2>2, Zenon
  <2> QED
    BY <1>7, <2>1, <2>3, Zenon
<1>9. PICK B \in Nat, X \in Nat : B = BaseLen /\ X = ExtLen /\ B > 0
  BY PathConstants
<1>10. Cut(b, BaseLen + 1) = b
  <2>1. BaseLen + 1 \in Nat /\ Len(b) < BaseLen + 1
    BY <1>8, <1>9
  <2> QED
    BY <2>1, CutAll
<1> DEFINE e == Cut(h[Len(name)].ext, ExtLen + 1)
<1>11. name83(name) = Field(b, e)
  BY <1>1, <1>2, <1>8, <1>10
<1> HIDE DEF e
<1>12. 1 \in 1 .. B + X /\ 1 <= 1
  BY <1>9
<1>13. Field(b, e) = [i \in 1 .. B + X |-> IF i <= Len(b) THEN b[i]
                        ELSE IF i > BaseLen /\ i - BaseLen <= Len(e) THEN e[i - BaseLen] ELSE " "]
  BY <1>9 DEF Field
<1>14. Field(b, e)[1] = Slash /\ 1 \in DOMAIN Field(b, e)
  BY <1>8, <1>12, <1>13
<1> QED
  BY <1>1, <1>11, <1>14

-----------------------------------------------------------------------------
(* Parts hold no slash, and a text without one is its own part.              *)

Slashless(comps) == \A k \in 1 .. Len(comps) : NoSlash(comps[k])

LEMMA GrowsSlashless ==
  ASSUME NEW p \in Text, NoSlash(p), NEW c \in Char, c # Slash
  PROVE  NoSlash(Append(p, c))
<1>1. PICK q \in Text, n \in Nat : /\ q = Append(p, c) /\ n = Len(p) /\ Len(q) = n + 1
                                      /\ q[n + 1] = c
                                   /\ \A k \in 1 .. n : q[k] = p[k]
  <2>1. /\ Append(p, c) \in Text /\ Len(Append(p, c)) = Len(p) + 1 /\ Len(p) \in Nat
        /\ \A k \in 1 .. Len(p) : Append(p, c)[k] = p[k]
        /\ Append(p, c)[Len(p) + 1] = c
    BY TextAppend, TextParts
  <2> QED
    BY <2>1
<1>2. DOMAIN q = 1 .. Len(q) /\ DOMAIN p = 1 .. Len(p)
  BY DEF Text
<1>3. \A k \in 1 .. n + 1 : k \in 1 .. n \/ k = n + 1
  BY <1>1
<1> QED
  BY <1>1, <1>2, <1>3 DEF NoSlash

LEMMA StepSlashless ==
  ASSUME NEW st \in PartState, NEW c \in Char, Slashless(st.all), NoSlash(st.part)
  PROVE  Slashless(PartStep(st, c).all) /\ NoSlash(PartStep(st, c).part)
<1>0. PICK a \in Seq(Text), p \in Text : a = st.all /\ p = st.part
  BY DEF PartState
<1>1. CASE c # Slash
  <2>1. PartStep(st, c).all = a /\ PartStep(st, c).part = Append(p, c)
    BY <1>0, <1>1, StepGrows
  <2>2. NoSlash(Append(p, c))
    BY <1>0, <1>1, GrowsSlashless
  <2> QED
    BY <1>0, <2>1, <2>2
<1>2. CASE c = Slash /\ p = <<>>
  BY <1>0, <1>2, StepClears
<1>3. CASE c = Slash /\ p # <<>>
  <2>1. Append(a, p) \in Seq(Text)
    BY AppendProperties
  <2>2. PICK b \in Seq(Text) : b = Append(a, p)
    BY <2>1
  <2>3. PICK n \in Nat : n = Len(a)
    BY <1>0
  <2>4. Len(b) = n + 1 /\ b[n + 1] = p /\ \A k \in 1 .. n : b[k] = a[k]
    BY <2>2, <2>3
  <2>5. \A k \in 1 .. n + 1 : k \in 1 .. n \/ k = n + 1
    BY <2>3
  <2>6. Slashless(b)
    BY <1>0, <2>3, <2>4, <2>5 DEF Slashless
  <2>7. NoSlash(<<>>)
    BY DEF NoSlash
  <2>8. PartStep(st, Slash).all = b /\ PartStep(st, Slash).part = <<>>
    BY <1>0, <1>3, <2>2, StepClears
  <2> QED
    BY <1>3, <2>6, <2>7, <2>8
<1> QED
  BY <1>1, <1>2, <1>3

LEMMA PartsSlashless ==
  ASSUME NEW s \in Text
  PROVE  Slashless(Parts(s))
<1> DEFINE T == {k \in Nat : Slashless(Sight(SubSeq(s, 1, k)).all)
      /\ NoSlash(Sight(SubSeq(s, 1, k)).part)}
<1>1. PICK N \in Nat : N = Len(s)
  BY TextParts
<1>2. 0 \in T
  <2>1. NoParts.all = <<>> /\ NoParts.part = <<>> /\ SubSeq(s, 1, 0) = <<>>
    BY TextPrefixes DEF NoParts
  <2>2. Slashless(<<>>) /\ NoSlash(<<>>)
    BY DEF Slashless, NoSlash
  <2> QED
    BY <2>1, <2>2, SightEmpty
<1>3. ASSUME NEW k \in 0 .. N - 1, k \in T PROVE k + 1 \in T
  <2>1. k \in 0 .. N /\ k + 1 \in 1 .. N /\ s[k + 1] \in Char /\ k + 1 \in Nat
          /\ k \in 0 .. Len(s) - 1
    BY <1>1, TextParts
  <2>2. PICK st \in PartState : st = Sight(SubSeq(s, 1, k))
    BY <1>1, <2>1, TextPrefixes, SightParts
  <2>3. Sight(SubSeq(s, 1, k + 1)) = PartStep(st, s[k + 1])
    BY <2>1, <2>2, SightNext
  <2>4. Slashless(PartStep(st, s[k + 1]).all) /\ NoSlash(PartStep(st, s[k + 1]).part)
    BY <1>3, <2>1, <2>2, StepSlashless
  <2> QED
    BY <2>1, <2>3, <2>4
<1> HIDE DEF T
<1>4. N \in T
  <2>1. N \in 0 .. N
    BY <1>1
  <2> QED
    BY <1>1, <1>2, <1>3, <2>1, Induct
<1>5. PICK st \in PartState : st = Sight(s) /\ Slashless(st.all) /\ NoSlash(st.part)
  BY <1>1, <1>4, TextPrefixes, SightParts DEF T
<1>6. Slashless(PartStep(st, Slash).all)
  BY <1>5, StepSlashless, Characters
<1> QED
  BY <1>5, <1>6, SightParts

\* A name without a slash is one part.
LEMMA OnePart ==
  ASSUME NEW s \in Text, s # <<>>, NoSlash(s)
  PROVE  Parts(s) = Append(<<>>, s)
<1> DEFINE T == {k \in Nat : Sight(SubSeq(s, 1, k)) = [all |-> <<>>, part |-> SubSeq(s, 1, k)]}
<1>1. PICK N \in Nat : N = Len(s) /\ \A k \in 1 .. N : s[k] # Slash
  <2>1. DOMAIN s = 1 .. Len(s)
    BY DEF Text
  <2> QED
    BY <2>1, TextParts DEF NoSlash
<1>2. 0 \in T
  BY TextPrefixes, SightEmpty DEF NoParts
<1>3. ASSUME NEW k \in 0 .. N - 1, k \in T PROVE k + 1 \in T
  <2>1. k \in 0 .. N /\ k + 1 \in 1 .. N /\ s[k + 1] # Slash /\ k + 1 \in Nat
          /\ k \in 0 .. Len(s) - 1
    BY <1>1
  <2>2. Sight(SubSeq(s, 1, k + 1)) = PartStep([all |-> <<>>, part |-> SubSeq(s, 1, k)], s[k + 1])
    BY <1>3, <2>1, SightNext
  <2>3. PartStep([all |-> <<>>, part |-> SubSeq(s, 1, k)], s[k + 1])
          = [all |-> <<>>, part |-> Append(SubSeq(s, 1, k), s[k + 1])]
    BY <2>1, PartGrows
  <2>4. Append(SubSeq(s, 1, k), s[k + 1]) = SubSeq(s, 1, k + 1)
    BY <2>1, LongerPrefix DEF Text
  <2> QED
    BY <2>1, <2>2, <2>3, <2>4
<1> HIDE DEF T
<1>4. N \in T
  <2>1. N \in 0 .. N
    BY <1>1
  <2> QED
    BY <1>1, <1>2, <1>3, <2>1, Induct
<1>5. Sight(s) = [all |-> <<>>, part |-> s]
  BY <1>1, <1>4, TextPrefixes DEF T
<1>6. PartStep([all |-> <<>>, part |-> s], Slash) = [all |-> Append(<<>>, s), part |-> <<>>]
  BY PartCloses
<1> QED
  BY <1>5, <1>6, SightParts

LEMMA PartsOfNothing == Parts(<<>>) = <<>>
<1>1. <<>> \in Text /\ Sight(<<>>) = NoParts
  BY SlashText, SightEmpty
<1>2. PartStep(NoParts, Slash) = NoParts /\ NoParts.all = <<>>
  BY PartCloses DEF NoParts
<1> QED
  BY <1>1, <1>2, SightParts

-----------------------------------------------------------------------------
(* The text of the working directory.                                        *)

LEMMA PrefixTidy ==
  /\ DiskPrefix # <<>> /\ DiskPrefix[1] = Slash /\ Clean(DiskPrefix)
  /\ \A k \in 1 .. Len(DiskPrefix) : DiskPrefix[k] = "." =>
       k + 1 \in 1 .. Len(DiskPrefix) /\ DiskPrefix[k + 1] \notin {Slash, Nul}
<1>1. PICK d \in Text, n \in Nat : d = DiskName /\ n = Len(d) /\ n >= 1 /\ DOMAIN d = 1 .. n
  <2>1. DiskName \in Text /\ DOMAIN DiskName = 1 .. Len(DiskName) /\ DiskName # <<>>
    BY TextConstants, PathConstants DEF Text
  <2> QED
    BY <2>1, TextParts
<1>2. \A k \in 1 .. n : d[k] # Slash /\ d[k] # Nul
  BY <1>1, PathConstants
<1>3. d[n] # "."
  BY <1>1, PathConstants DEF Last
<1>4. PICK p \in Text : p = DiskPrefix /\ Len(p) = n + 1 /\ p[1] = Slash
        /\ \A k \in 1 .. n : p[k + 1] = d[k]
  BY <1>1, PrefixText, PrefixCharacters
<1>5. \A k \in 1 .. n + 1 : k = 1 \/ (k - 1 \in 1 .. n /\ (k - 1) + 1 = k)
  BY <1>1
<1>6. Slash # Nul /\ Slash # "."
  BY DEF Slash, Nul
<1>7. \A k \in 1 .. n + 1 : p[k] # Nul
  BY <1>2, <1>4, <1>5, <1>6
<1>8. ASSUME NEW k \in 1 .. n + 1, p[k] = "."
      PROVE  k + 1 \in 1 .. n + 1 /\ p[k + 1] # Slash /\ p[k + 1] # Nul
  <2>1. k # 1
    BY <1>4, <1>6, <1>8
  <2>2. k - 1 \in 1 .. n /\ p[k] = d[k - 1]
    BY <1>4, <1>5, <2>1
  <2>3. k - 1 # n
    BY <1>3, <1>8, <2>2
  <2>4. k \in 1 .. n
    BY <1>1, <2>2, <2>3
  <2>5. p[k + 1] = d[k]
    BY <1>4, <2>4
  <2> QED
    BY <1>1, <1>2, <2>4, <2>5
<1>9. p # <<>>
  BY <1>1, <1>4
<1> QED
  BY <1>4, <1>7, <1>8, <1>9 DEF Clean

\* What force_disk_abs makes of a path: a tidy one, if the buffer holds it.
LEMMA TargetTidy ==
  ASSUME NEW p \in Text, p # <<>>, p[1] = Slash, Clean(p), Tidy(p)
  PROVE  LET t == force_disk_abs(p)
         IN  /\ t \in Text /\ t # <<>> /\ t[1] = Slash /\ Clean(t)
             /\ Tidy(t) \/ Len(t) = Cap - 1
<1>1. CASE IsPrefix(DiskPrefix, p)
  BY <1>1 DEF force_disk_abs
<1>2. CASE ~IsPrefix(DiskPrefix, p)
  <2>1. PICK d \in Text, n \in Nat, N \in Nat, C \in Nat :
          /\ d = DiskPrefix /\ n = Len(d) /\ N = Len(p) /\ C = Cap /\ N >= 1 /\ n >= 1 /\ n < C
          /\ d[1] = Slash /\ (\A k \in 1 .. n : d[k] # Nul)
          /\ \A k \in 1 .. n : d[k] = "." => k + 1 \in 1 .. n /\ d[k + 1] \notin {Slash, Nul}
    BY PrefixText, PrefixTidy, TextParts, PathConstants DEF Clean
  <2>2. PICK a \in Text : /\ a = d \o p /\ Len(a) = n + N
                          /\ \A k \in 1 .. n : a[k] = d[k]
                          /\ \A k \in 1 .. N : a[n + k] = p[k]
    <3>1. /\ d \o p \in Text /\ Len(d \o p) = Len(d) + Len(p)
          /\ \A k \in 1 .. Len(d) : (d \o p)[k] = d[k]
          /\ \A k \in 1 .. Len(p) : (d \o p)[Len(d) + k] = p[k]
      BY <2>1, TextConcat
    <3> QED
      BY <2>1, <3>1, ZenonT(40)
  <2>3. force_disk_abs(p) = Cut(a, Cap)
    <3>1. d \o <<>> = d
      BY <2>1 DEF Text
    <3>2. force_disk_abs(p) = Cut(d \o (IF p[1] = Slash THEN <<>> ELSE <<Slash>>) \o p, Cap)
      BY <1>2, <2>1 DEF force_disk_abs
    <3> QED
      BY <2>2, <3>1, <3>2
  <2>4. \A i \in 1 .. n + N : i \in 1 .. n \/ (i - n \in 1 .. N /\ n + (i - n) = i
          /\ n + ((i - n) + 1) = i + 1)
    BY <2>1
  <2>5. \A i \in 1 .. N : p[i] # Nul /\ (p[i] = "." => i + 1 \in 1 .. N
          /\ p[i + 1] \notin {Slash, Nul})
    BY <2>1 DEF Clean, Tidy, Ends, At
  <2>6. \A i \in 1 .. n + N : a[i] # Nul
    BY <2>1, <2>2, <2>4, <2>5
  <2>7. ASSUME NEW i \in 1 .. n + N, a[i] = "."
        PROVE  i + 1 \in 1 .. n + N /\ a[i + 1] \notin {Slash, Nul}
    <3>1. CASE i \in 1 .. n
      <4>1. i + 1 \in 1 .. n /\ d[i + 1] \notin {Slash, Nul}
        BY <2>1, <2>2, <2>7, <3>1
      <4>2. i + 1 \in 1 .. n + N
        BY <2>1, <4>1
      <4> QED
        BY <2>2, <4>1, <4>2
    <3>2. CASE i \notin 1 .. n
      <4>1. i - n \in 1 .. N /\ n + (i - n) = i /\ n + ((i - n) + 1) = i + 1
        BY <2>4, <3>2
      <4>2. p[i - n] = "."
        BY <2>2, <2>7, <4>1
      <4>3. (i - n) + 1 \in 1 .. N /\ p[(i - n) + 1] \notin {Slash, Nul}
        BY <2>5, <4>1, <4>2
      <4>4. a[i + 1] = p[(i - n) + 1]
        BY <2>2, <4>1, <4>3
      <4>5. i + 1 \in 1 .. n + N
        BY <2>1, <4>1, <4>3
      <4> QED
        BY <4>3, <4>4, <4>5
    <3> QED
      BY <3>1, <3>2
  <2>8. a # <<>> /\ a[1] = Slash /\ Clean(a) /\ Tidy(a)
    <3>1. 1 \in 1 .. n /\ n + N > 0
      BY <2>1
    <3>2. a # <<>> /\ a[1] = Slash
      BY <2>1, <2>2, <3>1
    <3>3. Clean(a)
      BY <2>2, <2>6 DEF Clean
    <3>4. Tidy(a)
      BY <2>2, <2>7 DEF Tidy, Ends, At
    <3> QED
      BY <3>2, <3>3, <3>4
  <2>9. CASE n + N < C
    <3>1. Cut(a, Cap) = a
      BY <2>1, <2>2, <2>9, CutAll
    <3> QED
      BY <2>3, <2>8, <3>1
  <2>10. CASE ~(n + N < C)
    <3>1. PICK m \in Nat : m = C - 1 /\ m >= 1 /\ m \in 0 .. n + N
      BY <2>1, <2>10
    <3>2. Cut(a, Cap) = SubSeq(a, 1, m)
      BY <2>1, <2>2, <2>10, <3>1 DEF Cut
    <3>3. PICK t \in Text : t = SubSeq(a, 1, m) /\ Len(t) = m /\ \A i \in 1 .. m : t[i] = a[i]
      <4>1. m \in 0 .. Len(a)
        BY <2>2, <3>1
      <4>2. SubSeq(a, 1, m) \in Text /\ Len(SubSeq(a, 1, m)) = m
              /\ \A i \in 1 .. m : SubSeq(a, 1, m)[i] = a[i]
        BY <4>1, TextPrefixes
      <4> QED
        BY <4>2
    <3>4. \A i \in 1 .. m : i \in 1 .. n + N
      BY <3>1
    <3>5. t # <<>> /\ t[1] = Slash /\ Clean(t)
      <4>1. 1 \in 1 .. m
        BY <3>1
      <4>2. Clean(t)
        BY <2>6, <3>3, <3>4 DEF Clean
      <4> QED
        BY <2>8, <3>1, <3>3, <4>1, <4>2
    <3>6. Len(t) = Cap - 1
      BY <2>1, <3>1, <3>3
    <3> QED
      BY <2>3, <3>2, <3>3, <3>5, <3>6
  <2> QED
    BY <2>9, <2>10
<1> QED
  BY <1>1, <1>2

\* The working directory is an absolute path; no part of it ends in a dot unless
\* the buffer's end cut it; it is the root or lies on the disk.
Absolute(c) ==
  /\ c # <<>> /\ c[1] = Slash /\ Clean(c)
  /\ Tidy(c) \/ Len(c) = Cap - 1
  /\ c = <<Slash>> \/ disk_subpath(c) # {}

LEMMA PrefixPlace == Absolute(DiskPrefix)
<1>1. Tidy(DiskPrefix)
  BY PrefixTidy DEF Tidy, Ends, At
<1>2. DiskPrefix \in Text
  BY PrefixText
<1>3. IsPrefix(DiskPrefix, DiskPrefix)
  <2>1. Len(DiskPrefix) >= Len(DiskPrefix)
    BY PrefixText, TextParts
  <2> QED
    BY <1>2, <2>1, PrefixMeans
<1>4. disk_subpath(DiskPrefix) # {}
  BY <1>2, <1>3, SubpathThere
<1> QED
  BY <1>1, <1>4, PrefixTidy DEF Absolute

LEMMA SlashPlace == Absolute(<<Slash>>)
<1>1. PICK s \in Text : s = <<Slash>> /\ Len(s) = 1 /\ s[1] = Slash /\ s # <<>>
  BY SlashText
<1>2. Slash # Nul /\ Slash # "."
  BY DEF Slash, Nul
<1>3. Clean(s) /\ Tidy(s)
  BY <1>1, <1>2 DEF Clean, Tidy
<1> QED
  BY <1>1, <1>3 DEF Absolute

LEMMA ArgsClean ==
  ASSUME NEW arg \in Args
  PROVE  arg \in Text /\ Clean(arg)
<1>1. arg \in Text
  BY TextConstants
<1>2. DOMAIN arg = 1 .. Len(arg)
  BY <1>1 DEF Text
<1> QED
  BY <1>1, <1>2, ShellConstants DEF Clean

LEMMA CdPlace ==
  ASSUME CwdInv, Absolute(cwd), NEW arg \in Args, Cd(arg)
  PROVE  Absolute(cwd')
<1> DEFINE a   == IF arg = <<>> THEN <<Slash>> ELSE arg
           tmp == Target(a)
<1>1. a \in Text /\ Clean(a)
  <2>1. <<Slash>> \in Text /\ Clean(<<Slash>>)
    BY SlashPlace, SlashText DEF Absolute
  <2> QED
    BY <2>1, ArgsClean
<1> HIDE DEF a
<1>2. PICK p : p = path_resolve(cwd, a) /\ p \in Text /\ p # <<>> /\ p[1] = Slash /\ Clean(p)
        /\ Tidy(p)
  BY <1>1, ResolveTidy DEF CwdInv, Absolute
<1>3. tmp # <<>> /\ tmp[1] = Slash /\ Clean(tmp) /\ (Tidy(tmp) \/ Len(tmp) = Cap - 1)
  BY <1>2, TargetTidy DEF Target
<1>4. \/ cwd' = cwd
      \/ disk_subpath(tmp) # {} /\ cwd' \in {DiskPrefix, tmp}
  BY Zenon DEF Cd, a
<1> HIDE DEF tmp
<1>5. CASE cwd' = cwd
  BY <1>5
<1>6. CASE cwd' = DiskPrefix
  BY <1>6, PrefixPlace
<1>7. CASE disk_subpath(tmp) # {} /\ cwd' = tmp
  <2>1. Absolute(tmp)
    BY <1>3, <1>7 DEF Absolute
  <2> QED
    BY <1>7, <2>1
<1> QED
  BY <1>4, <1>5, <1>6, <1>7

-----------------------------------------------------------------------------
(* The commands' answers, for a directory c, files fs and an outcome.        *)

FindIn(fs, comps) ==
  LET f == [k \in DOMAIN comps |-> up11(comps[k])]
  IN  IF f \in Dirs THEN DirNode(f)
      ELSE IF f # <<>> /\ <<Front(f), Last(f)>> \in DOMAIN fs
      THEN FileNode(<<Front(f), Last(f)>>) ELSE NoNode

CdMeans(c, fs, from, arg, reply) ==
  LET at == OnDisk(Meaning(from, arg))
  IN  arg # <<>> /\ ~Clash(Meaning(from, arg)) =>
        IF FindIn(fs, at)[1] = "dir"
        THEN reply = FindIn(fs, at) /\ FindIn(fs, OnDisk(Parts(c))) = FindIn(fs, at)
        ELSE reply = Refused /\ c = from

LsMeans(fs, from, arg, reply) ==
  ~Clash(Meaning(from, arg)) /\ AllUncut(OnDisk(Meaning(from, arg))) =>
    reply = Only("dir", FindIn(fs, OnDisk(Meaning(from, arg))))

CatMeans(fs, arg, reply) ==
  LET top   == Parts(arg)
      below == IF arg # <<>> /\ arg[1] = Slash THEN OnDisk(top) ELSE top
  IN  NoDots(arg) /\ (\A k \in DOMAIN top : Short(top[k])) /\ (arg[1] = Slash => ~Clash(top)) =>
        reply = Only("file", FindIn(fs, below))

MeansIn(c, fs, l) ==
  Plain(l.arg) /\ Fits(l.from, l.arg) =>
    /\ l.cmd = "cd" => CdMeans(c, fs, l.from, l.arg, l.reply)
    /\ l.cmd = "ls" => LsMeans(fs, l.from, l.arg, l.reply)
    /\ l.cmd = "cat" => CatMeans(fs, l.arg, l.reply)

LEMMA MeansOutcome ==
  /\ PathsMean <=> (mounted => MeansIn(cwd, files, last))
  /\ PathsMean' <=> (mounted' => MeansIn(cwd', files', last'))
BY DEF PathsMean, MeansIn, CdMeans, LsMeans, CatMeans, Clear, Find, FindIn

LEMMA FindsIn ==
  ASSUME NEW comps
  PROVE  Find(comps) = FindIn(files, comps)
BY DEF Find, FindIn

LEMMA FitsTidy ==
  ASSUME CwdInv, Absolute(cwd), NEW arg \in Text, Fits(cwd, arg)
  PROVE  Tidy(cwd) /\ Len(cwd) + Len(arg) + Len(DiskPrefix) + 2 < Cap
<1>1. Len(cwd) \in Nat /\ Len(arg) \in Nat /\ Len(DiskPrefix) \in Nat /\ Cap \in Nat
  BY TextParts, PrefixText, PathConstants DEF CwdInv
<1>2. Len(cwd) # Cap - 1
  BY <1>1 DEF Fits
<1> QED
  BY <1>2 DEF Fits, Absolute

LEMMA TargetMeans ==
  ASSUME CwdInv, FilesInv, Absolute(cwd), NEW arg \in Text, Clean(arg), Plain(arg), Fits(cwd, arg),
         ~Clash(Meaning(cwd, arg))
  PROVE  LET at  == OnDisk(Meaning(cwd, arg))
             sub == disk_subpath(Target(arg))
         IN  /\ sub # {} /\ Parts(One(sub)) = at
             /\ OnDisk(Parts(Target(arg))) = at
             /\ Walk(Parts(One(sub))) = FindIn(files, at)
             /\ AllUncut(at) => walk_path(Parts(One(sub))) = FindIn(files, at)
<1>1. cwd \in Text
  BY DEF CwdInv
<1>2. Tidy(cwd) /\ Len(cwd) + Len(arg) + Len(DiskPrefix) + 2 < Cap
  BY <1>1, FitsTidy
<1>3. PICK p \in Text : /\ p = path_resolve(cwd, arg) /\ p # <<>> /\ p[1] = Slash /\ Single(p)
                        /\ Len(p) <= Len(cwd) + 1 + Len(arg)
                        /\ Parts(p) = Meaning(cwd, arg)
  BY <1>1, <1>2, ResolveMeans DEF Absolute
<1>4. Len(p) + Len(DiskPrefix) < Cap
  <2>1. PICK a \in Nat, b \in Nat, c \in Nat, d \in Nat, e \in Nat :
          a = Len(p) /\ b = Len(cwd) /\ c = Len(arg) /\ d = Len(DiskPrefix) /\ e = Cap
    BY <1>1, <1>3, TextParts, PrefixText, PathConstants
  <2> QED
    BY <1>2, <1>3, <2>1
<1> DEFINE tmp == force_disk_abs(p)
<1>5. /\ tmp \in Text /\ disk_subpath(tmp) # {}
      /\ Parts(One(disk_subpath(tmp))) = OnDisk(Parts(p))
      /\ OnDisk(Parts(tmp)) = OnDisk(Parts(p))
  BY <1>3, <1>4, DiskView
<1>6. tmp = Target(arg)
  BY <1>3 DEF Target
<1> HIDE DEF tmp
<1>7. Parts(One(disk_subpath(tmp))) \in Seq(Text)
  BY <1>5, SubpathParts, PartsText
<1>8. Walk(Parts(One(disk_subpath(tmp)))) = FindIn(files, Parts(One(disk_subpath(tmp))))
  BY <1>7, WalkFinds, FindsIn
<1>9. AllUncut(Parts(One(disk_subpath(tmp)))) =>
        walk_path(Parts(One(disk_subpath(tmp)))) = FindIn(files, Parts(One(disk_subpath(tmp))))
  BY <1>7, KeptFinds, FindsIn
<1> QED
  BY <1>3, <1>5, <1>6, <1>8, <1>9

LEMMA CdAnswers ==
  ASSUME CwdInv, FilesInv, Absolute(cwd), mounted, NEW arg \in Args, Cd(arg),
         Plain(arg), Fits(cwd, arg)
  PROVE  CdMeans(cwd', files, cwd, arg, last'.reply)
<1> SUFFICES ASSUME arg # <<>>, ~Clash(Meaning(cwd, arg))
             PROVE  CdMeans(cwd', files, cwd, arg, last'.reply)
  BY DEF CdMeans
<1> DEFINE at  == OnDisk(Meaning(cwd, arg))
           tmp == Target(arg)
           sub == disk_subpath(tmp)
<1>1. /\ sub # {} /\ Parts(One(sub)) = at /\ OnDisk(Parts(tmp)) = at
      /\ Walk(Parts(One(sub))) = FindIn(files, at)
  BY ArgsClean, TargetMeans
<1>2. \/ /\ fat32_is_dir_path(One(sub))
         /\ cwd' = (IF One(sub) \in {<<>>, <<Slash>>} THEN DiskPrefix ELSE tmp)
         /\ Answer("cd", arg, <<>>, Walk(Parts(One(sub))), <<>>)
      \/ /\ ~fat32_is_dir_path(One(sub))
         /\ Answer("cd", arg, <<>>, Refused, <<>>) /\ UNCHANGED cwd
  BY <1>1, Zenon DEF Cd
<1>3. fat32_is_dir_path(One(sub)) <=> FindIn(files, at)[1] = "dir"
  BY <1>1 DEF fat32_is_dir_path
<1> HIDE DEF at, tmp, sub
<1>4. CASE fat32_is_dir_path(One(sub))
  <2>1. last'.reply = FindIn(files, at)
    BY <1>1, <1>2, <1>4 DEF Answer
  <2>2. OnDisk(Parts(cwd')) = at
    <3>1. CASE One(sub) \in {<<>>, <<Slash>>}
      <4>1. cwd' = DiskPrefix
        BY <1>2, <1>4, <3>1
      <4>2. at = <<>>
        BY <1>1, <3>1, PartsOfNothing, PartsOfSlash
      <4>3. OnDisk(Parts(DiskPrefix)) = <<>>
        BY PartsOfPrefix, RootIsDirectory
      <4> QED
        BY <4>1, <4>2, <4>3
    <3>2. CASE One(sub) \notin {<<>>, <<Slash>>}
      BY <1>1, <1>2, <1>4, <3>2
    <3> QED
      BY <3>1, <3>2
  <2> QED
    BY <1>3, <1>4, <2>1, <2>2 DEF CdMeans, at
<1>5. CASE ~fat32_is_dir_path(One(sub))
  <2>1. Answer("cd", arg, <<>>, Refused, <<>>) /\ cwd' = cwd
    BY <1>2, <1>5
  <2>2. last'.reply = Refused /\ cwd' = cwd
    BY <2>1 DEF Answer
  <2> QED
    BY <1>3, <1>5, <2>2 DEF CdMeans, at
<1> QED
  BY <1>4, <1>5

LEMMA LsAnswers ==
  ASSUME CwdInv, FilesInv, Absolute(cwd), mounted, NEW arg \in Args, Ls(arg),
         Plain(arg), Fits(cwd, arg)
  PROVE  LsMeans(files, cwd, arg, last'.reply)
<1> SUFFICES ASSUME ~Clash(Meaning(cwd, arg)), AllUncut(OnDisk(Meaning(cwd, arg)))
             PROVE  last'.reply = Only("dir", FindIn(files, OnDisk(Meaning(cwd, arg))))
  BY DEF LsMeans
<1> DEFINE at  == OnDisk(Meaning(cwd, arg))
           tmp == IF arg = <<>> THEN force_disk_abs(cwd) ELSE Target(arg)
           sub == disk_subpath(tmp)
<1>1. last'.reply = CASE ~mounted -> Refused
                      [] mounted /\ sub = {} -> Fault
                      [] OTHER -> try_list_all(One(sub))
  BY DEF Ls, Answer
<1>2. sub # {} /\ walk_path(Parts(One(sub))) = FindIn(files, at)
  <2>1. CASE arg # <<>>
    BY <2>1, ArgsClean, TargetMeans
  <2>2. CASE arg = <<>>
    <3>1. Meaning(cwd, <<>>) = Parts(cwd)
      <4>1. Meaning(cwd, <<>>) = Follow(Parts(cwd), Parts(<<>>))
        BY DEF Meaning
      <4> QED
        BY <4>1, PartsOfNothing, PartsText, FollowNone DEF CwdInv
    <3>2. at = OnDisk(Parts(cwd)) /\ tmp = force_disk_abs(cwd) /\ cwd \in Text
      BY <2>2, <3>1 DEF CwdInv
    <3> HIDE DEF at
    <3>3. sub # {} /\ Parts(One(sub)) = at /\ tmp \in Text
      <4>1. CASE cwd = <<Slash>>
        <5>1. PICK s \in Text : s = <<Slash>> /\ Len(s) = 1 /\ s # <<>> /\ s[1] = Slash
          BY SlashText
        <5>2. Single(s)
          BY <5>1 DEF Single
        <5>3. Len(s) + Len(DiskPrefix) < Cap
          <6>1. arg \in Text /\ Len(arg) = 0
            BY <2>2, SlashText
          <6>2. Len(cwd) + Len(arg) + Len(DiskPrefix) + 2 < Cap
            BY <6>1, FitsTidy
          <6>3. PICK d \in Nat, c \in Nat : d = Len(DiskPrefix) /\ c = Cap
            BY PrefixText, TextParts, PathConstants
          <6> QED
            BY <4>1, <5>1, <6>1, <6>2, <6>3
        <5>4. ~Clash(Parts(s))
          BY <2>2, <3>1, <4>1, <5>1
        <5> QED
          BY <3>2, <4>1, <5>1, <5>2, <5>3, <5>4, DiskView
      <4>2. CASE cwd # <<Slash>>
        <5>1. disk_subpath(cwd) # {}
          BY <4>2 DEF Absolute
        <5>2. tmp = cwd
          BY <3>2, <5>1 DEF force_disk_abs, disk_subpath
        <5> QED
          BY <3>2, <5>1, <5>2, SubpathParts
      <4> QED
        BY <4>1, <4>2
    <3>5. AllUncut(at)
      BY DEF at
    <3> HIDE DEF tmp
    <3>4. Parts(One(sub)) \in Seq(Text)
      BY <3>3, SubpathParts, PartsText
    <3> QED
      BY <3>3, <3>4, <3>5, KeptFinds, FindsIn
  <2> QED
    BY <2>1, <2>2
<1> HIDE DEF tmp, sub, at
<1>3. last'.reply = try_list_all(One(sub))
  BY <1>1, <1>2
<1>4. try_list_all(One(sub)) = Only("dir", FindIn(files, at))
  BY <1>2 DEF try_list_all, Only
<1> QED
  BY <1>3, <1>4 DEF at

FilesSlashless == \A f \in DOMAIN files : NoSlash(f[2])

\* What stands behind the disk's name in a path, and what cat makes of it.
LEMMA CatPart ==
  ASSUME NEW arg \in Text, arg # <<>>, Plain(arg), arg[1] = Slash => ~Clash(Parts(arg))
  PROVE  \E s \in Text :
           /\ CatNode(arg) = CASE HasSlash(s) -> fat32_read_stream_path(s)
                               [] s = <<>> -> fat32_read_stream_root83(<<Slash>>)
                               [] OTHER -> fat32_read_stream_root83(s)
           /\ Parts(s) = IF arg[1] = Slash THEN OnDisk(Parts(arg)) ELSE Parts(arg)
<1> DEFINE Strip(t) == IF t # <<>> /\ t[1] = Slash THEN Tail(t) ELSE t
           rest == SubSeq(arg, Len(DiskPrefix) + 1, Len(arg))
           s    == Strip(IF IsPrefix(DiskPrefix, arg) THEN rest ELSE arg)
<1>1. CatNode(arg) = CASE HasSlash(s) -> fat32_read_stream_path(s)
                       [] s = <<>> -> fat32_read_stream_root83(<<Slash>>)
                       [] OTHER -> fat32_read_stream_root83(s)
  BY Zenon DEF CatNode
<1>2. PICK n \in Nat, N \in Nat : n = Len(DiskPrefix) /\ N = Len(arg) /\ n >= 1 /\ N >= 1
  BY PrefixText, PrefixTidy, TextParts
<1>3. CASE arg[1] # Slash
  <2>1. ~IsPrefix(DiskPrefix, arg)
    BY <1>2, <1>3, PrefixMeans, PrefixTidy
  <2>2. s = arg
    BY <1>3, <2>1
  <2> HIDE DEF s
  <2> QED
    BY <1>1, <1>3, <2>2
<1>4. CASE arg[1] = Slash
  <2>1. Single(arg)
    BY DEF Plain, Single
  <2>2. CASE ~IsPrefix(DiskPrefix, arg)
    <3>1. s = Tail(arg)
      BY <1>4, <2>2
    <3> HIDE DEF s
    <3>2. s \in Text /\ Parts(s) = Parts(arg)
      BY <1>4, <3>1, SlashFirst
    <3>3. ~UnderDisk(Parts(arg))
      BY <1>4, <2>1, <2>2, NameFirst
    <3>4. OnDisk(Parts(arg)) = Parts(arg)
      BY <3>3 DEF OnDisk
    <3> QED
      BY <1>1, <1>4, <3>2, <3>4
  <2>3. CASE IsPrefix(DiskPrefix, arg)
    <3>1. disk_subpath(arg) # {}
      BY <1>4, <2>1, <2>3, NameFirst
    <3>2. One(disk_subpath(arg)) \in Text /\ Parts(One(disk_subpath(arg))) = OnDisk(Parts(arg))
      BY <3>1, SubpathParts
    <3>3. s = Strip(rest)
      BY <2>3
    <3>4. disk_subpath(arg) = CASE rest = <<>> -> {<<Slash>>}
                                [] rest # <<>> /\ rest[1] = Slash -> {Tail(rest)}
                                [] OTHER -> {}
      BY <2>3 DEF disk_subpath
    <3> HIDE DEF rest, s
    <3>5. CASE rest = <<>>
      <4>1. s = <<>>
        BY <3>3, <3>5
      <4>2. One(disk_subpath(arg)) = <<Slash>>
        BY <3>4, <3>5 DEF One
      <4>3. Parts(s) = OnDisk(Parts(arg)) /\ s \in Text
        BY <3>2, <4>1, <4>2, PartsOfSlash, PartsOfNothing, SlashText
      <4> QED
        BY <1>1, <1>4, <4>3
    <3>6. CASE rest # <<>>
      <4>1. rest[1] = Slash
        BY <3>1, <3>4, <3>6
      <4>2. s = Tail(rest)
        BY <3>3, <3>6, <4>1
      <4>3. One(disk_subpath(arg)) = Tail(rest)
        <5>1. disk_subpath(arg) = {Tail(rest)}
          BY <3>4, <3>6, <4>1
        <5> QED
          BY <5>1, Zenon DEF One
      <4> QED
        BY <1>1, <1>4, <3>2, <4>2, <4>3
    <3> QED
      BY <3>5, <3>6
  <2> QED
    BY <2>2, <2>3
<1> QED
  BY <1>3, <1>4

LEMMA FindNothing ==
  ASSUME FilesInv
  PROVE  Find(<<>>) = DirNode(<<>>)
<1>0. <<>> \in Seq(Text)
  OBVIOUS
<1>1. Walk(<<>>) = Find(<<>>)
  BY <1>0, WalkFinds
<1>2. Fields(<<>>) = <<>>
  BY DEF Fields
<1>3. Find(<<>>)[1] = "dir"
  BY RootIsDirectory, FindDirectory
<1> QED
  BY <1>0, <1>1, <1>2, <1>3, WalkEnds

\* A file in the root, under a short name.
LEMMA RootFinds ==
  ASSUME FilesInv, NEW s \in Text, s # <<>>, Short(s)
  PROVE  fat32_read_stream_root83(s) = Only("file", Find(Append(<<>>, s)))
<1>1. PICK hit : hit = <<<<>>, up11(s)>>
  OBVIOUS
<1>2. fat32_read_stream_root83(s) = IF hit \notin DOMAIN files THEN NoNode ELSE FileNode(hit)
  BY <1>1, ShortNames DEF fat32_read_stream_root83
<1>3. Find(Append(<<>>, s)) = Lookup(DirNode(<<>>), s)
  <2>1. <<>> \in Seq(Text)
    OBVIOUS
  <2> QED
    BY <2>1, FindStep, FindNothing
<1>4. DirNode(<<>>)[1] = "dir" /\ DirNode(<<>>)[2] = <<>>
  BY DEF DirNode
<1>5. /\ FileNode(hit)[1] = "file" /\ NoNode[1] # "file"
      /\ \A d : DirNode(d)[1] # "file"
  BY DEF FileNode, NoNode, DirNode
<1>6. CASE Append(<<>>, up11(s)) \in Dirs
  <2>1. hit \notin DOMAIN files
    <3>1. hit[1] = <<>> /\ hit[2] = up11(s)
      BY <1>1
    <3> QED
      BY <1>6, <3>1 DEF FilesInv
  <2>2. Find(Append(<<>>, s)) = DirNode(Append(<<>>, up11(s)))
    BY <1>3, <1>4, <1>6, Zenon DEF Lookup
  <2> QED
    BY <1>2, <1>5, <2>1, <2>2 DEF Only
<1>7. CASE Append(<<>>, up11(s)) \notin Dirs /\ hit \in DOMAIN files
  <2>1. Lookup(DirNode(<<>>), s) = FileNode(hit)
    BY <1>1, <1>4, <1>7 DEF Lookup
  <2> QED
    BY <1>2, <1>3, <1>5, <1>7, <2>1 DEF Only
<1>8. CASE Append(<<>>, up11(s)) \notin Dirs /\ hit \notin DOMAIN files
  <2>1. Lookup(DirNode(<<>>), s) = NoNode
    BY <1>1, <1>4, <1>8 DEF Lookup
  <2> QED
    BY <1>2, <1>3, <1>5, <1>8, <2>1 DEF Only
<1> QED
  BY <1>6, <1>7, <1>8

LEMMA CatFinds ==
  ASSUME FilesInv, FilesSlashless, NEW arg \in Text, arg # <<>>, Plain(arg),
         arg[1] = Slash => ~Clash(Parts(arg)), \A k \in DOMAIN Named(arg) : Short(Named(arg)[k])
  PROVE  CatNode(arg) = Only("file", FindIn(files, Named(arg)))
<1> DEFINE below == Named(arg)
<1> SUFFICES CatNode(arg) = Only("file", FindIn(files, below))
  OBVIOUS
<1>3. PICK s \in Text :
         /\ CatNode(arg) = CASE HasSlash(s) -> fat32_read_stream_path(s)
                             [] s = <<>> -> fat32_read_stream_root83(<<Slash>>)
                             [] OTHER -> fat32_read_stream_root83(s)
         /\ Parts(s) = below
  BY CatPart DEF Named
<1>4. below \in Seq(Text) /\ \A k \in DOMAIN below : Short(below[k])
  BY <1>3, PartsText
<1> HIDE DEF below
<1>5. FindIn(files, below) = Find(below)
  BY FindsIn
<1>6. CASE HasSlash(s)
  <2>0. s # <<>>
    BY <1>6 DEF HasSlash
  <2>1. CatNode(arg) = fat32_read_stream_path(s)
    BY <1>3, <1>6, <2>0
  <2>2. fat32_read_stream_path(s) = Only("file", walk_path(below))
    BY <1>3, Zenon DEF fat32_read_stream_path, Only
  <2>3. AllUncut(below)
    <3>1. \A k \in DOMAIN below : below[k] \in Text
      BY <1>4
    <3> QED
      BY <1>4, <3>1, ShortUncut DEF AllUncut
  <2> QED
    BY <1>4, <1>5, <2>1, <2>2, <2>3, KeptFinds
<1>7. CASE ~HasSlash(s) /\ s = <<>>
  <2>1. below = <<>>
    BY <1>3, <1>7, PartsOfNothing
  <2>2. Only("file", Find(below)) = NoNode
    <3>1. DirNode(<<>>)[1] # "file"
      BY DEF DirNode
    <3> QED
      BY <2>1, <3>1, FindNothing DEF Only
  <2>3. CatNode(arg) = fat32_read_stream_root83(<<Slash>>)
    BY <1>3, <1>7
  <2>4. <<<<>>, name83(<<Slash>>)>> \notin DOMAIN files
    <3>0. PICK name : name = name83(<<Slash>>)
      OBVIOUS
    <3>1. PICK hit : hit = <<<<>>, name>>
      OBVIOUS
    <3>3. hit[2] = name
      BY <3>1
    <3>2. ~NoSlash(name83(<<Slash>>))
      BY SlashName DEF NoSlash
    <3> QED
      BY <3>0, <3>1, <3>2, <3>3 DEF FilesSlashless
  <2>5. fat32_read_stream_root83(<<Slash>>) = NoNode
    BY <2>4 DEF fat32_read_stream_root83
  <2> QED
    BY <1>5, <2>2, <2>3, <2>5
<1>8. CASE ~HasSlash(s) /\ s # <<>>
  <2>1. CatNode(arg) = fat32_read_stream_root83(s)
    BY <1>3, <1>8
  <2>2. NoSlash(s)
    BY <1>8 DEF HasSlash, NoSlash
  <2>3. below = Append(<<>>, s)
    BY <1>3, <1>8, <2>2, OnePart
  <2>4. Short(s)
    <3>1. below[1] = s /\ 1 \in DOMAIN below
      BY <2>3
    <3> QED
      BY <1>4, <3>1
  <2> QED
    BY <1>5, <1>8, <2>1, <2>3, <2>4, RootFinds
<1> QED
  BY <1>6, <1>7, <1>8

LEMMA CatAnswers ==
  ASSUME FilesInv, FilesSlashless, mounted, NEW arg \in Args, Cat(arg), Plain(arg)
  PROVE  CatMeans(files, arg, last'.reply)
<1> DEFINE top   == Parts(arg)
           below == IF arg # <<>> /\ arg[1] = Slash THEN OnDisk(top) ELSE top
<1> SUFFICES ASSUME \A k \in DOMAIN top : Short(top[k]), arg[1] = Slash => ~Clash(top)
             PROVE  last'.reply = Only("file", FindIn(files, below))
  BY DEF CatMeans
<1>1. arg \in Text /\ arg # <<>> /\ below = Named(arg)
  BY ArgsClean DEF Cat, Named
<1>2. last'.reply = CatNode(arg)
  BY DEF Cat, Answer
<1>4. \A k \in DOMAIN below : Short(below[k])
  <2>1. top \in Seq(Text)
    BY <1>1, PartsText
  <2>2. CASE below = top
    BY <2>2
  <2>3. CASE below # top
    <3>1. below = Tail(top) /\ top # <<>>
      BY <2>3 DEF OnDisk, UnderDisk
    <3> HIDE DEF below, top
    <3>2. PICK n \in Nat : n = Len(top) /\ DOMAIN top = 1 .. n /\ n >= 1
      BY <2>1, <3>1
    <3>3. /\ Tail(top) \in Seq(Text) /\ DOMAIN Tail(top) = 1 .. n - 1
          /\ \A k \in 1 .. n - 1 : Tail(top)[k] = top[k + 1]
      BY <2>1, <3>1, <3>2
    <3>4. \A k \in 1 .. n - 1 : k + 1 \in 1 .. n
      BY <3>2
    <3> QED
      BY <3>1, <3>2, <3>3, <3>4 DEF top
  <2> QED
    BY <2>2, <2>3
<1> QED
  BY <1>1, <1>2, <1>4, CatFinds

-----------------------------------------------------------------------------
(* Paths mean what they usually mean.                                        *)

\* Nothing is answered before the first command, or after the next prompt.
Idle == stage \notin {"answered", "app", "halted"} => last = Nothing

LEMMA NothingMeans ==
  ASSUME NEW c, NEW fs
  PROVE  MeansIn(c, fs, Nothing)
BY DEF MeansIn, Nothing

LEMMA CommandMeans ==
  ASSUME CwdInv, FilesInv, Absolute(cwd), FilesSlashless, Command
  PROVE  /\ mounted' => MeansIn(cwd', files', last')
         /\ stage' \in {"answered", "app", "halted"}
         /\ Absolute(cwd') /\ files' = files
<1> PICK arg \in Args : Cd(arg) \/ Ls(arg) \/ Cat(arg) \/ (\E rest \in Rests : Run(arg, rest))
                        \/ Program(arg, <<>>)
  BY DEF Command
<1>1. CASE Cd(arg)
  <2>1. PICK reply : Answer("cd", arg, <<>>, reply, <<>>)
    BY <1>1 DEF Cd
  <2>2. /\ mounted' = mounted /\ files' = files
        /\ last'.cmd = "cd" /\ last'.from = cwd /\ last'.arg = arg
    BY <2>1 DEF Answer
  <2>3. mounted => MeansIn(cwd', files', last')
    BY <1>1, <2>2, CdAnswers DEF MeansIn
  <2> QED
    BY <1>1, <2>1, <2>2, <2>3, CdPlace, AnswerLeavesSetup
<1>2. CASE Ls(arg)
  <2>1. PICK reply : Answer("ls", arg, <<>>, reply, <<>>) /\ cwd' = cwd
    BY <1>2 DEF Ls
  <2>2. /\ mounted' = mounted /\ files' = files
        /\ last'.cmd = "ls" /\ last'.from = cwd /\ last'.arg = arg
    BY <2>1 DEF Answer
  <2>3. mounted => MeansIn(cwd', files', last')
    BY <1>2, <2>1, <2>2, LsAnswers DEF MeansIn
  <2> QED
    BY <2>1, <2>2, <2>3, AnswerLeavesSetup
<1>3. CASE Cat(arg)
  <2>1. PICK reply : Answer("cat", arg, <<>>, reply, <<>>) /\ cwd' = cwd
    BY <1>3 DEF Cat
  <2>2. /\ mounted' = mounted /\ files' = files
        /\ last'.cmd = "cat" /\ last'.from = cwd /\ last'.arg = arg
    BY <2>1 DEF Answer
  <2>3. mounted => MeansIn(cwd', files', last')
    BY <1>3, <2>1, <2>2, CatAnswers DEF MeansIn
  <2> QED
    BY <2>1, <2>2, <2>3, AnswerLeavesSetup
<1>4. CASE (\E rest \in Rests : Run(arg, rest)) \/ Program(arg, <<>>)
  <2>1. PICK cmd, rest, reply, passed :
          cmd \in {"run", "word"} /\ Answer(cmd, arg, rest, reply, passed) /\ cwd' = cwd
    BY <1>4 DEF Run, Program
  <2>2. files' = files /\ last'.cmd \in {"run", "word"}
    BY <2>1 DEF Answer
  <2>3. MeansIn(cwd', files', last')
    BY <2>2 DEF MeansIn
  <2> QED
    BY <2>1, <2>2, <2>3, AnswerLeavesSetup
<1> QED
  BY <1>1, <1>2, <1>3, <1>4

\* A save names its file by a part of a path, which holds no slash.
LEMMA SaveSlashless ==
  ASSUME FilesSlashless, NEW path \in SavePaths, Save(path)
  PROVE  FilesSlashless'
<1> DEFINE parts == Parts(One(SavedTo(path)))
           dir   == Walk(Front(parts))[2]
           field == up11(Last(parts))
<1>1. path \in Text /\ path # <<>> /\ SavedTo(path) # {}
  BY TextConstants DEF Save
<1>2. parts \in Seq(Text) /\ Slashless(parts)
  BY <1>1, SavedToText, PartsText, PartsSlashless
<1>3. parts # <<>> /\ files' = With(files, <<dir, field>>, saves + 1)
  BY DEF Save
<1>4. NoSlash(field)
  <2> HIDE DEF parts
  <2>1. Last(parts) \in Text /\ NoSlash(Last(parts))
    <3>1. PICK n \in Nat : n = Len(parts) /\ n \in 1 .. n
      BY <1>2, <1>3
    <3>2. parts[n] \in Text /\ NoSlash(parts[n])
      BY <1>2, <3>1 DEF Slashless
    <3> QED
      BY <3>1, <3>2 DEF Last
  <2> QED
    BY <2>1, FieldNoSlash
<1> HIDE DEF dir, field, parts
<1>5. ASSUME NEW f \in DOMAIN files'
      PROVE  NoSlash(f[2])
  <2>1. CASE f = <<dir, field>>
    <3>1. f[2] = field
      BY <2>1
    <3> QED
      BY <1>4, <3>1
  <2>2. CASE f # <<dir, field>>
    <3>1. f \in DOMAIN files
      BY <1>3, <2>2 DEF With
    <3> QED
      BY <3>1 DEF FilesSlashless
  <2> QED
    BY <2>1, <2>2
<1> QED
  BY <1>5 DEF FilesSlashless

PathsInv == ShellInv /\ Absolute(cwd) /\ FilesSlashless /\ Idle /\ PathsMean

LEMMA InitPaths == Init => PathsInv
<1> SUFFICES ASSUME Init PROVE PathsInv
  OBVIOUS
<1>1. cwd = <<Slash>> /\ last = Nothing /\ files = [f \in DiskFiles |-> 0]
  BY DEF Init
<1>2. FilesSlashless
  BY <1>1, ShellConstants DEF FilesSlashless, NoSlash
<1>3. PathsMean
  BY <1>1, NothingMeans, MeansOutcome
<1> QED
  BY <1>1, <1>2, <1>3, InitShell, SlashPlace DEF PathsInv, Idle

LEMMA NextPaths ==
  ASSUME PathsInv, [Next]_vars
  PROVE  PathsInv'
<1>1. ShellInv'
  BY NextShell DEF PathsInv
<1>2. CASE last' = Nothing /\ cwd' = cwd /\ FilesSlashless'
  BY <1>1, <1>2, NothingMeans, MeansOutcome DEF PathsInv, Idle
<1>3. CASE Boot
  <2>1. UNCHANGED <<cwd, files, last>> /\ SetupStep
    BY <1>3 DEF Boot, shell
  <2>2. stage \in {"slave", "master", "mbr", "mount"}
    BY <2>1 DEF SetupStep, ProbeSlave, ProbeMaster, ReadTable, Mount
  <2>3. last' = Nothing
    BY <2>1, <2>2 DEF PathsInv, Idle
  <2> QED
    BY <1>2, <2>1, <2>3 DEF PathsInv, FilesSlashless
<1>4. CASE Prompt \/ Exit
  BY <1>2, <1>4 DEF Prompt, Exit, PathsInv, FilesSlashless
<1>5. CASE \E path \in SavePaths : Save(path)
  <2>1. PICK path \in SavePaths : Save(path)
    BY <1>5
  <2>2. FilesSlashless'
    BY <2>1, SaveSlashless DEF PathsInv
  <2>3. last' = Nothing /\ cwd' = cwd
    BY <2>1 DEF Save
  <2> QED
    BY <1>2, <2>2, <2>3
<1>6. CASE Command
  <2>1. /\ mounted' => MeansIn(cwd', files', last')
        /\ stage' \in {"answered", "app", "halted"}
        /\ Absolute(cwd') /\ files' = files
    BY <1>6, CommandMeans DEF PathsInv, ShellInv
  <2>2. PathsMean'
    BY <2>1, MeansOutcome
  <2>3. FilesSlashless' /\ Idle'
    BY <2>1 DEF PathsInv, FilesSlashless, Idle
  <2> QED
    BY <1>1, <2>1, <2>2, <2>3 DEF PathsInv
<1>7. CASE UNCHANGED vars
  <2>1. UNCHANGED <<stage, mounted, cwd, files, last>>
    BY <1>7 DEF vars, setup, shell
  <2>2. PathsMean'
    BY <2>1, MeansOutcome DEF PathsInv
  <2> QED
    BY <1>1, <2>1, <2>2 DEF PathsInv, FilesSlashless, Idle
<1> QED
  BY <1>3, <1>4, <1>5, <1>6, <1>7 DEF Next

\* Whatever is typed in whatever directory, cd, ls and cat act on what the path
\* means: the loop of path_resolve that reduces text in place computes the stack
\* of components, and the walk over 8.3 fields finds what they name.  For ls that
\* is so unless seg11 cuts a component, of sixteen characters or more with several
\* dots, short of its field: cd does not cut it and may enter what ls does not
\* find (paths.c:5-29, commands.c:231-303, fat32_path.c:31-33 and 161-170).
THEOREM PathsAreMeant == Spec => []PathsMean
<1>1. Spec => []PathsInv
  BY InitPaths, NextPaths, PTL DEF Spec
<1>2. PathsInv => PathsMean
  BY DEF PathsInv
<1> QED
  BY <1>1, <1>2, PTL

-----------------------------------------------------------------------------
(* A path together with what follows it on the line.                         *)

\* What path_resolve puts before the text that is typed.
Ahead(dir, in) ==
  IF in # <<>> /\ in[1] = Slash THEN <<Slash>>
  ELSE IF dir[Len(dir)] = Slash THEN dir ELSE Append(dir, Slash)

LEMMA JoinedWhole ==
  ASSUME NEW dir \in Text, dir # <<>>, NEW in \in Text, Fits(dir, in)
  PROVE  Ahead(dir, in) \in Text /\ Joined(dir, in) = Ahead(dir, in) \o in
         /\ Len(Ahead(dir, in)) >= 1 /\ Len(Ahead(dir, in)) <= Len(dir) + 1
<1>1. PICK A \in Nat, B \in Nat, C \in Nat, Q \in Nat :
        A = Len(dir) /\ B = Len(in) /\ C = Cap /\ Q = Len(DiskPrefix) /\ A + B + Q + 2 < C /\ A >= 1
  BY TextParts, PrefixText, PathConstants DEF Fits
<1>2. CASE in # <<>> /\ in[1] = Slash
  <2>1. PICK h \in Text : h = Ahead(dir, in) /\ h = <<Slash>> /\ Len(h) = 1
    BY <1>2, SlashText DEF Ahead
  <2>2. PICK J \in Text : J = h \o in /\ Len(J) = 1 + B
    BY <1>1, <2>1, TextConcat
  <2>3. Joined(dir, in) = Cut(J, Cap)
    BY <1>2, <2>1, <2>2 DEF Joined
  <2>4. Len(J) < Cap
    BY <1>1, <2>2
  <2> QED
    <3>1. Cut(J, Cap) = J
      BY <1>1, <2>4, CutAll
    <3>2. Len(h) >= 1 /\ Len(h) <= Len(dir) + 1
      BY <1>1, <2>1
    <3> QED
      BY <2>1, <2>2, <2>3, <3>1, <3>2
<1>3. CASE ~(in # <<>> /\ in[1] = Slash)
  <2>1. PICK h \in Text : h = Ahead(dir, in) /\ Len(h) >= 1 /\ Len(h) <= A + 1
                          /\ h = IF dir[Len(dir)] = Slash THEN dir ELSE Append(dir, Slash)
    <3>1. Ahead(dir, in) = IF dir[Len(dir)] = Slash THEN dir ELSE Append(dir, Slash)
      BY <1>3, Zenon DEF Ahead
    <3>2. Append(dir, Slash) \in Text /\ Len(Append(dir, Slash)) = A + 1
      BY <1>1, Characters, TextAppend
    <3> QED
      <4>1. dir[Len(dir)] = Slash => Ahead(dir, in) = dir
        BY <3>1
      <4>2. dir[Len(dir)] # Slash => Ahead(dir, in) = Append(dir, Slash)
        BY <3>1
      <4>3. PICK h \in Text : h = Ahead(dir, in) /\ Len(h) >= 1 /\ Len(h) <= A + 1
        <5>1. Ahead(dir, in) \in Text
          BY <3>2, <4>1, <4>2
        <5>2. Len(Ahead(dir, in)) = A \/ Len(Ahead(dir, in)) = A + 1
          BY <1>1, <3>2, <4>1, <4>2, Zenon
        <5>3. A >= 1 /\ A <= A + 1 /\ A + 1 >= 1 /\ A + 1 <= A + 1
          BY <1>1
        <5> QED
          BY <5>1, <5>2, <5>3
      <4> QED
        BY <3>1, <4>3
  <2>2. PICK J \in Text : J = h \o in /\ Len(J) = Len(h) + B
    BY <1>1, <2>1, TextConcat
  <2>3. Len(J) < Cap /\ Len(dir) < Cap /\ Cap \in Nat
    <3>1. PICK n \in Nat : n = Len(h)
      BY <2>1, TextParts
    <3> QED
      BY <1>1, <2>1, <2>2, <3>1
  <2>4. Cut(dir, Cap) = dir /\ Cut(J, Cap) = J
    BY <2>3, CutAll
  <2>5. Joined(dir, in) =
          LET base == IF dir = <<>> THEN <<Slash>> ELSE Cut(dir, Cap)
              at   == IF base[Len(base)] = Slash THEN base ELSE Append(base, Slash)
          IN  Cut(at \o in, Cap)
    BY <1>3, Zenon DEF Joined
  <2> QED
    BY <1>1, <2>1, <2>2, <2>4, <2>5
<1> QED
  BY <1>2, <1>3

\* More text behind the text that is typed.
LEMMA JoinedMore ==
  ASSUME NEW dir \in Text, dir # <<>>, NEW a \in Text, a # <<>>, NEW b \in Text, Fits(dir, a \o b)
  PROVE  Joined(dir, a \o b) = Joined(dir, a) \o b /\ Fits(dir, a)
<1>1. PICK A \in Nat, B \in Nat, M \in Nat, D \in Nat, Q \in Nat :
        A = Len(a) /\ B = Len(b) /\ M = Len(dir) /\ D = Cap /\ Q = Len(DiskPrefix) /\ A >= 1
  BY TextParts, PrefixText, PathConstants
<1>2. a \o b \in Text /\ Len(a \o b) = A + B /\ \A k \in 1 .. A : (a \o b)[k] = a[k]
  BY <1>1, TextConcat
<1>3. Fits(dir, a)
  BY <1>1, <1>2 DEF Fits
<1>4. a \o b # <<>> /\ (a \o b)[1] = a[1]
  <2>1. 1 \in 1 .. A /\ A + B # 0 /\ Len(<<>>) = 0
    BY <1>1
  <2> QED
    BY <1>2, <2>1
<1>5. PICK h \in Text : h = Ahead(dir, a) /\ h = Ahead(dir, a \o b)
  BY <1>3, <1>4, JoinedWhole DEF Ahead
<1>6. Joined(dir, a) = h \o a /\ Joined(dir, a \o b) = h \o (a \o b)
  BY <1>2, <1>3, <1>5, JoinedWhole
<1>7. h \o (a \o b) = (h \o a) \o b
  BY ConcatAssociative DEF Text
<1> QED
  BY <1>3, <1>6, <1>7

LEMMA TextSplit ==
  ASSUME NEW s \in Text, NEW k \in 0 .. Len(s)
  PROVE  /\ SubSeq(s, 1, k) \in Text /\ Len(SubSeq(s, 1, k)) = k
         /\ SubSeq(s, k + 1, Len(s)) \in Text /\ Len(SubSeq(s, k + 1, Len(s))) = Len(s) - k
         /\ s = SubSeq(s, 1, k) \o SubSeq(s, k + 1, Len(s))
<1>1. PICK N \in Nat : N = Len(s) /\ k \in 0 .. N
  BY TextParts
<1>2. /\ k + 1 \in 1 .. N + 1 /\ N \in 0 .. N /\ (k + 1) - 1 <= N /\ N - (k + 1) + 1 = N - k
  BY <1>1
<1>3. SubSeq(s, k + 1, N) \in Text /\ Len(SubSeq(s, k + 1, N)) = N - k
  BY <1>1, <1>2, TextParts
<1>4. SubSeq(s, 1, k) \o SubSeq(s, k + 1, N) = SubSeq(s, 1, N)
  <2>1. 1 \in 1 .. N + 1 /\ k \in 1 - 1 .. N /\ N \in k .. N /\ s \in Seq(Char)
    BY <1>1 DEF Text
  <2> QED
    BY <1>1, <2>1, ConcatAdjacentSubSeq
<1> QED
  BY <1>1, <1>3, <1>4, TextPrefixes

\* A part that is closed stands in the path.
LEMMA PartStands ==
  ASSUME NEW s \in Text, Clean(s), NEW k \in 1 .. Len(s), Ends(s, k + 1),
         Sight(SubSeq(s, 1, k)).part # <<>>
  PROVE  \E j \in DOMAIN Parts(s) : Parts(s)[j] = Sight(SubSeq(s, 1, k)).part
<1>1. PICK N \in Nat : N = Len(s)
  BY TextParts
<1>2. k \in 0 .. Len(s)
  BY <1>1
<1>3. PICK y \in PartState, a \in Seq(Text), c \in Text :
        y = Sight(SubSeq(s, 1, k)) /\ a = y.all /\ c = y.part /\ c # <<>>
  BY <1>2, TextPrefixes, SightParts DEF PartState
<1>4. PartStep(y, Slash).all = Append(a, c) /\ PartStep(y, Slash).part = <<>>
  BY <1>3, StepClears
<1>5. PICK n \in Nat : n = Len(a) + 1 /\ n \in 1 .. n
  BY <1>3
<1>6. Append(a, c) \in Seq(Text) /\ Len(Append(a, c)) = n /\ Append(a, c)[n] = c
      /\ DOMAIN Append(a, c) = 1 .. n
  BY <1>3, <1>5
<1>7. CASE k = N
  <2>1. SubSeq(s, 1, k) = s
    BY <1>1, <1>7, TextPrefixes
  <2>2. Parts(s) = Append(a, c)
    BY <1>3, <1>4, <2>1, SightParts
  <2> QED
    BY <1>3, <1>5, <1>6, <2>2
<1>8. CASE k # N
  <2>1. k + 1 \in 1 .. N /\ k \in 0 .. N - 1 /\ k + 1 \in 0 .. N
    BY <1>1, <1>8
  <2>2. s[k + 1] = Slash
    BY <1>1, <2>1 DEF Ends, At, Clean
  <2>3. Sight(SubSeq(s, 1, k + 1)) = PartStep(y, Slash)
    BY <1>1, <1>3, <2>1, <2>2, SightNext
  <2>4. PICK u \in Text, v \in Text : u = SubSeq(s, 1, k + 1) /\ s = u \o v
    <3>1. PICK m \in 0 .. Len(s) : m = k + 1
      BY <1>1, <2>1
    <3>2. /\ SubSeq(s, 1, m) \in Text /\ SubSeq(s, m + 1, Len(s)) \in Text
          /\ s = SubSeq(s, 1, m) \o SubSeq(s, m + 1, Len(s))
      BY TextSplit
    <3> QED
      BY <3>1, <3>2
  <2>5. Parts(s) = Append(a, c) \o Parts(v)
    <3>1. Sight(u).part = <<>> /\ Sight(u).all = Append(a, c)
      BY <1>4, <2>3, <2>4
    <3>2. Parts(u \o v) = Sight(u).all \o Parts(v)
      BY <3>1, SightConcat
    <3> QED
      BY <2>4, <3>1, <3>2
  <2>6. Parts(v) \in Seq(Text)
    BY PartsText
  <2>7. Parts(s)[n] = c /\ n \in DOMAIN Parts(s)
    <3>1. PICK w \in Seq(Text), x \in Seq(Text) : w = Append(a, c) /\ x = Parts(v) /\ Len(w) = n /\ w[n] = c
      BY <1>6, <2>6
    <3>2. PICK m \in Nat : m = Len(x) /\ m + n \in Nat /\ n \in 1 .. n + m
      BY <1>5, <3>1
    <3>3. w \o x \in Seq(Text) /\ Len(w \o x) = n + m /\ (w \o x)[n] = w[n]
      BY <1>5, <3>1, <3>2, ConcatProperties
    <3>4. DOMAIN (w \o x) = 1 .. n + m
      BY <3>3
    <3> QED
      BY <2>5, <3>1, <3>2, <3>3, <3>4
  <2> QED
    BY <1>3, <2>7
<1> QED
  BY <1>7, <1>8

LEMMA DotPart ==
  ASSUME NEW s \in Text, Clean(s), NEW k \in 1 .. Len(s), s[k] = ".", Ends(s, k - 1)
  PROVE  Sight(SubSeq(s, 1, k)).part = Dot
<1>1. PICK N \in Nat, n \in Nat : /\ N = Len(s) /\ n = k - 1 /\ k = n + 1
                                   /\ n \in 0 .. Len(s) - 1 /\ n \in 0 .. Len(s)
  BY TextParts
<1>2. PICK u \in Text : u = SubSeq(s, 1, n) /\ Len(u) = n /\ \A i \in 1 .. n : u[i] = s[i]
  BY <1>1, TextPrefixes
<1>3. Sight(u).part = <<>> /\ Sight(u) \in PartState
  <2>1. CASE n = 0
    <3>1. u = <<>>
      BY <1>1, <1>2, <2>1, TextPrefixes
    <3> QED
      BY <1>2, <3>1, SightLast, SightParts
  <2>2. CASE n # 0
    <3>1. n \in 1 .. N /\ n \in 1 .. n
      BY <1>1, <2>2
    <3>2. s[n] = Slash
      BY <1>1, <3>1 DEF Ends, At, Clean
    <3>3. u[Len(u)] = Slash
      BY <1>2, <3>1, <3>2
    <3> QED
      BY <3>3, SightLast, SightParts
  <2> QED
    BY <2>1, <2>2
<1>4. Sight(SubSeq(s, 1, k)) = PartStep(Sight(u), ".")
  BY <1>1, <1>2, SightNext
<1>5. "." \in Char /\ "." # Slash
  BY Characters DEF Slash
<1>6. PartStep(Sight(u), ".").part = Append(Sight(u).part, ".")
  BY <1>3, <1>5, StepGrows
<1>7. Append(<<>>, ".") = Dot
  BY DEF Dot
<1> QED
  BY <1>3, <1>4, <1>6, <1>7

\* Without the components that are dots no component ends in one.
LEMMA PlainTidy ==
  ASSUME NEW s \in Text, Clean(s), Plain(s), NoDots(s)
  PROVE  Tidy(s)
<1> SUFFICES ASSUME NEW k \in 1 .. Len(s), s[k] = ".", Ends(s, k + 1) PROVE FALSE
  BY DEF Tidy
<1>1. PICK N \in Nat : N = Len(s) /\ k \in 1 .. N
  BY TextParts
<1>2. Ends(s, k - 1) \/ (At(s, k - 1) = "." /\ Ends(s, k - 2))
  BY DEF Plain
<1>3. "." \in Char /\ "." # Slash /\ "." # Nul
  BY Characters DEF Slash, Nul
<1>4. Sight(SubSeq(s, 1, k)).part \in {Dot, DotDot}
  <2>1. CASE Ends(s, k - 1)
    BY <2>1, DotPart
  <2>2. CASE At(s, k - 1) = "." /\ Ends(s, k - 2)
    <3>1. PICK n \in 1 .. N - 1 : n = k - 1 /\ s[n] = "." /\ n - 1 = k - 2 /\ k = n + 1
      <4>1. k - 1 \in 1 .. N /\ s[k - 1] = "."
        BY <1>1, <1>3, <2>2 DEF At
      <4> QED
        BY <1>1, <4>1
    <3>2. n \in 1 .. Len(s) /\ n \in 0 .. Len(s) - 1 /\ n \in 0 .. Len(s)
      BY <1>1, <3>1
    <3>3. Sight(SubSeq(s, 1, n)).part = Dot
      BY <2>2, <3>1, <3>2, DotPart
    <3>4. Sight(SubSeq(s, 1, n)) \in PartState
      BY <3>2, TextPrefixes, SightParts
    <3>5. Sight(SubSeq(s, 1, k)) = PartStep(Sight(SubSeq(s, 1, n)), ".")
      BY <3>1, <3>2, SightNext
    <3>6. Sight(SubSeq(s, 1, k)).part = Append(Dot, ".")
      BY <1>3, <3>3, <3>4, <3>5, StepGrows
    <3> QED
      BY <3>6, TwoDots
  <2> QED
    BY <1>2, <2>1, <2>2
<1>5. Sight(SubSeq(s, 1, k)).part # <<>>
  BY <1>4 DEF Dot, DotDot
<1>6. PICK j \in DOMAIN Parts(s) : Parts(s)[j] = Sight(SubSeq(s, 1, k)).part
  BY <1>5, PartStands
<1> QED
  BY <1>4, <1>6 DEF NoDots, Dot, DotDot

-----------------------------------------------------------------------------

\* A part of the line that holds neither dots before a slash nor two slashes.
Verbatim(in, p) ==
  \A k \in p .. Len(in) : /\ in[k] = "." => ~Ends(in, k + 1)
                          /\ in[k] = Slash => At(in, k + 1) # Slash

\* What path_resolve makes of the first p - 1 characters.
ReducedTo(in, p, o) ==
  /\ o \in Text /\ o # <<>> /\ o[1] = Slash /\ Single(o) /\ Spaceless(o)
  /\ Parts(o) = Follow(<<>>, Parts(SubSeq(in, 1, p - 1)))

Reading(in, p, st) ==
  /\ st \in State
  /\ \/ Sim(in, st) /\ st.r <= p /\ Spaceless(st.out)
     \/ /\ st.r > p /\ st.r <= Len(in) + 1
        /\ \E o : ReducedTo(in, p, o) /\ st.out = o \o SubSeq(in, p, st.r - 1)

LEMMA SpacelessGrows ==
  ASSUME NEW s \in Text, Spaceless(s), NEW c \in Char, c # Space
  PROVE  Spaceless(Append(s, c))
<1>1. PICK n \in Nat : n = Len(s)
  BY TextParts
<1>2. /\ Len(Append(s, c)) = n + 1 /\ Append(s, c)[n + 1] = c
      /\ \A k \in 1 .. n : Append(s, c)[k] = s[k]
      /\ Append(s, c) \in Text
  BY <1>1, TextAppend
<1>3. \A k \in 1 .. n + 1 : k \in 1 .. n \/ k = n + 1
  BY <1>1
<1> QED
  BY <1>1, <1>2, <1>3, TextDomain DEF Spaceless

LEMMA SpacelessPop ==
  ASSUME NEW s \in Text, s # <<>>, s[1] = Slash, Spaceless(s)
  PROVE  Spaceless(Pop(s))
<1>1. PICK top \in 1 .. Len(s) : Pop(s) = SubSeq(s, 1, top)
  BY PopPrefix
<1>2. PICK n \in Nat : n = Len(s) /\ top \in 0 .. n /\ \A k \in 1 .. top : k \in 1 .. n
  BY TextParts
<1>3. Pop(s) \in Text /\ Len(Pop(s)) = top /\ \A k \in 1 .. top : Pop(s)[k] = s[k]
  BY <1>1, <1>2, TextPrefixes
<1> QED
  BY <1>2, <1>3, TextDomain DEF Spaceless

LEMMA SubSeqGrows ==
  ASSUME NEW s \in Text, NEW p \in 1 .. Len(s), NEW n \in p .. Len(s)
  PROVE  /\ SubSeq(s, p, n - 1) \in Text /\ SubSeq(s, p, n) \in Text
         /\ SubSeq(s, p, n) = Append(SubSeq(s, p, n - 1), s[n])
         /\ n = p => SubSeq(s, p, n - 1) = <<>>
<1>1. PICK N \in Nat : N = Len(s) /\ p \in 1 .. N /\ n \in 1 .. N /\ p <= n
  BY TextParts
<1>2. /\ p \in 1 .. N + 1 /\ n \in 0 .. N /\ n - 1 \in 0 .. N /\ p - 1 <= n /\ p - 1 <= n - 1
  BY <1>1
<1>3. SubSeq(s, p, n) \in Text /\ Len(SubSeq(s, p, n)) = n - p + 1
  BY <1>1, <1>2, TextParts
<1>4. SubSeq(s, p, n - 1) \in Text /\ Len(SubSeq(s, p, n - 1)) = (n - 1) - p + 1
  BY <1>1, <1>2, TextParts
<1>5. s[n] \in Char
  BY <1>1, TextParts
<1>6. PICK m \in Nat : m = n - p /\ Len(SubSeq(s, p, n)) = m + 1 /\ Len(SubSeq(s, p, n - 1)) = m
                       /\ p + m = n
  BY <1>1, <1>3, <1>4
<1>7. \A k \in 1 .. m + 1 : SubSeq(s, p, n)[k] = s[p + k - 1]
  BY <1>1, <1>6, SubSeqProperties DEF Text
<1>8. \A k \in 1 .. m : SubSeq(s, p, n - 1)[k] = s[p + k - 1]
  BY <1>1, <1>2, <1>6, SubSeqProperties DEF Text
<1>9. PICK a \in Text : /\ a = Append(SubSeq(s, p, n - 1), s[n]) /\ Len(a) = m + 1 /\ a[m + 1] = s[n]
                        /\ \A k \in 1 .. m : a[k] = s[p + k - 1]
  <2>1. PICK b \in Text, c \in Char : b = SubSeq(s, p, n - 1) /\ c = s[n] /\ Len(b) = m
    BY <1>4, <1>5, <1>6
  <2>2. /\ Append(b, c) \in Text /\ Len(Append(b, c)) = m + 1 /\ Append(b, c)[m + 1] = c
        /\ \A k \in 1 .. m : Append(b, c)[k] = b[k]
    BY <2>1, TextAppend
  <2>3. \A k \in 1 .. m : b[k] = s[p + k - 1]
    BY <1>8, <2>1
  <2>4. \A k \in 1 .. m : Append(b, c)[k] = s[p + k - 1]
    BY <2>2, <2>3
  <2> QED
    BY <2>1, <2>2, <2>4
<1>10. \A k \in 1 .. m + 1 : a[k] = SubSeq(s, p, n)[k]
  <2>1. \A k \in 1 .. m + 1 : k \in 1 .. m \/ (k = m + 1 /\ p + k - 1 = n)
    BY <1>1, <1>6
  <2> QED
    BY <1>7, <1>9, <2>1
<1>11. a = SubSeq(s, p, n)
  BY <1>3, <1>6, <1>9, <1>10, TextSame
<1>12. n = p => SubSeq(s, p, n - 1) = <<>>
  <2>1. n = p => Len(SubSeq(s, p, n - 1)) = 0
    BY <1>1, <1>4
  <2> QED
    BY <1>4, <2>1, EmptySeq DEF Text
<1> QED
  BY <1>3, <1>4, <1>9, <1>11, <1>12

\* What is read before the space is reduced; the rest is copied.
LEMMA ReadingRound ==
  ASSUME NEW in \in Text, Clean(in), Good(in), in[1] = Slash,
         NEW p \in 2 .. Len(in), in[p] = Space, in[p - 1] # ".",
         \A k \in 1 .. p - 1 : in[k] # Space, Verbatim(in, p),
         NEW st \in State, Reading(in, p, st), st.r <= Len(in)
  PROVE  Reading(in, p, Round(in, st)) /\ Round(in, st).r > st.r
<1>1. PICK N \in Nat, r \in Nat : N = Len(in) /\ r = st.r /\ r >= 1 /\ r <= N /\ p \in 2 .. N
  BY TextParts DEF State
<1>2. Slash # "." /\ Slash # Space /\ Space # "." /\ Space # Nul /\ Nul # "." /\ Slash # Nul
  BY DEF Slash, Space, Nul
<1>3. PICK q \in r .. N :
        /\ \/ q = r /\ in[q] # Slash
           \/ (\A j \in r .. q : in[j] = Slash) /\ At(in, q + 1) # Slash
        /\ \/ Skips(in, q) /\ Round(in, st) = [r |-> Past(in, q + 1), out |-> st.out]
           \/ ~Skips(in, q) /\ Climbs(in, q)
              /\ Round(in, st) = [r |-> Past(in, q + 2), out |-> Pop(st.out)]
           \/ ~Skips(in, q) /\ ~Climbs(in, q)
              /\ Round(in, st) = [r |-> q + 1, out |-> Append(st.out, in[q])]
  BY <1>1, RoundCases
<1>4. q \in Nat /\ q \in 1 .. N /\ (in[q] # Slash => q = r) /\ st.out \in Text
  BY <1>1, <1>3 DEF State
<1>5. Round(in, st) \in State
  BY RoundTypes
<1>6. ASSUME NEW i \in 1 .. N, At(in, i) = Slash \/ At(in, i) = "." \/ Ends(in, i)
      PROVE  At(in, i) = in[i] /\ i # p /\ (Ends(in, i) => in[i] = Slash)
  BY <1>1, <1>2, <1>6 DEF Ends, At, Clean
<1>7. CASE Sim(in, st) /\ r <= p /\ Spaceless(st.out)
  <2>1. CASE Skips(in, q)
    <3>1. q = r /\ in[q] = "." /\ Ends(in, q + 1)
      BY <1>2, <1>4, <2>1 DEF Skips
    <3>2. q # p /\ q + 1 \in 1 .. N
      BY <1>1, <1>2, <1>7, <3>1
    <3>3. q + 1 # p /\ in[q + 1] = Slash /\ At(in, q + 1) = Slash
      BY <1>6, <3>1, <3>2
    <3>4. Round(in, st) = [r |-> Past(in, q + 1), out |-> st.out]
      BY <1>3, <2>1
    <3>5. Past(in, q + 1) = q + 2 /\ q + 2 <= p /\ q + 2 # N + 1
      BY <1>1, <1>7, <3>1, <3>2, <3>3 DEF Past
    <3>6. Round(in, st).r > q /\ (Sim(in, Round(in, st)) \/ Done(in, Round(in, st)))
      <4>1. q = st.r /\ q <= Len(in)
        BY <1>1, <1>4, <3>1
      <4> QED
        BY <1>4, <1>7, <2>1, <3>4, <4>1, SimSkip, Zenon
    <3>7. Sim(in, Round(in, st))
      BY <1>1, <3>4, <3>5, <3>6 DEF Done
    <3> QED
      BY <1>1, <1>5, <1>7, <3>1, <3>4, <3>5, <3>6, <3>7 DEF Reading
  <2>2. CASE ~Skips(in, q) /\ Climbs(in, q)
    <3>1. q = r /\ in[q] = "." /\ At(in, q + 1) = "." /\ Ends(in, q + 2)
      BY <1>2, <1>4, <2>2 DEF Climbs
    <3>2. q # p /\ q + 1 \in 1 .. N
      BY <1>1, <1>2, <1>7, <3>1
    <3>3. q + 1 # p /\ q + 2 \in 1 .. N
      <4>1. q + 1 # p
        BY <1>6, <3>1, <3>2
      <4> QED
        BY <1>1, <1>7, <3>1, <3>2, <4>1
    <3>4. q + 2 # p /\ At(in, q + 2) = Slash
      BY <1>6, <3>1, <3>3
    <3>5. Past(in, q + 2) = q + 3 /\ q + 3 <= p /\ q + 3 # N + 1
      BY <1>1, <1>7, <3>1, <3>2, <3>3, <3>4 DEF Past
    <3>6. Round(in, st) = [r |-> Past(in, q + 2), out |-> Pop(st.out)]
      BY <1>3, <2>2
    <3>7. q = st.r /\ q <= Len(in)
      BY <1>1, <1>4, <3>1
    <3>8. Round(in, st).r > q /\ (Sim(in, Round(in, st)) \/ Done(in, Round(in, st)))
      BY <1>4, <1>7, <2>2, <3>6, <3>7, SimClimb, Zenon
    <3>9. Sim(in, Round(in, st))
      BY <1>1, <3>5, <3>6, <3>8 DEF Done
    <3>10. st.out # <<>> /\ st.out[1] = Slash
      BY <1>4, <1>7, <2>2, <3>7, SimBoundary
    <3>11. Spaceless(Round(in, st).out)
      BY <1>4, <1>7, <3>6, <3>10, SpacelessPop
    <3> QED
      BY <1>1, <1>5, <3>1, <3>5, <3>6, <3>8, <3>9, <3>11 DEF Reading
  <2>3. CASE ~Skips(in, q) /\ ~Climbs(in, q)
    <3>1. Round(in, st) = [r |-> q + 1, out |-> Append(st.out, in[q])]
      BY <1>3, <2>3
    <3>2. q + 1 > r
      BY <1>1, <1>3, <1>4
    <3>3. CASE q < p
      <4>1. Sim(in, [r |-> q + 1, out |-> Append(st.out, in[q])])
        <5>1. q \in st.r .. Len(in)
          BY <1>1, <1>3
        <5> QED
          BY <1>1, <1>3, <1>7, <2>3, <5>1, SimCopy, Zenon
      <4>2. in[q] \in Char /\ in[q] # Space
        <5>1. q \in 1 .. p - 1
          BY <1>1, <1>4, <3>3
        <5> QED
          BY <1>1, <1>4, <5>1, TextParts
      <4>3. Spaceless(Append(st.out, in[q]))
        BY <1>4, <1>7, <4>2, SpacelessGrows
      <4>4. q + 1 <= p
        BY <1>1, <1>4, <3>3
      <4> QED
        BY <1>1, <1>5, <3>1, <3>2, <4>1, <4>3, <4>4 DEF Reading
    <3>4. CASE q >= p
      <4>1. q = r /\ r = p
        <5>1. p \in r .. q
          BY <1>1, <1>4, <1>7, <3>4
        <5>2. q = r
          BY <1>2, <1>3, <5>1
        <5> QED
          BY <1>1, <1>7, <3>4, <5>2
      <4>2. ReducedTo(in, p, st.out)
        <5>1. st.out # <<>> /\ st.out[1] = Slash /\ Single(st.out) /\ p > 1
          BY <1>1, <1>7, <4>1 DEF Sim
        <5>2. PICK pre \in Text : pre = SubSeq(in, 1, p - 1) /\ pre # <<>> /\ pre[Len(pre)] = in[p - 1]
          <6>1. PICK n \in 0 .. Len(in) : n = p - 1 /\ n \in 1 .. n /\ Len(<<>>) = 0 /\ n # 0
            BY <1>1
          <6>2. PICK pre \in Text : /\ pre = SubSeq(in, 1, n) /\ Len(pre) = n
                                    /\ \A i \in 1 .. n : pre[i] = in[i]
            BY TextPrefixes
          <6>3. pre[n] = in[n] /\ pre # <<>>
            BY <6>1, <6>2
          <6> QED
            BY <6>1, <6>2, <6>3
        <5>3. PICK x \in PartState, y \in PartState :
                x = Sight(st.out) /\ y = Sight(pre) /\ Follows(x, y)
          <6>1. Follows(Sight(st.out), Sight(SubSeq(in, 1, p - 1)))
            BY <1>1, <1>7, <4>1 DEF Sim
          <6> QED
            BY <1>4, <5>2, <6>1, SightParts
        <5>4. y.part = <<>> \/ y.part[Len(y.part)] # "."
          BY <5>2, <5>3, SightLast
        <5>5. Follows(PartStep(x, Slash), PartStep(y, Slash))
          BY <5>3, <5>4, FollowsClose
        <5>6. Parts(st.out) = Follow(<<>>, Parts(pre))
          BY <1>4, <5>2, <5>3, <5>5, SightParts DEF Follows
        <5> QED
          BY <1>4, <1>7, <5>1, <5>2, <5>6 DEF ReducedTo
      <4>3. Append(st.out, in[q]) = st.out \o SubSeq(in, p, (q + 1) - 1)
        <5>1. p \in 1 .. Len(in) /\ q = p /\ p \in p .. Len(in) /\ (q + 1) - 1 = p
          BY <1>1, <4>1
        <5>2. SubSeq(in, p, p) = Append(<<>>, in[p]) /\ in[p] \in Char
          <6>1. in[p] \in Char
            BY <1>1, <5>1, TextParts
          <6>2. SubSeq(in, p, p) = Append(<<>>, in[p])
            BY <1>1, <5>1, SubSeqGrows, ZenonT(40)
          <6> QED
            BY <6>1, <6>2
        <5>3. <<>> \in Text
          BY SlashText
        <5>4. st.out \o Append(<<>>, in[p]) = Append(st.out \o <<>>, in[p])
          BY <1>4, <5>2, <5>3, AppendConcat DEF Text
        <5>5. st.out \o <<>> = st.out
          BY <1>4, ConcatEmptySeq DEF Text
        <5> QED
          BY <5>1, <5>2, <5>4, <5>5
      <4>4. q + 1 > p /\ q + 1 <= Len(in) + 1
        BY <1>1, <4>1
      <4>5. /\ Round(in, st).r = q + 1
            /\ Round(in, st).out = st.out \o SubSeq(in, p, Round(in, st).r - 1)
        <5>1. Round(in, st).r = q + 1 /\ Round(in, st).out = Append(st.out, in[q])
          BY <3>1
        <5> QED
          BY <4>3, <5>1, Zenon
      <4>6. /\ Round(in, st).r > p /\ Round(in, st).r <= Len(in) + 1
            /\ Round(in, st).r > st.r
        BY <1>1, <3>2, <4>4, <4>5
      <4> QED
        BY <1>5, <4>2, <4>5, <4>6, Zenon DEF Reading
    <3> QED
      BY <1>1, <1>4, <3>3, <3>4
  <2> QED
    BY <1>3, <2>1, <2>2, <2>3
<1>8. CASE r > p /\ \E o : ReducedTo(in, p, o) /\ st.out = o \o SubSeq(in, p, r - 1)
  <2>1. PICK o : ReducedTo(in, p, o) /\ st.out = o \o SubSeq(in, p, r - 1)
    BY <1>8
  <2>2. q \in p .. Len(in) /\ r \in p .. Len(in) /\ p \in 1 .. Len(in)
    BY <1>1, <1>3, <1>8
  <2>3. ~Skips(in, q)
    BY <2>2 DEF Skips, Verbatim
  <2>4. ~Climbs(in, q)
    <3> SUFFICES ASSUME Climbs(in, q) PROVE FALSE
      OBVIOUS
    <3>1. At(in, q + 1) = "." /\ Ends(in, q + 2)
      BY DEF Climbs
    <3>2. q + 1 \in p .. Len(in) /\ in[q + 1] = "." /\ (q + 1) + 1 = q + 2
      BY <1>1, <1>2, <2>2, <3>1 DEF At
    <3> QED
      BY <3>1, <3>2 DEF Verbatim
  <2>5. q = r
    <3> SUFFICES ASSUME q # r PROVE FALSE
      OBVIOUS
    <3>1. r + 1 \in 1 .. N /\ r + 1 \in r .. q /\ r \in r .. q
      BY <1>1, <1>3
    <3>2. in[r] = Slash /\ in[r + 1] = Slash
      BY <1>3, <3>1
    <3>3. At(in, r + 1) = Slash
      BY <1>1, <3>1, <3>2 DEF At
    <3> QED
      BY <2>2, <3>2, <3>3 DEF Verbatim
  <2>6. Round(in, st) = [r |-> r + 1, out |-> Append(st.out, in[r])]
    BY <1>3, <2>3, <2>4, <2>5
  <2>7. Append(st.out, in[r]) = o \o SubSeq(in, p, (r + 1) - 1)
    <3>1. PICK t \in Text : t = SubSeq(in, p, r - 1) /\ SubSeq(in, p, r) = Append(t, in[r])
      BY <2>2, SubSeqGrows
    <3>2. in[r] \in Char /\ (r + 1) - 1 = r
      <4>1. r \in 1 .. Len(in)
        BY <1>1
      <4> QED
        BY <1>1, <4>1, TextParts
    <3>4. o \in Text
      BY <2>1 DEF ReducedTo
    <3>3. o \o Append(t, in[r]) = Append(o \o t, in[r])
      BY <3>1, <3>2, <3>4, AppendConcat DEF Text
    <3> QED
      BY <2>1, <3>1, <3>2, <3>3
  <2>8. r + 1 > p /\ r + 1 <= Len(in) + 1 /\ r + 1 > r
    BY <1>1, <1>8
  <2>9. /\ Round(in, st).r = r + 1
        /\ Round(in, st).out = o \o SubSeq(in, p, Round(in, st).r - 1)
    BY <2>6, <2>7
  <2>10. /\ Round(in, st).r > p /\ Round(in, st).r <= Len(in) + 1
         /\ Round(in, st).r > st.r
    BY <1>1, <2>8, <2>9
  <2> QED
    BY <1>5, <2>1, <2>9, <2>10, Zenon DEF Reading
<1> QED
  BY <1>1, <1>7, <1>8 DEF Reading

\* The path before the space is reduced as if nothing followed, and what follows
\* stays as it is.
LEMMA ReducedLine ==
  ASSUME NEW in \in Text, Clean(in), Good(in), in[1] = Slash,
         NEW p \in 2 .. Len(in), in[p] = Space, in[p - 1] # ".",
         \A k \in 1 .. p - 1 : in[k] # Space, Verbatim(in, p)
  PROVE  \E o : ReducedTo(in, p, o) /\ Reduced(in) = o \o SubSeq(in, p, Len(in))
<1> DEFINE I == {st \in State : Reading(in, p, st)}
<1>1. PICK N \in Nat : N = Len(in) /\ p \in 2 .. N
  BY TextParts
<1>2. [r |-> 1, out |-> <<>>] \in I
  <2>1. PICK st : st = [r |-> 1, out |-> <<>>]
    OBVIOUS
  <2>2. Sim(in, st) /\ st \in State /\ st.r = 1 /\ st.out = <<>>
    BY <2>1, SimStarts DEF Sim
  <2>3. Spaceless(<<>>) /\ 1 <= p
    BY <1>1 DEF Spaceless
  <2> QED
    BY <2>1, <2>2, <2>3 DEF Reading
<1>3. \A st \in I : st.r <= Len(in) + 1
  BY <1>1 DEF Reading, State
<1>4. ASSUME NEW st \in I, st.r <= Len(in) PROVE Round(in, st) \in I /\ Round(in, st).r > st.r
  <2>1. st \in State /\ Reading(in, p, st)
    OBVIOUS
  <2>2. Reading(in, p, Round(in, st)) /\ Round(in, st).r > st.r
    BY <1>4, <2>1, ReadingRound
  <2> QED
    BY <2>2 DEF Reading
<1>5. PICK st \in I : st.r = Len(in) + 1 /\ Reduced(in) = st.out
  <2>1. I \in SUBSET State
    OBVIOUS
  <2> HIDE DEF I
  <2> QED
    BY <1>2, <1>3, <1>4, <2>1, ReadingKeeps
<1>6. st.r > p /\ st.r - 1 = Len(in)
  BY <1>1, <1>5
<1>7. ~(st.r <= p)
  BY <1>1, <1>5
<1>8. \E o : ReducedTo(in, p, o) /\ st.out = o \o SubSeq(in, p, st.r - 1)
  BY <1>7 DEF Reading
<1> QED
  BY <1>5, <1>6, <1>8

LEMMA ReducedSpaceless ==
  ASSUME NEW in \in Text, in # <<>>, Clean(in), Good(in), in[1] = Slash, Spaceless(in)
  PROVE  Spaceless(Reduced(in))
<1> DEFINE I == {st \in State : (Sim(in, st) \/ Done(in, st)) /\ Spaceless(st.out)}
<1>1. PICK N \in Nat : N = Len(in) /\ N >= 1
  BY TextParts
<1>2. [r |-> 1, out |-> <<>>] \in I
  <2>1. PICK st : st = [r |-> 1, out |-> <<>>]
    OBVIOUS
  <2>2. Sim(in, st) /\ st \in State /\ st.out = <<>>
    BY <2>1, SimStarts DEF Sim
  <2>3. Spaceless(<<>>)
    BY DEF Spaceless
  <2> QED
    BY <2>1, <2>2, <2>3
<1>3. \A st \in I : st.r <= Len(in) + 1
  BY <1>1 DEF Sim, Done, State
<1>4. ASSUME NEW st \in I, st.r <= Len(in) PROVE Round(in, st) \in I /\ Round(in, st).r > st.r
  <2>1. st \in State /\ Sim(in, st) /\ st.r \in Nat /\ st.out \in Text /\ Spaceless(st.out)
    BY <1>1, <1>4 DEF Done, State
  <2>2. PICK q \in st.r .. Len(in) :
           /\ \/ q = st.r /\ in[q] # Slash
              \/ (\A j \in st.r .. q : in[j] = Slash) /\ At(in, q + 1) # Slash
           /\ \/ Skips(in, q) /\ Round(in, st) = [r |-> Past(in, q + 1), out |-> st.out]
              \/ ~Skips(in, q) /\ Climbs(in, q)
                 /\ Round(in, st) = [r |-> Past(in, q + 2), out |-> Pop(st.out)]
              \/ ~Skips(in, q) /\ ~Climbs(in, q)
                 /\ Round(in, st) = [r |-> q + 1, out |-> Append(st.out, in[q])]
    BY <1>4, <2>1, RoundCases
  <2>3. q \in Nat /\ q <= Len(in) /\ (in[q] # Slash => q = st.r) /\ Slash # "."
    BY <1>1, <2>1, <2>2 DEF Slash
  <2>4. CASE Skips(in, q)
    <3>1. q = st.r
      BY <2>3, <2>4 DEF Skips
    <3>2. Round(in, st) = [r |-> Past(in, q + 1), out |-> st.out]
      BY <2>2, <2>4
    <3>3. Round(in, st).r > q /\ (Sim(in, Round(in, st)) \/ Done(in, Round(in, st)))
      BY <2>1, <2>3, <2>4, <3>1, <3>2, SimSkip, Zenon
    <3>4. Spaceless(Round(in, st).out)
      BY <2>1, <3>2
    <3> QED
      BY <3>1, <3>3, <3>4 DEF Sim, Done
  <2>5. CASE ~Skips(in, q) /\ Climbs(in, q)
    <3>1. q = st.r
      BY <2>3, <2>5 DEF Climbs
    <3>2. Round(in, st) = [r |-> Past(in, q + 2), out |-> Pop(st.out)]
      BY <2>2, <2>5
    <3>3. Round(in, st).r > q /\ (Sim(in, Round(in, st)) \/ Done(in, Round(in, st)))
      BY <2>1, <2>3, <2>5, <3>1, <3>2, SimClimb, Zenon
    <3>4. st.out # <<>> /\ st.out[1] = Slash
      BY <2>1, <2>3, <2>5, <3>1, SimBoundary
    <3>5. Spaceless(Round(in, st).out)
      BY <2>1, <3>2, <3>4, SpacelessPop
    <3> QED
      BY <3>1, <3>3, <3>5 DEF Sim, Done
  <2>6. CASE ~Skips(in, q) /\ ~Climbs(in, q)
    <3>1. Round(in, st) = [r |-> q + 1, out |-> Append(st.out, in[q])]
      BY <2>2, <2>6
    <3>2. Sim(in, Round(in, st))
      BY <2>1, <2>2, <2>6, <3>1, SimCopy
    <3>3. Round(in, st).r = q + 1 /\ q + 1 > st.r
      BY <2>1, <2>2, <3>1
    <3>4. q \in 1 .. Len(in)
      BY <2>1, <2>2 DEF State
    <3>5. in[q] \in Char /\ in[q] # Space
      BY <3>4, TextParts, TextDomain DEF Spaceless
    <3>6. Spaceless(Round(in, st).out)
      BY <2>1, <3>1, <3>5, SpacelessGrows
    <3> QED
      BY <3>2, <3>3, <3>6 DEF Sim
  <2> QED
    BY <2>4, <2>5, <2>6
<1>5. PICK st \in I : st.r = Len(in) + 1 /\ Reduced(in) = st.out
  <2>1. I \in SUBSET State
    OBVIOUS
  <2> HIDE DEF I
  <2> QED
    BY <1>2, <1>3, <1>4, <2>1, ReadingKeeps
<1> QED
  BY <1>5

LEMMA SpacelessConcat ==
  ASSUME NEW s \in Text, Spaceless(s), NEW t \in Text, Spaceless(t)
  PROVE  Spaceless(s \o t)
<1>1. PICK m \in Nat, n \in Nat : m = Len(s) /\ n = Len(t)
  BY TextParts
<1>2. /\ s \o t \in Text /\ Len(s \o t) = m + n
      /\ \A k \in 1 .. m : (s \o t)[k] = s[k]
      /\ \A k \in 1 .. n : (s \o t)[m + k] = t[k]
  BY <1>1, TextConcat
<1>3. \A k \in 1 .. m + n : k \in 1 .. m \/ (k - m \in 1 .. n /\ m + (k - m) = k)
  BY <1>1
<1>4. (\A k \in 1 .. m : s[k] # Space) /\ (\A k \in 1 .. n : t[k] # Space)
  BY <1>1, TextDomain DEF Spaceless
<1> QED
  BY <1>2, <1>3, <1>4, TextDomain DEF Spaceless

LEMMA JoinedSpaceless ==
  ASSUME NEW dir \in Text, dir # <<>>, Spaceless(dir), NEW in \in Text, Spaceless(in), Fits(dir, in)
  PROVE  Spaceless(Joined(dir, in))
<1>1. Slash # Space /\ Slash \in Char
  BY Characters DEF Slash, Space
<1>2. Spaceless(<<Slash>>)
  <2>1. PICK s \in Text : s = <<Slash>> /\ Len(s) = 1 /\ s[1] = Slash
    BY SlashText
  <2> QED
    BY <1>1, <2>1, TextDomain DEF Spaceless
<1>3. Spaceless(Append(dir, Slash))
  BY <1>1, SpacelessGrows
<1>4. Spaceless(Ahead(dir, in))
  BY <1>2, <1>3, Zenon DEF Ahead
<1>5. PICK h \in Text : h = Ahead(dir, in) /\ Joined(dir, in) = h \o in
  BY JoinedWhole
<1>6. Spaceless(h \o in)
  BY <1>4, <1>5, SpacelessConcat
<1> QED
  BY <1>5, <1>6

Joins(s, t, m, n) ==
  /\ s \o t \in Text /\ Len(s \o t) = m + n
  /\ \A k \in 1 .. m : (s \o t)[k] = s[k]
  /\ \A k \in 1 .. n : (s \o t)[m + k] = t[k]

LEMMA TextJoins ==
  ASSUME NEW s \in Text, NEW t \in Text
  PROVE  Joins(s, t, Len(s), Len(t))
BY TextConcat DEF Joins

Associates(s, t, u) == (s \o t) \o u = s \o (t \o u)

LEMMA TextAssociates ==
  ASSUME NEW s \in Text, NEW t \in Text, NEW u \in Text
  PROVE  Associates(s, t, u)
BY ConcatAssociative DEF Text, Associates

LEMMA TextCancels ==
  ASSUME NEW e \in Text, NEW s \in Text, NEW t \in Text, e \o s = e \o t
  PROVE  s = t
BY ConcatSimplifications DEF Text

\* A path and what follows it on the line, as run passes them on.
LEMMA RunLine ==
  ASSUME NEW dir \in Text, dir # <<>>, dir[1] = Slash, Clean(dir), Tidy(dir), Spaceless(dir),
         NEW arg \in Text, arg # <<>>, Clean(arg), Plain(arg), Spaceless(arg), Last(arg) # ".",
         NEW rest \in Text, rest # <<>>, Clean(rest), Plain(rest), NoDots(rest), Last(rest) # Slash,
         Plain(arg \o <<Space>> \o rest), Fits(dir, arg \o <<Space>> \o rest)
  PROVE  \E o \in Text : /\ o # <<>> /\ o[1] = Slash /\ Single(o) /\ Spaceless(o)
                         /\ Parts(o) = Meaning(dir, arg)
                         /\ path_resolve(dir, arg \o <<Space>> \o rest) = o \o (<<Space>> \o rest)
<1>1. Space # Slash /\ Space # "." /\ Space # Nul /\ Slash # "." /\ Nul # "." /\ Slash # Nul
  BY DEF Space, Slash, Nul
<1>2. PICK sp \in Text : sp = <<Space>> /\ Len(sp) = 1 /\ sp[1] = Space
  BY SlashText
<1>3. PICK R \in Nat, A \in Nat : R = Len(rest) /\ R >= 1 /\ A = Len(arg) /\ A >= 1
  BY TextParts
<1>4. PICK b \in Text : /\ b = sp \o rest /\ Len(b) = R + 1 /\ b[1] = Space
                        /\ \A k \in 1 .. R : b[k + 1] = rest[k]
  <2>1. /\ sp \o rest \in Text /\ Len(sp \o rest) = 1 + R
        /\ \A k \in 1 .. 1 : (sp \o rest)[k] = sp[k]
        /\ \A k \in 1 .. R : (sp \o rest)[1 + k] = rest[k]
    <3>1. Joins(sp, rest, 1, R)
      BY <1>2, <1>3, TextJoins
    <3> QED
      BY <3>1 DEF Joins
  <2>2. PICK b \in Text : b = sp \o rest
    BY <2>1
  <2>3. 1 \in 1 .. 1 /\ 1 + R = R + 1 /\ \A k \in 1 .. R : 1 + k = k + 1
    BY <1>3
  <2>4. b[1] = Space /\ Len(b) = R + 1
    BY <1>2, <2>1, <2>2, <2>3
  <2>5. \A k \in 1 .. R : b[k + 1] = rest[k]
    BY <2>1, <2>2, <2>3
  <2> QED
    BY <2>2, <2>4, <2>5
<1>5. PICK w \in Text : /\ w = arg \o b /\ w = arg \o <<Space>> \o rest /\ Len(w) = A + (R + 1)
                        /\ Plain(w) /\ Fits(dir, w) /\ Clean(w)
  <2>1. arg \o b = (arg \o sp) \o rest
    <3>1. Associates(arg, sp, rest)
      BY TextAssociates
    <3> QED
      BY <1>4, <3>1 DEF Associates
  <2>2. /\ arg \o b \in Text /\ Len(arg \o b) = A + (R + 1)
        /\ \A k \in 1 .. A : (arg \o b)[k] = arg[k]
        /\ \A k \in 1 .. R + 1 : (arg \o b)[A + k] = b[k]
    <3>1. Joins(arg, b, A, R + 1)
      BY <1>3, <1>4, TextJoins
    <3> QED
      BY <3>1 DEF Joins
  <2>3. \A k \in 1 .. R + 1 : k = 1 \/ (k - 1 \in 1 .. R /\ (k - 1) + 1 = k)
    BY <1>3
  <2>4. \A k \in 1 .. R + 1 : b[k] # Nul
    BY <1>1, <1>3, <1>4, <2>3 DEF Clean
  <2>5. \A k \in 1 .. A + (R + 1) : k \in 1 .. A \/ (k - A \in 1 .. R + 1 /\ A + (k - A) = k)
    BY <1>3
  <2>6. Clean(arg \o b)
    BY <1>3, <2>2, <2>4, <2>5 DEF Clean
  <2> QED
    BY <1>2, <2>1, <2>2, <2>6
<1>6. Joined(dir, w) = Joined(dir, arg) \o b /\ Fits(dir, arg)
  <2>1. Fits(dir, arg \o b)
    BY <1>5
  <2>2. Joined(dir, arg \o b) = Joined(dir, arg) \o b /\ Fits(dir, arg)
    BY <2>1, JoinedMore, Zenon
  <2> QED
    BY <1>5, <2>2
<1>7. PICK J \in Text : J = Joined(dir, w) /\ J # <<>> /\ J[1] = Slash /\ Clean(J) /\ Good(J)
  BY <1>5, JoinedMeans, Zenon
<1>8. PICK H \in Text : /\ H = Joined(dir, arg) /\ H # <<>>
                        /\ Follow(<<>>, Parts(H)) = Meaning(dir, arg) /\ Spaceless(H)
  BY <1>6, JoinedMeans, JoinedSpaceless, Zenon
<1>9. PICK M \in Nat, p \in Nat : M = Len(H) /\ M >= 1 /\ p = M + 1
  BY <1>8, TextParts
<1>10. /\ Len(J) = M + (R + 1)
       /\ \A k \in 1 .. M : J[k] = H[k]
       /\ \A k \in 1 .. R + 1 : J[M + k] = b[k]
  <2>1. J = H \o b /\ M = Len(H) /\ R + 1 = Len(b)
    BY <1>4, <1>6, <1>7, <1>8, <1>9
  <2>2. /\ Len(H \o b) = M + (R + 1)
        /\ \A k \in 1 .. M : (H \o b)[k] = H[k]
        /\ \A k \in 1 .. R + 1 : (H \o b)[M + k] = b[k]
    <3>1. Joins(H, b, M, R + 1)
      BY <2>1, TextJoins
    <3> QED
      BY <3>1 DEF Joins
  <2> QED
    BY <2>1, <2>2
<1>11. H[M] = arg[A]
  <2>1. PICK h \in Text : H = h \o arg
    BY <1>6, <1>8, JoinedWhole, ZenonT(40)
  <2>2. PICK n \in Nat : n = Len(h) /\ Len(h \o arg) = n + A /\ A \in 1 .. A
                         /\ \A k \in 1 .. A : (h \o arg)[n + k] = arg[k]
    <3>1. PICK n \in Nat : n = Len(h)
      BY TextParts
    <3>2. Len(h \o arg) = n + A /\ \A k \in 1 .. A : (h \o arg)[n + k] = arg[k]
      <4>1. Joins(h, arg, n, A)
        BY <1>3, <3>1, TextJoins
      <4> QED
        BY <4>1 DEF Joins
    <3>3. A \in 1 .. A
      BY <1>3
    <3> QED
      BY <3>1, <3>2, <3>3
  <2> QED
    BY <1>9, <2>1, <2>2
<1>12. p \in 2 .. Len(J) /\ p - 1 = M /\ M \in 1 .. M /\ 1 \in 1 .. R + 1
  BY <1>3, <1>9, <1>10
<1>13. J[p] = Space /\ J[p - 1] # "."
  <2>1. arg[A] # "."
    BY <1>3 DEF Last
  <2> QED
    BY <1>4, <1>9, <1>10, <1>11, <1>12, <2>1
<1>14. \A k \in 1 .. p - 1 : J[k] # Space
  BY <1>8, <1>9, <1>10, <1>12, TextDomain DEF Spaceless
<1>15. Verbatim(J, p)
  <2>1. Tidy(rest)
    BY PlainTidy
  <2>2. ASSUME NEW i \in Nat PROVE At(J, p + i) = At(rest, i) \/ i = 0
    <3> SUFFICES ASSUME i # 0 PROVE At(J, p + i) = At(rest, i)
      OBVIOUS
    <3>1. CASE i \in 1 .. R
      <4>1. i + 1 \in 1 .. R + 1 /\ M + (i + 1) = p + i /\ p + i \in 1 .. Len(J)
        BY <1>3, <1>9, <1>10, <3>1
      <4>2. J[p + i] = rest[i]
        BY <1>4, <1>10, <3>1, <4>1
      <4> QED
        BY <1>3, <3>1, <4>1, <4>2 DEF At
    <3>2. CASE i \notin 1 .. R
      <4>1. p + i \notin 1 .. Len(J)
        BY <1>3, <1>9, <1>10, <3>2
      <4> QED
        BY <1>3, <3>2, <4>1 DEF At
    <3> QED
      BY <3>1, <3>2
  <2>3. ASSUME NEW k \in p .. Len(J)
        PROVE  (J[k] = "." => ~Ends(J, k + 1)) /\ (J[k] = Slash => At(J, k + 1) # Slash)
    <3>1. CASE k = p
      BY <1>1, <1>13, <3>1
    <3>2. CASE k # p
      <4>1. PICK i \in 1 .. R : k = p + i /\ k + 1 = p + (i + 1) /\ k \in 1 .. Len(J)
        <5>1. k - p \in 1 .. R /\ k = p + (k - p) /\ k + 1 = p + ((k - p) + 1) /\ k \in 1 .. Len(J)
          BY <1>3, <1>9, <1>10, <3>2
        <5> QED
          BY <5>1
      <4>2. i \in Nat /\ i # 0 /\ i + 1 \in Nat /\ i + 1 # 0
        BY <1>3
      <4>3. At(J, k) = At(rest, i) /\ At(J, k + 1) = At(rest, i + 1)
        BY <2>2, <4>1, <4>2
      <4>4. J[k] = rest[i]
        BY <1>3, <4>1, <4>3 DEF At
      <4>5. ~(rest[i] = Slash /\ At(rest, i + 1) = Slash)
        <5>1. CASE i + 1 \in 1 .. R
          <6>1. i \in 1 .. Len(rest) - 1
            BY <1>3, <5>1
          <6> QED
            BY <1>3, <5>1, <6>1 DEF Plain, At
        <5>2. CASE i + 1 \notin 1 .. R
          BY <1>1, <1>3, <5>2 DEF At
        <5> QED
          BY <5>1, <5>2
      <4>6. rest[i] = "." => ~Ends(rest, i + 1)
        BY <1>3, <2>1 DEF Tidy
      <4> QED
        BY <4>3, <4>4, <4>5, <4>6 DEF Ends
    <3> QED
      BY <3>1, <3>2
  <2> QED
    BY <2>3 DEF Verbatim
<1>16. PICK o : ReducedTo(J, p, o) /\ Reduced(J) = o \o SubSeq(J, p, Len(J))
  BY <1>7, <1>12, <1>13, <1>14, <1>15, ReducedLine
<1>17. SubSeq(J, 1, p - 1) = H /\ SubSeq(J, p, Len(J)) = b
  <2>1. M \in 0 .. Len(J)
    BY <1>3, <1>9, <1>10
  <2>2. /\ SubSeq(J, 1, M) \in Text /\ Len(SubSeq(J, 1, M)) = M
        /\ \A k \in 1 .. M : SubSeq(J, 1, M)[k] = J[k]
    BY <2>1, TextPrefixes
  <2>3. SubSeq(J, 1, M) = H
    <3>1. Len(SubSeq(J, 1, M)) = Len(H) /\ \A k \in 1 .. Len(H) : SubSeq(J, 1, M)[k] = H[k]
      BY <1>9, <1>10, <2>2
    <3> QED
      BY <2>2, <3>1, TextSame
  <2>4. SubSeq(J, M + 1, Len(J)) \in Text /\ Len(SubSeq(J, M + 1, Len(J))) = R + 1
    <3>1. Len(SubSeq(J, M + 1, Len(J))) = Len(J) - M /\ SubSeq(J, M + 1, Len(J)) \in Text
      BY <2>1, TextSplit
    <3> QED
      BY <1>3, <1>9, <1>10, <3>1
  <2>5. J = SubSeq(J, 1, M) \o SubSeq(J, M + 1, Len(J)) /\ J = H \o b
    BY <1>6, <1>7, <1>8, <2>1, TextSplit
  <2>6. SubSeq(J, M + 1, Len(J)) = b
    BY <2>3, <2>4, <2>5, ConcatSimplifications DEF Text
  <2> QED
    BY <1>9, <1>12, <2>3, <2>6
<1>18. o \in Text /\ o # <<>> /\ o[1] = Slash /\ Single(o) /\ Spaceless(o) /\ Parts(o) = Meaning(dir, arg)
  BY <1>8, <1>16, <1>17 DEF ReducedTo
<1>19. path_resolve(dir, w) = o \o b
  <2>1. PICK n \in Nat : n = Len(o) /\ o \o b \in Text /\ Len(o \o b) = n + (R + 1)
                         /\ \A k \in 1 .. R + 1 : (o \o b)[n + k] = b[k]
    <3>1. PICK n \in Nat : n = Len(o) /\ o \in Text
      BY <1>18, TextParts
    <3>2. /\ o \o b \in Text /\ Len(o \o b) = n + (R + 1)
          /\ \A k \in 1 .. R + 1 : (o \o b)[n + k] = b[k]
      <4>1. Joins(o, b, n, R + 1)
        BY <1>4, <3>1, TextJoins
      <4> QED
        BY <4>1 DEF Joins
    <3> QED
      BY <3>1, <3>2
  <2>2. (o \o b)[Len(o \o b)] = rest[R]
    <3>1. R + 1 \in 1 .. R + 1 /\ R \in 1 .. R
      BY <1>3
    <3> QED
      BY <1>4, <2>1, <3>1
  <2>3. rest[R] # Slash
    BY <1>3 DEF Last
  <2> QED
    BY <1>7, <1>16, <1>17, <2>2, <2>3 DEF path_resolve
<1> QED
  BY <1>2, <1>4, <1>5, <1>18, <1>19

-----------------------------------------------------------------------------
(* What is read.                                                             *)

LEMMA PairConcat ==
  ASSUME NEW S, NEW a \in S, NEW b \in S
  PROVE  Append(<<>>, a) \o Append(<<>>, b) = <<a, b>>
<1>1. Append(<<>>, a) = <<a>> /\ Append(<<>>, b) = <<b>>
  OBVIOUS
<1>2. PICK u \in Seq(S), w \in Seq(S) : u = <<a>> /\ w = <<a, b>>
  <2>1. <<a>> \in Seq(S)
    OBVIOUS
  <2>2. <<a, b>> \in Seq(S)
    OBVIOUS
  <2> QED
    BY <2>1, <2>2
<1>3. Len(u) = 1 /\ u[1] = a /\ Len(w) = 2 /\ w[1] = a /\ w[2] = b /\ u \in Seq(S)
  BY <1>2
<1>4. Append(u, b) \in Seq(S) /\ Len(Append(u, b)) = 2 /\ Append(u, b)[1] = a /\ Append(u, b)[2] = b
  <2>1. 1 \in 1 .. 1 /\ 1 + 1 = 2
    OBVIOUS
  <2>2. /\ Append(u, b) \in Seq(S) /\ Len(Append(u, b)) = Len(u) + 1
        /\ \A k \in 1 .. Len(u) : Append(u, b)[k] = u[k]
        /\ Append(u, b)[Len(u) + 1] = b
    BY AppendProperties
  <2> QED
    BY <1>3, <2>1, <2>2
<1>5. \A k \in 1 .. 2 : k = 1 \/ k = 2
  OBVIOUS
<1>6. Append(u, b) = w
  BY <1>3, <1>4, <1>5, SeqEqual
<1>7. Append(u, b) = u \o <<b>>
  BY AppendIsConcat
<1> QED
  BY <1>1, <1>2, <1>6, <1>7

LEMMA TwoParts ==
  ASSUME NEW d \in Text, d # <<>>, NoSlash(d), NEW s \in Text, s # <<>>, NoSlash(s)
  PROVE  (d \o <<Slash>>) \o s \in Text /\ Parts((d \o <<Slash>>) \o s) = <<d, s>>
<1>1. PICK e \in Text : e = d \o <<Slash>> /\ e = Append(d, Slash)
  <2>1. d \in Seq(Char) /\ Slash \in Char
    BY Characters DEF Text
  <2>2. Append(d, Slash) = d \o <<Slash>>
    BY <2>1, AppendIsConcat
  <2> QED
    BY <2>2, SlashText, TextConcat
<1>2. e # <<>> /\ e[Len(e)] = Slash
  BY <1>1, Characters, AppendSome DEF Text
<1>3. Sight(e).all = Parts(e) /\ Sight(e).part = <<>>
  BY <1>2, ClosedParts
<1>4. Parts(e) = Append(<<>>, d) /\ Parts(s) = Append(<<>>, s)
  BY <1>1, SlashEnds, OnePart
<1>5. Parts(e \o s) = Parts(e) \o Parts(s)
  BY <1>3, SightConcat
<1>6. Append(<<>>, d) \o Append(<<>>, s) = <<d, s>>
  BY PairConcat
<1>7. e \o s \in Text
  BY TextConcat
<1> QED
  BY <1>1, <1>4, <1>5, <1>6, <1>7

LEMMA BelowSlash ==
  ASSUME NEW t \in Text
  PROVE  <<Slash>> \o t \in Text /\ Parts(<<Slash>> \o t) = Parts(t)
<1>1. PICK s \in Text : s = <<Slash>> /\ s # <<>> /\ s[Len(s)] = Slash
  BY SlashText
<1>2. Sight(s).all = <<>> /\ Sight(s).part = <<>>
  BY <1>1, ClosedParts, PartsOfSlash
<1>3. Parts(s \o t) = <<>> \o Parts(t)
  BY <1>2, SightConcat
<1>4. <<>> \o Parts(t) = Parts(t)
  BY PartsText
<1> QED
  BY <1>1, <1>3, <1>4, TextConcat

LEMMA BehindPrefix ==
  ASSUME NEW t \in Text
  PROVE  LET p == (DiskPrefix \o <<Slash>>) \o t
         IN  p \in Text /\ disk_subpath(p) # {} /\ Parts(One(disk_subpath(p))) = Parts(t)
<1>1. PICK d \in Text, n \in Nat, m \in Nat : d = DiskPrefix /\ n = Len(d) /\ m = Len(t)
  BY PrefixText, TextParts
<1>2. PICK s \in Text : s = <<Slash>> /\ Len(s) = 1 /\ s[1] = Slash
  BY SlashText
<1>3. Joins(d, s, n, 1)
  BY <1>1, <1>2, TextJoins
<1>4. PICK e \in Text : /\ e = d \o s /\ Len(e) = n + 1 /\ e[n + 1] = Slash
                        /\ \A k \in 1 .. n : e[k] = d[k]
  <2>1. PICK e \in Text : /\ e = d \o s /\ Len(e) = n + 1
                          /\ \A k \in 1 .. n : e[k] = d[k]
                          /\ \A k \in 1 .. 1 : e[n + k] = s[k]
    BY <1>3, Zenon DEF Joins
  <2>2. 1 \in 1 .. 1
    OBVIOUS
  <2> QED
    BY <1>2, <2>1, <2>2
<1>5. Joins(e, t, n + 1, m)
  BY <1>1, <1>4, TextJoins
<1>6. PICK p \in Text : /\ p = e \o t /\ Len(p) = (n + 1) + m
                        /\ \A k \in 1 .. n + 1 : p[k] = e[k]
  BY <1>5 DEF Joins
<1>7. n + 1 \in 1 .. n + 1 /\ (\A k \in 1 .. n : k \in 1 .. n + 1) /\ Len(p) >= n
  BY <1>6
<1>8. p[n + 1] = Slash /\ \A k \in 1 .. n : p[k] = d[k]
  BY <1>4, <1>6, <1>7
<1>9. disk_subpath(p) # {}
  BY <1>1, <1>7, <1>8, PrefixMeans, SubpathThere
<1>10. Parts(One(disk_subpath(p))) = OnDisk(Parts(p))
  BY <1>9, SubpathParts
<1>11. Parts(p) = <<DiskName>> \o Parts(t)
  BY <1>1, <1>2, <1>4, <1>6, PartsOnDisk
<1>12. OnDisk(<<DiskName>> \o Parts(t)) = Parts(t)
  BY PartsText, BelowDisk
<1> QED
  BY <1>1, <1>2, <1>4, <1>6, <1>9, <1>10, <1>11, <1>12

\* The bytes of a path below the disk's name are read there.
LEMMA UnderName ==
  ASSUME NEW p \in Text, disk_subpath(p) # {}
  PROVE  UnderDisk(Parts(p))
<1>1. DiskName \in Text
  BY TextConstants
<1>2. CASE p = DiskPrefix
  BY <1>2, PartsOfPrefix DEF UnderDisk
<1>3. CASE p = (DiskPrefix \o <<Slash>>) \o One(disk_subpath(p))
  <2>1. PICK t \in Text : t = One(disk_subpath(p))
    BY SubpathText
  <2>2. Parts(p) = <<DiskName>> \o Parts(t)
    BY <1>3, <2>1, PartsOnDisk
  <2>3. <<DiskName>> = Append(<<>>, DiskName)
    OBVIOUS
  <2> QED
    BY <1>1, <2>2, <2>3, PartsText, FirstOf DEF UnderDisk
<1> QED
  BY <1>2, <1>3, SubpathText

\* What is found on the disk or in the RAM disk, whichever an absolute path names.
ReadAt(m, fs, comps) ==
  CASE ~UnderDisk(comps) -> IF comps \in RamFiles THEN RamNode(comps) ELSE NoNode
    [] UnderDisk(comps) /\ m -> Only("file", FindIn(fs, Tail(comps)))
    [] OTHER -> Fault

LEMMA StreamFinds ==
  ASSUME FilesInv, NEW s \in Text, AllUncut(Parts(s))
  PROVE  fat32_read_stream_path(s) = Only("file", FindIn(files, Parts(s)))
<1>1. fat32_read_stream_path(s) = Only("file", walk_path(Parts(s)))
  BY Zenon DEF fat32_read_stream_path, Only
<1> QED
  BY <1>1, PartsText, KeptFinds, FindsIn

LEMMA ReadFinds ==
  ASSUME FilesInv, NEW p \in Text, p # <<>>, p[1] = Slash, Single(p),
         UnderDisk(Parts(p)) => AllUncut(Tail(Parts(p)))
  PROVE  read_file_into(p) = ReadAt(mounted, files, Parts(p))
<1>1. read_file_into(p) = LET sub == disk_subpath(p)
                          IN  CASE sub = {} -> vfs_read(p)
                                [] sub # {} /\ mounted -> fat32_read_stream_path(One(sub))
                                [] OTHER -> Fault
  BY Zenon DEF read_file_into
<1>2. CASE disk_subpath(p) = {}
  <2>1. read_file_into(p) = vfs_read(p)
    BY <1>1, <1>2
  <2>2. ~UnderDisk(Parts(p))
    <3>1. UnderDisk(Parts(p)) => Clash(Parts(p))
      BY <1>2, NameFirst
    <3>2. UnderDisk(Parts(p)) => ~Clash(Parts(p))
      BY DEF UnderDisk, Clash, IsStrictPrefix
    <3> QED
      BY <3>1, <3>2
  <2> QED
    BY <2>1, <2>2 DEF ReadAt, vfs_read
<1>3. CASE disk_subpath(p) # {}
  <2>1. UnderDisk(Parts(p))
    BY <1>3, UnderName
  <2>2. PICK s \in Text : s = One(disk_subpath(p)) /\ Parts(s) = Tail(Parts(p))
    BY <1>3, <2>1, SubpathParts DEF OnDisk
  <2>3. CASE mounted
    <3>1. read_file_into(p) = fat32_read_stream_path(s)
      BY <1>1, <1>3, <2>2, <2>3
    <3>2. fat32_read_stream_path(s) = Only("file", FindIn(files, Tail(Parts(p))))
      BY <2>1, <2>2, StreamFinds
    <3> QED
      BY <2>1, <2>3, <3>1, <3>2 DEF ReadAt
  <2>4. CASE ~mounted
    <3>1. read_file_into(p) = Fault
      BY <1>1, <1>3, <2>4
    <3> QED
      BY <2>1, <2>4, <3>1 DEF ReadAt
  <2> QED
    BY <2>3, <2>4
<1> QED
  BY <1>2, <1>3

-----------------------------------------------------------------------------
(* A word and run start what they mean.                                      *)

\* The first space of a line.
LEMMA FirstSpace ==
  ASSUME NEW line \in Text, NEW m \in 1 .. Len(line) + 1,
         m <= Len(line) => line[m] = Space, \A k \in 1 .. m - 1 : line[k] # Space
  PROVE  LET spaces == {k \in DOMAIN line : line[k] = Space}
         IN  (CHOOSE k \in spaces \cup {Len(line) + 1} : \A j \in spaces : k <= j) = m
<1> DEFINE spaces == {k \in DOMAIN line : line[k] = Space}
           choices == spaces \cup {Len(line) + 1}
<1>1. PICK N \in Nat : N = Len(line) /\ m \in 1 .. N + 1 /\ DOMAIN line = 1 .. N
  BY TextParts, TextDomain
<1>2. m \in choices
  BY <1>1
<1>3. \A j \in spaces : j \in 1 .. N /\ j >= m
  BY <1>1
<1>4. \A k \in choices : (\A j \in spaces : k <= j) => k = m
  <2> SUFFICES ASSUME NEW k \in choices, \A j \in spaces : k <= j
               PROVE  k = m
    OBVIOUS
  <2>1. CASE m = N + 1
    <3>1. k = N + 1 \/ k \in spaces
      BY <1>1
    <3> QED
      BY <1>1, <1>3, <2>1, <3>1
  <2>2. CASE m # N + 1
    <3>1. m \in spaces
      BY <1>1, <2>2
    <3>2. k <= m
      BY <3>1
    <3>3. k = N + 1 \/ (k \in 1 .. N /\ k >= m)
      BY <1>1, <1>3
    <3> QED
      BY <1>1, <2>2, <3>2, <3>3
  <2> QED
    BY <2>1, <2>2
<1>5. \A j \in spaces : m <= j
  BY <1>1, <1>3
<1> HIDE DEF choices, spaces
<1>6. (CHOOSE k \in choices : \A j \in spaces : k <= j) = m
  BY <1>2, <1>4, <1>5
<1> QED
  BY <1>6 DEF choices, spaces

\* How run takes the line apart again.
Parted(line, path, rest) ==
  LET spaces == {k \in DOMAIN line : line[k] = Space}
      cut    == CHOOSE k \in spaces \cup {Len(line) + 1} : \A j \in spaces : k <= j
  IN  SubSeq(line, 1, cut - 1) = path /\ SubSeq(line, cut + 1, Len(line)) = rest

LEMMA WholeLine ==
  ASSUME NEW line \in Text, Spaceless(line)
  PROVE  Parted(line, line, <<>>)
<1>1. PICK N \in Nat : N = Len(line) /\ DOMAIN line = 1 .. N
  BY TextParts, TextDomain
<1>2. PICK m \in 1 .. Len(line) + 1 : m = N + 1 /\ m - 1 = N
  BY <1>1
<1>3. (m <= Len(line) => line[m] = Space) /\ \A k \in 1 .. m - 1 : line[k] # Space
  BY <1>1, <1>2 DEF Spaceless
<1>4. SubSeq(line, 1, m - 1) = line
  BY <1>1, <1>2, TextPrefixes
<1>5. SubSeq(line, m + 1, Len(line)) = <<>>
  <2>1. m + 1 > Len(line)
    BY <1>1, <1>2
  <2> QED
    BY <1>1, <1>2, <2>1, SubSeqEmpty DEF Text
<1>6. (LET spaces == {k \in DOMAIN line : line[k] = Space}
       IN  CHOOSE k \in spaces \cup {Len(line) + 1} : \A j \in spaces : k <= j) = m
  BY <1>3, FirstSpace
<1> QED
  BY <1>4, <1>5, <1>6 DEF Parted

LEMMA LineParted ==
  ASSUME NEW o \in Text, Spaceless(o), NEW rest \in Text
  PROVE  Parted(o \o (<<Space>> \o rest), o, rest)
<1>1. PICK sp \in Text : sp = <<Space>> /\ Len(sp) = 1 /\ sp[1] = Space
  BY SlashText
<1>2. PICK A \in Nat, R \in Nat : A = Len(o) /\ R = Len(rest) /\ DOMAIN o = 1 .. A
  BY TextParts, TextDomain
<1>3. PICK e \in Text : /\ e = o \o sp /\ Len(e) = A + 1 /\ e[A + 1] = Space
                        /\ \A k \in 1 .. A : e[k] = o[k]
  <2>1. Joins(o, sp, A, 1)
    BY <1>1, <1>2, TextJoins
  <2>2. PICK e \in Text : /\ e = o \o sp /\ Len(e) = A + 1
                          /\ \A k \in 1 .. A : e[k] = o[k]
                          /\ \A k \in 1 .. 1 : e[A + k] = sp[k]
    BY <2>1, Zenon DEF Joins
  <2>3. 1 \in 1 .. 1
    OBVIOUS
  <2> QED
    BY <1>1, <2>2, <2>3
<1>4. PICK line \in Text : line = e \o rest /\ line = o \o (<<Space>> \o rest)
                           /\ Len(line) = (A + 1) + R
                           /\ \A k \in 1 .. A + 1 : line[k] = e[k]
  <2>1. Joins(e, rest, A + 1, R)
    BY <1>2, <1>3, TextJoins
  <2>2. PICK line \in Text : line = e \o rest /\ Len(line) = (A + 1) + R
                             /\ \A k \in 1 .. A + 1 : line[k] = e[k]
    BY <2>1, Zenon DEF Joins
  <2>3. e \o rest = o \o (<<Space>> \o rest)
    <3>0. Associates(o, sp, rest)
      BY TextAssociates
    <3>1. (o \o sp) \o rest = o \o (sp \o rest)
      BY <3>0, Zenon DEF Associates
    <3> QED
      BY <1>1, <1>3, <3>1
  <2> QED
    BY <2>2, <2>3
<1>5. PICK m \in 1 .. Len(line) + 1 : m = A + 1 /\ m - 1 = A /\ m <= Len(line) /\ m \in 1 .. A + 1
                                      /\ A \in 0 .. Len(line) /\ m \in 0 .. Len(line)
  BY <1>2, <1>4
<1>6. line[m] = Space
  BY <1>3, <1>4, <1>5
<1>7. \A k \in 1 .. m - 1 : line[k] # Space
  <2>1. \A k \in 1 .. A : k \in 1 .. A + 1
    BY <1>2
  <2> QED
    BY <1>2, <1>3, <1>4, <1>5, <2>1 DEF Spaceless
<1>8. (LET spaces == {k \in DOMAIN line : line[k] = Space}
       IN  CHOOSE k \in spaces \cup {Len(line) + 1} : \A j \in spaces : k <= j) = m
  BY <1>6, <1>7, FirstSpace
<1>9. SubSeq(line, 1, m - 1) = o
  <2>1. SubSeq(line, 1, A) \in Text /\ Len(SubSeq(line, 1, A)) = A
        /\ \A k \in 1 .. A : SubSeq(line, 1, A)[k] = line[k]
    BY <1>5, TextPrefixes
  <2>2. \A k \in 1 .. A : line[k] = o[k]
    <3>1. \A k \in 1 .. A : k \in 1 .. A + 1
      BY <1>2
    <3> QED
      BY <1>3, <1>4, <3>1
  <2>3. SubSeq(line, 1, A) = o
    BY <1>2, <2>1, <2>2, TextSame
  <2> QED
    BY <1>5, <2>3
<1>10. SubSeq(line, m + 1, Len(line)) = rest
  <2>1. SubSeq(line, 1, m) \in Text /\ Len(SubSeq(line, 1, m)) = m
        /\ \A k \in 1 .. m : SubSeq(line, 1, m)[k] = line[k]
    BY <1>5, TextPrefixes
  <2>2. PICK u \in Text : /\ u = SubSeq(line, 1, m) /\ Len(u) = m
                          /\ \A k \in 1 .. m : u[k] = line[k]
    BY <2>1
  <2>6. u = e
    <3>1. Len(e) = m /\ \A k \in 1 .. m : u[k] = e[k]
      BY <1>3, <1>4, <1>5, <2>2
    <3> QED
      BY <2>2, <3>1, TextSame
  <2>3. /\ SubSeq(line, m + 1, Len(line)) \in Text
        /\ Len(SubSeq(line, m + 1, Len(line))) = Len(line) - m
        /\ line = SubSeq(line, 1, m) \o SubSeq(line, m + 1, Len(line))
    BY <1>5, TextSplit
  <2>4. PICK x \in Text : x = SubSeq(line, m + 1, Len(line)) /\ e \o x = e \o rest
    BY <1>4, <2>2, <2>3, <2>6
  <2>5. x = rest
    BY <2>4, TextCancels
  <2> QED
    BY <2>4, <2>5
<1>11. Parted(line, o, rest)
  BY <1>8, <1>9, <1>10, Zenon DEF Parted
<1> QED
  BY <1>4, <1>11

LEMMA WholePath ==
  ASSUME NEW dir \in Text, dir # <<>>, dir[1] = Slash, Clean(dir), Tidy(dir), Spaceless(dir),
         NEW in \in Text, Clean(in), Plain(in), Spaceless(in), Fits(dir, in)
  PROVE  Spaceless(path_resolve(dir, in))
<1>1. PICK J \in Text : /\ J = Joined(dir, in) /\ J # <<>> /\ J[1] = Slash /\ Clean(J) /\ Good(J)
  BY JoinedMeans, Zenon
<1>2. Spaceless(J)
  BY <1>1, JoinedSpaceless
<1>3. PICK out \in Text : out = Reduced(J)
  BY ReducedText
<1>4. Spaceless(out)
  BY <1>1, <1>2, <1>3, ReducedSpaceless
<1>5. path_resolve(dir, in) = IF Len(out) > 1 /\ out[Len(out)] = Slash THEN Front(out) ELSE out
  BY <1>1, <1>3 DEF path_resolve
<1>6. ASSUME Len(out) > 1 PROVE Spaceless(Front(out))
  <2>1. PICK n \in 0 .. Len(out), m \in Nat : n = Len(out) - 1 /\ m = Len(out)
    BY <1>6, TextParts
  <2>2. SubSeq(out, 1, n) \in Text /\ Len(SubSeq(out, 1, n)) = n
        /\ \A k \in 1 .. n : SubSeq(out, 1, n)[k] = out[k]
    BY TextPrefixes
  <2>3. \A k \in 1 .. n : k \in 1 .. m
    BY <2>1
  <2>4. Front(out) = SubSeq(out, 1, n)
    BY <2>1 DEF Front
  <2> QED
    BY <1>4, <2>1, <2>2, <2>3, <2>4, TextDomain DEF Spaceless
<1> QED
  BY <1>4, <1>5, <1>6

LEMMA RunSplits ==
  ASSUME NEW dir \in Text, dir # <<>>, dir[1] = Slash, Clean(dir), Tidy(dir), Spaceless(dir),
         NEW arg \in Text, arg # <<>>, Clean(arg), Plain(arg), Spaceless(arg),
         NEW rest \in Text, Clean(rest), Plain(rest), NoDots(rest),
         rest = <<>> \/ (Last(arg) # "." /\ Last(rest) # Slash),
         Plain(arg \o <<Space>> \o rest), Fits(dir, arg \o <<Space>> \o rest), Fits(dir, arg)
  PROVE  \E p \in Text :
           /\ p # <<>> /\ p[1] = Slash /\ Single(p) /\ Parts(p) = Meaning(dir, arg)
           /\ Parted(path_resolve(dir, IF rest = <<>> THEN arg ELSE arg \o <<Space>> \o rest), p, rest)
<1>1. CASE rest = <<>>
  <2>1. PICK p \in Text : /\ p = path_resolve(dir, arg) /\ p # <<>> /\ p[1] = Slash /\ Single(p)
                          /\ Parts(p) = Meaning(dir, arg)
    BY ResolveMeans
  <2>2. Spaceless(p)
    BY <2>1, WholePath
  <2>3. Parted(p, p, <<>>)
    BY <2>2, WholeLine
  <2> QED
    BY <1>1, <2>1, <2>3
<1>2. CASE rest # <<>>
  <2>1. PICK p \in Text : /\ p # <<>> /\ p[1] = Slash /\ Single(p) /\ Spaceless(p)
                          /\ Parts(p) = Meaning(dir, arg)
                          /\ path_resolve(dir, arg \o <<Space>> \o rest) = p \o (<<Space>> \o rest)
    BY <1>2, RunLine
  <2>2. Parted(p \o (<<Space>> \o rest), p, rest)
    BY <2>1, LineParted
  <2> QED
    BY <1>2, <2>1, <2>2
<1> QED
  BY <1>1, <1>2

LEMMA RestsClean ==
  ASSUME NEW rest \in Rests
  PROVE  rest \in Text /\ Clean(rest)
<1>1. rest \in Text
  BY TextConstants
<1>2. DOMAIN rest = 1 .. Len(rest)
  BY <1>1 DEF Text
<1> QED
  BY <1>1, <1>2, ShellConstants DEF Clean

LEMMA RunAnswers ==
  ASSUME CwdInv, FilesInv, Absolute(cwd), NEW arg \in Args, NEW rest \in Rests, Run(arg, rest),
         Plain(arg \o <<Space>> \o rest), Fits(cwd, arg \o <<Space>> \o rest),
         Plain(arg), Plain(rest), NoDots(rest), Spaceless(cwd), Spaceless(arg),
         rest = <<>> \/ (Last(arg) # "." /\ Last(rest) # Slash)
  PROVE  /\ last'.passed = rest
         /\ (UnderDisk(Meaning(cwd, arg)) => AllUncut(Tail(Meaning(cwd, arg)))) =>
              last'.reply = ReadAt(mounted, files, Meaning(cwd, arg))
<1>1. cwd \in Text /\ cwd # <<>> /\ cwd[1] = Slash /\ Clean(cwd)
  BY DEF CwdInv, Absolute
<1>2. arg \in Text /\ Clean(arg) /\ arg # <<>> /\ rest \in Text /\ Clean(rest)
  BY ArgsClean, RestsClean DEF Run
<1>3. Fits(cwd, arg)
  <2>1. PICK b \in Text : b = <<Space>> \o rest /\ arg \o b = arg \o <<Space>> \o rest
    <3>1. PICK sp \in Text : sp = <<Space>>
      BY SlashText
    <3>2. Associates(arg, sp, rest) /\ sp \o rest \in Text
      BY <1>2, TextAssociates, TextConcat
    <3> QED
      BY <3>1, <3>2, Zenon DEF Associates
  <2> QED
    BY <1>1, <1>2, <2>1, JoinedMore
<1>4. Tidy(cwd)
  BY <1>2, <1>3, FitsTidy
<1> DEFINE line == path_resolve(cwd, IF rest = <<>> THEN arg ELSE arg \o <<Space>> \o rest)
           cut  == LET spaces == {k \in DOMAIN line : line[k] = Space}
                   IN  CHOOSE k \in spaces \cup {Len(line) + 1} : \A j \in spaces : k <= j
<1>5. Answer("run", arg, rest, read_file_into(SubSeq(line, 1, cut - 1)), SubSeq(line, cut + 1, Len(line)))
  BY Zenon DEF Run
<1>6. PICK p \in Text : /\ p # <<>> /\ p[1] = Slash /\ Single(p) /\ Parts(p) = Meaning(cwd, arg)
                        /\ Parted(line, p, rest)
  BY <1>1, <1>2, <1>3, <1>4, RunSplits
<1>7. SubSeq(line, 1, cut - 1) = p /\ SubSeq(line, cut + 1, Len(line)) = rest
  BY <1>6, Zenon DEF Parted
<1> HIDE DEF line, cut
<1>8. (UnderDisk(Meaning(cwd, arg)) => AllUncut(Tail(Meaning(cwd, arg)))) =>
        read_file_into(p) = ReadAt(mounted, files, Meaning(cwd, arg))
  BY <1>6, ReadFinds
<1> QED
  BY <1>5, <1>7, <1>8 DEF Answer

LEMMA BinText ==
  ASSUME NEW name \in Text
  PROVE  BinDir \o name = (DiskPrefix \o <<Slash>>) \o ((BinName \o <<Slash>>) \o name)
<1>1. PICK d \in Text, s \in Text, b \in Text : d = DiskPrefix /\ s = <<Slash>> /\ b = BinName
  BY PrefixText, SlashText, TextConstants
<1>2. PICK v \in Text : v = d \o s
  BY TextConcat
<1>3. PICK w \in Text : w = b \o s
  BY TextConcat
<1>4. (v \o b) \o s = v \o w
  <2>1. Associates(v, b, s)
    BY TextAssociates
  <2> QED
    BY <1>3, <2>1, Zenon DEF Associates
<1>5. (v \o w) \o name = v \o (w \o name)
  <2>1. Associates(v, w, name)
    BY TextAssociates
  <2> QED
    BY <2>1, Zenon DEF Associates
<1>6. BinDir = (v \o b) \o s
  BY <1>1, <1>2 DEF BinDir
<1>7. BinDir \o name = v \o (w \o name)
  BY <1>4, <1>5, <1>6
<1> QED
  BY <1>1, <1>2, <1>3, <1>7

\* The path of a program in a directory that has one component.
LEMMA BinPath ==
  ASSUME NEW name \in Text, name # <<>>, NoSlash(name), Roomy(name)
  PROVE  LET p == Cut(BinDir \o name, Cap)
         IN  p \in Text /\ disk_subpath(p) # {} /\ Parts(One(disk_subpath(p))) = <<BinName, name>>
<1>1. PICK d \in Text, s \in Text, b \in Text :
        /\ d = DiskPrefix /\ s = <<Slash>> /\ b = BinName /\ b # <<>> /\ NoSlash(b)
  BY PrefixText, SlashText, TextConstants, ShellConstants DEF NoSlash
<1>2. PICK t \in Text : t = (b \o s) \o name /\ Parts(t) = <<b, name>>
  BY <1>1, TwoParts
<1>3. PICK p \in Text : /\ p = (d \o s) \o t /\ disk_subpath(p) # {}
                        /\ Parts(One(disk_subpath(p))) = Parts(t)
  BY <1>1, BehindPrefix
<1>4. BinDir \o name = p
  BY <1>1, <1>2, <1>3, BinText
<1>5. Cut(p, Cap) = p
  <2>1. PICK e \in Text : e = BinDir /\ Len(e \o name) = Len(e) + Len(name)
    <3>1. d \o s \in Text
      BY TextConcat
    <3>2. (d \o s) \o b \in Text
      BY <3>1, TextConcat
    <3>3. ((d \o s) \o b) \o s \in Text
      BY <3>2, TextConcat
    <3>4. BinDir = ((d \o s) \o b) \o s
      BY <1>1 DEF BinDir
    <3> QED
      BY <3>3, <3>4, TextConcat
  <2>2. Len(p) < Cap
    BY <1>4, <2>1 DEF Roomy
  <2> QED
    BY <2>2, CutAll, PathConstants
<1> QED
  BY <1>1, <1>2, <1>3, <1>4, <1>5

LEMMA BinFinds ==
  ASSUME FilesInv, NEW name \in Text, name # <<>>, NoSlash(name), Roomy(name), Uncut(name)
  PROVE  mounted =>
           read_file_into(Cut(BinDir \o name, Cap)) = Only("file", FindIn(files, <<BinName, name>>))
<1>1. PICK p \in Text : /\ p = Cut(BinDir \o name, Cap) /\ disk_subpath(p) # {}
                        /\ Parts(One(disk_subpath(p))) = <<BinName, name>>
  BY BinPath
<1>2. mounted => read_file_into(p) = fat32_read_stream_path(One(disk_subpath(p)))
  BY <1>1, Zenon DEF read_file_into
<1>3. One(disk_subpath(p)) \in Text
  BY <1>1, SubpathText
<1>4. AllUncut(<<BinName, name>>)
  <2>1. Cut(BinName, SegCap) = BinName
    BY TextConstants, ShellConstants, PathConstants, CutAll
  <2>2. Uncut(BinName)
    BY <2>1 DEF Uncut, Kept
  <2>3. PICK b, u : b = BinName /\ u = <<b, name>>
    OBVIOUS
  <2>4. DOMAIN u = 1 .. 2 /\ u[1] = b /\ u[2] = name
    BY <2>3
  <2> QED
    BY <2>2, <2>3, <2>4 DEF AllUncut
<1> QED
  BY <1>1, <1>2, <1>3, <1>4, StreamFinds

LEMMA RamFinds ==
  ASSUME NEW name \in Text, name # <<>>, NoSlash(name), Roomy(name)
  PROVE  read_file_into(Cut(RamBin \o name, Cap))
           = IF <<RamBinName, name>> \in RamFiles THEN RamNode(<<RamBinName, name>>) ELSE NoNode
<1>1. PICK s \in Text, b \in Text :
        /\ s = <<Slash>> /\ b = RamBinName /\ b # <<>> /\ NoSlash(b) /\ b # DiskName
  BY SlashText, TextConstants, ShellConstants DEF NoSlash
<1>2. PICK t \in Text : t = (b \o s) \o name /\ Parts(t) = <<b, name>>
  BY <1>1, TwoParts
<1>3. PICK p \in Text : p = s \o t /\ Parts(p) = <<b, name>>
  BY <1>1, <1>2, BelowSlash
<1>4. RamBin \o name = p
  <2>1. RamBin = (s \o b) \o s /\ s \o b \in Text
    BY <1>1, TextConcat DEF RamBin
  <2>2. ((s \o b) \o s) \o name = (s \o b) \o (s \o name)
    <3>1. Associates(s \o b, s, name)
      BY <2>1, TextAssociates
    <3> QED
      BY <3>1, Zenon DEF Associates
  <2>3. (s \o b) \o (s \o name) = s \o (b \o (s \o name))
    <3>1. PICK w \in Text : w = s \o name
      BY TextConcat
    <3>2. Associates(s, b, w)
      BY TextAssociates
    <3> QED
      BY <3>1, <3>2, Zenon DEF Associates
  <2>4. (b \o s) \o name = b \o (s \o name)
    <3>1. Associates(b, s, name)
      BY TextAssociates
    <3> QED
      BY <3>1, Zenon DEF Associates
  <2> QED
    BY <1>2, <1>3, <2>1, <2>2, <2>3, <2>4
<1>5. Cut(p, Cap) = p
  <2>1. PICK e \in Text : e = RamBin /\ Len(e \o name) = Len(e) + Len(name)
    <3>1. s \o b \in Text
      BY TextConcat
    <3>2. (s \o b) \o s \in Text
      BY <3>1, TextConcat
    <3>3. RamBin = (s \o b) \o s
      BY <1>1 DEF RamBin
    <3> QED
      BY <3>2, <3>3, TextConcat
  <2>2. Len(p) < Cap
    BY <1>4, <2>1 DEF Roomy
  <2> QED
    BY <2>2, CutAll, PathConstants
<1>6. disk_subpath(p) = {}
  <2>1. ~UnderDisk(Parts(p))
    BY <1>1, <1>3 DEF UnderDisk
  <2> QED
    BY <2>1, UnderName
<1>7. read_file_into(p) = vfs_read(p)
  BY <1>6, Zenon DEF read_file_into
<1> QED
  BY <1>1, <1>3, <1>4, <1>5, <1>7 DEF vfs_read

WordMeans(m, fs, from, name, reply) ==
  LET here == Only("file", FindIn(fs, OnDisk(Meaning(from, name))))
      bin  == Only("file", FindIn(fs, <<BinName, name>>))
      ram  == IF <<RamBinName, name>> \in RamFiles THEN RamNode(<<RamBinName, name>>) ELSE NoNode
  IN  reply = IF ~m THEN Fault
              ELSE IF here # NoNode \/ HasSlash(name) THEN here
              ELSE IF bin # NoNode THEN bin ELSE ram

LEMMA WordFinds ==
  ASSUME CwdInv, FilesInv, Absolute(cwd), NEW arg \in Text, Clean(arg),
         arg # <<>>, Plain(arg), Fits(cwd, arg), ~Clash(Meaning(cwd, arg)),
         AllUncut(OnDisk(Meaning(cwd, arg))), HasSlash(arg) \/ (Roomy(arg) /\ Uncut(arg))
  PROVE  WordMeans(mounted, files, cwd, arg, try_run(arg))
<1> DEFINE at   == OnDisk(Meaning(cwd, arg))
           here == read_file_into(Target(arg))
           bin  == read_file_into(Cut(BinDir \o arg, Cap))
           ram  == read_file_into(Cut(RamBin \o arg, Cap))
<1>1. try_run(arg) = IF here # NoNode \/ HasSlash(arg) THEN here ELSE IF bin # NoNode THEN bin ELSE ram
  BY Zenon DEF try_run
<1>3. PICK tmp \in Text : /\ tmp = Target(arg) /\ disk_subpath(tmp) # {}
                          /\ walk_path(Parts(One(disk_subpath(tmp)))) = FindIn(files, at)
  BY TargetMeans, TargetText
<1>4. here = IF mounted THEN Only("file", FindIn(files, at)) ELSE Fault
  <2>1. here = IF mounted THEN fat32_read_stream_path(One(disk_subpath(tmp))) ELSE Fault
    BY <1>3, Zenon DEF read_file_into
  <2>2. fat32_read_stream_path(One(disk_subpath(tmp))) = Only("file", FindIn(files, at))
    BY <1>3, Zenon DEF fat32_read_stream_path, Only
  <2> QED
    BY <2>1, <2>2
<1> HIDE DEF at, here, bin, ram
<1>5. CASE ~mounted
  <2>1. here = Fault /\ Fault # NoNode
    BY <1>4, <1>5 DEF Fault, NoNode
  <2> QED
    BY <1>1, <1>5, <2>1, Zenon DEF WordMeans
<1>6. CASE mounted /\ (here # NoNode \/ HasSlash(arg))
  <2>1. try_run(arg) = here /\ here = Only("file", FindIn(files, at))
    BY <1>1, <1>4, <1>6, Zenon
  <2> QED
    BY <1>6, <2>1, Zenon DEF WordMeans, at
<1>7. CASE mounted /\ here = NoNode /\ ~HasSlash(arg)
  <2>1. NoSlash(arg)
    BY <1>7 DEF HasSlash, NoSlash
  <2>2. bin = Only("file", FindIn(files, <<BinName, arg>>))
    BY <1>7, <2>1, BinFinds DEF bin
  <2>3. ram = IF <<RamBinName, arg>> \in RamFiles THEN RamNode(<<RamBinName, arg>>) ELSE NoNode
    BY <1>7, <2>1, RamFinds DEF ram
  <2>4. Only("file", FindIn(files, at)) = NoNode
    BY <1>4, <1>7
  <2>5. try_run(arg) = IF bin # NoNode THEN bin ELSE ram
    BY <1>1, <1>7, Zenon
  <2> QED
    BY <1>7, <2>2, <2>3, <2>4, <2>5, Zenon DEF WordMeans, at
<1> QED
  BY <1>5, <1>6, <1>7

LEMMA WordAnswers ==
  ASSUME CwdInv, FilesInv, Absolute(cwd), NEW arg \in Args, Program(arg, <<>>),
         arg # <<>>, Plain(arg), Fits(cwd, arg), ~Clash(Meaning(cwd, arg)),
         AllUncut(OnDisk(Meaning(cwd, arg))), HasSlash(arg) \/ (Roomy(arg) /\ Uncut(arg))
  PROVE  WordMeans(mounted, files, cwd, arg, last'.reply)
<1>1. last'.reply = try_run(arg)
  BY DEF Program, Answer
<1>2. arg \in Text /\ Clean(arg)
  BY ArgsClean
<1> QED
  BY <1>1, <1>2, WordFinds

RunsIn(m, fs, l) ==
  /\ l.cmd = "word" /\ l.arg # <<>> /\ Plain(l.arg) /\ Fits(l.from, l.arg)
     /\ ~Clash(Meaning(l.from, l.arg)) /\ (HasSlash(l.arg) \/ (Roomy(l.arg) /\ Uncut(l.arg)))
     /\ AllUncut(OnDisk(Meaning(l.from, l.arg))) =>
       WordMeans(m, fs, l.from, l.arg, l.reply)
  /\ l.cmd = "run" /\ Plain(l.arg \o <<Space>> \o l.rest) /\ Fits(l.from, l.arg \o <<Space>> \o l.rest)
     /\ Plain(l.arg) /\ Plain(l.rest) /\ NoDots(l.rest) /\ Spaceless(l.from) /\ Spaceless(l.arg)
     /\ (l.rest = <<>> \/ (Last(l.arg) # "." /\ Last(l.rest) # Slash)) =>
       /\ l.passed = l.rest
       /\ (UnderDisk(Meaning(l.from, l.arg)) => AllUncut(Tail(Meaning(l.from, l.arg)))) =>
            l.reply = ReadAt(m, fs, Meaning(l.from, l.arg))

LEMMA RunsOutcome ==
  /\ RunsFirstFound <=> RunsIn(mounted, files, last)
  /\ RunsFirstFound' <=> RunsIn(mounted', files', last')
BY DEF RunsFirstFound, RunsIn, WordMeans, ReadAt, Clear, Find, FindIn

LEMMA NothingRuns ==
  ASSUME NEW m, NEW fs
  PROVE  RunsIn(m, fs, Nothing)
BY DEF RunsIn, Nothing

LEMMA CommandRuns ==
  ASSUME CwdInv, FilesInv, Absolute(cwd), Command
  PROVE  RunsIn(mounted', files', last')
<1> PICK arg \in Args : Cd(arg) \/ Ls(arg) \/ Cat(arg) \/ (\E rest \in Rests : Run(arg, rest))
                        \/ Program(arg, <<>>)
  BY DEF Command
<1>1. CASE Cd(arg) \/ Ls(arg) \/ Cat(arg)
  <2>1. PICK cmd, reply : cmd \in {"cd", "ls", "cat"} /\ Answer(cmd, arg, <<>>, reply, <<>>)
    BY <1>1 DEF Cd, Ls, Cat
  <2>2. last'.cmd \in {"cd", "ls", "cat"}
    BY <2>1 DEF Answer
  <2> QED
    BY <2>2 DEF RunsIn
<1>2. CASE \E rest \in Rests : Run(arg, rest)
  <2>1. PICK rest \in Rests : Run(arg, rest)
    BY <1>2
  <2>2. PICK reply, passed : Answer("run", arg, rest, reply, passed)
    BY <2>1 DEF Run
  <2>3. /\ mounted' = mounted /\ files' = files
        /\ last'.cmd = "run" /\ last'.from = cwd /\ last'.arg = arg /\ last'.rest = rest
    BY <2>2 DEF Answer
  <2> QED
    BY <2>1, <2>3, RunAnswers DEF RunsIn
<1>3. CASE Program(arg, <<>>)
  <2>1. PICK reply : Answer("word", arg, <<>>, reply, <<>>)
    BY <1>3 DEF Program
  <2>2. /\ mounted' = mounted /\ files' = files
        /\ last'.cmd = "word" /\ last'.from = cwd /\ last'.arg = arg
    BY <2>1 DEF Answer
  <2> QED
    BY <1>3, <2>2, WordAnswers DEF RunsIn
<1> QED
  BY <1>1, <1>2, <1>3

LEMMA InitRuns == Init => RunsFirstFound
BY NothingRuns, RunsOutcome DEF Init

LEMMA NextRuns ==
  ASSUME PathsInv, RunsFirstFound, [Next]_vars
  PROVE  RunsFirstFound'
<1>1. CASE last' = Nothing
  BY <1>1, NothingRuns, RunsOutcome
<1>2. CASE Boot
  <2>1. last' = last /\ SetupStep
    BY <1>2 DEF Boot, shell
  <2>2. stage \in {"slave", "master", "mbr", "mount"}
    BY <2>1 DEF SetupStep, ProbeSlave, ProbeMaster, ReadTable, Mount
  <2> QED
    BY <1>1, <2>1, <2>2 DEF PathsInv, Idle
<1>3. CASE Prompt \/ Exit \/ \E path \in SavePaths : Save(path)
  BY <1>1, <1>3 DEF Prompt, Exit, Save
<1>4. CASE Command
  BY <1>4, CommandRuns, RunsOutcome DEF PathsInv, ShellInv
<1>5. CASE UNCHANGED vars
  <2>1. UNCHANGED <<mounted, files, last>>
    BY <1>5 DEF vars, setup, shell
  <2> QED
    BY <2>1, RunsOutcome
<1> QED
  BY <1>2, <1>3, <1>4, <1>5 DEF Next

\* Whatever is typed in whatever directory, a word runs the first program of its
\* name in the three places, and run starts the file its path means and hands
\* over the rest of the line as it was typed, although path_resolve reduced both
\* as one path; on the disk, for components that seg11 leaves whole
\* (commands.c:200-226 and 306-321, paths.c:5-29, fat32_path.c:31-33).
THEOREM RunsAreFirstFound == Spec => []RunsFirstFound
<1>1. Spec => []PathsInv
  BY InitPaths, NextPaths, PTL DEF Spec
<1>2. PathsInv /\ RunsFirstFound /\ [Next]_vars => RunsFirstFound'
  BY NextRuns
<1> QED
  BY <1>1, <1>2, InitRuns, PTL DEF Spec

-----------------------------------------------------------------------------
(* Where a save goes.                                                        *)

\* The path that a save makes of its argument, and what of it lies below the
\* disk's name.
SaveAbs(path) == force_disk_abs(IF path[1] = Slash THEN Cut(path, Cap)
                                ELSE Cut(DiskPrefix \o <<Slash>> \o path, Cap))
BelowName(abs) == LET rest == SubSeq(abs, Len(DiskPrefix) + 1, Len(abs))
                  IN  IF rest # <<>> /\ rest[1] = Slash THEN Tail(rest) ELSE rest

LEMMA SavedToBelow ==
  ASSUME NEW path
  PROVE  SavedTo(path) = IF Redirected(BelowName(SaveAbs(path)))
                         THEN disk_subpath(Cut(BinDir \o BelowName(SaveAbs(path)), Cap))
                         ELSE disk_subpath(SaveAbs(path))
BY Zenon DEF SavedTo, SaveAbs, BelowName

LEMMA BelowText ==
  ASSUME NEW abs \in Text, disk_subpath(abs) # {}
  PROVE  /\ BelowName(abs) \in Text
         /\ Parts(BelowName(abs)) = Parts(One(disk_subpath(abs)))
         /\ \/ abs = DiskPrefix /\ BelowName(abs) = <<>>
            \/ abs = (DiskPrefix \o <<Slash>>) \o BelowName(abs)
<1> DEFINE rest == SubSeq(abs, Len(DiskPrefix) + 1, Len(abs))
           s    == IF rest # <<>> /\ rest[1] = Slash THEN Tail(rest) ELSE rest
<1>1. BelowName(abs) = s
  BY Zenon DEF BelowName
<1>2. disk_subpath(abs) = CASE rest = <<>> -> {<<Slash>>}
                            [] rest # <<>> /\ rest[1] = Slash -> {Tail(rest)}
                            [] OTHER -> {}
  BY DEF disk_subpath
<1>3. CASE abs = DiskPrefix
  <2>1. PICK n \in Nat : n = Len(abs) /\ rest = SubSeq(abs, n + 1, n)
    BY <1>3, TextParts
  <2>2. rest = <<>>
    <3>1. SubSeq(abs, n + 1, n) \in Text /\ Len(SubSeq(abs, n + 1, n)) = 0
      <4>1. n + 1 \in 1 .. Len(abs) + 1 /\ n \in 0 .. Len(abs) /\ (n + 1) - 1 <= n /\ n - (n + 1) + 1 = 0
        BY <2>1
      <4> QED
        BY <4>1, TextParts
    <3> QED
      BY <2>1, <3>1, EmptySeq DEF Text
  <2> HIDE DEF rest
  <2>3. s = <<>>
    BY <2>2
  <2>4. One(disk_subpath(abs)) = <<Slash>>
    BY <1>2, <2>2 DEF One
  <2> QED
    BY <1>1, <1>3, <2>3, <2>4, PartsOfSlash, PartsOfNothing, SlashText
<1>4. CASE abs # DiskPrefix
  <2>1. One(disk_subpath(abs)) \in Text /\ abs = (DiskPrefix \o <<Slash>>) \o One(disk_subpath(abs))
    BY <1>4, SubpathText
  <2>2. rest # <<>>
    <3>1. ASSUME rest = <<>> PROVE FALSE
      <4>0. IsPrefix(DiskPrefix, abs)
        BY DEF disk_subpath
      <4>1. PICK n \in Nat, m \in Nat : n = Len(DiskPrefix) /\ m = Len(abs) /\ m >= n
              /\ \A k \in 1 .. n : abs[k] = DiskPrefix[k]
        BY <4>0, PrefixMeans, PrefixText, TextParts
      <4>2. m = n
        <5>1. CASE m > n
          <6>1. n + 1 \in 1 .. Len(abs) + 1 /\ m \in 0 .. Len(abs) /\ (n + 1) - 1 <= m
            BY <4>1, <5>1
          <6>2. Len(SubSeq(abs, n + 1, m)) = m - (n + 1) + 1
            BY <6>1, TextParts
          <6>3. SubSeq(abs, n + 1, m) = <<>>
            BY <3>1, <4>1
          <6>4. Len(<<>>) = 0
            OBVIOUS
          <6>5. 0 = m - (n + 1) + 1
            BY <6>2, <6>3, <6>4, Zenon
          <6> QED
            BY <6>5
        <5> QED
          BY <4>1, <5>1
      <4>3. abs = DiskPrefix
        BY <4>1, <4>2, PrefixText, TextSame
      <4> QED
        BY <1>4, <4>3
    <3> QED
      BY <3>1
  <2> HIDE DEF rest
  <2>3. rest[1] = Slash
    BY <1>2, <2>2
  <2>4. s = Tail(rest)
    BY <2>2, <2>3
  <2>5. One(disk_subpath(abs)) = Tail(rest)
    <3>1. disk_subpath(abs) = {Tail(rest)}
      BY <1>2, <2>2, <2>3
    <3> QED
      BY <3>1, Zenon DEF One
  <2> QED
    BY <1>1, <2>1, <2>4, <2>5
<1> QED
  BY <1>3, <1>4

LEMMA BinDirText == BinDir \in Text /\ Len(BinDir) = Len(DiskPrefix) + Len(BinName) + 2
<1>1. PICK d \in Text, s \in Text, b \in Text : d = DiskPrefix /\ s = <<Slash>> /\ b = BinName /\ Len(s) = 1
  BY PrefixText, SlashText, TextConstants
<1>2. PICK v \in Text : v = d \o s /\ Len(v) = Len(d) + Len(s)
  BY TextConcat
<1>3. PICK w \in Text : w = v \o b /\ Len(w) = Len(v) + Len(b)
  BY TextConcat
<1>4. PICK x \in Text : x = w \o s /\ Len(x) = Len(w) + Len(s)
  BY TextConcat
<1>5. Len(d) \in Nat /\ Len(b) \in Nat
  BY TextParts
<1> QED
  BY <1>1, <1>2, <1>3, <1>4, <1>5 DEF BinDir

LEMMA RoomySizes ==
  ASSUME NEW path \in Text, Roomy(path)
  PROVE  Len(path) + Len(DiskPrefix) + 2 < Cap
<1>1. PICK d \in Nat, b \in Nat, n \in Nat : d = Len(DiskPrefix) /\ b = Len(BinName) /\ n = Len(path)
  BY PrefixText, TextConstants, TextParts
<1>2. Len(BinDir) + Len(path) < Cap
  BY DEF Roomy
<1> QED
  BY <1>1, <1>2, BinDirText, PathConstants

\* A path that is whole: what a save makes of it, and what it names.
Saveable(path) == /\ path \in Text /\ path # <<>> /\ Roomy(path) /\ Plain(path)
                  /\ path[1] = Slash => ~Clash(Parts(path))

LEMMA SaveView ==
  ASSUME NEW path, Saveable(path)
  PROVE  LET abs == SaveAbs(path)
             s   == BelowName(abs)
         IN  /\ abs \in Text /\ disk_subpath(abs) # {} /\ s \in Text
             /\ Parts(One(disk_subpath(abs))) = Named(path) /\ Parts(s) = Named(path)
             /\ path[1] # Slash => s = path
             /\ path[1] = Slash => IF IsPrefix(DiskPrefix, path)
                                   THEN s = <<>> \/ path = (DiskPrefix \o <<Slash>>) \o s
                                   ELSE path = <<Slash>> \o s
<1> DEFINE abs == SaveAbs(path)
           s   == BelowName(abs)
<1>1. path \in Text /\ path # <<>> /\ Roomy(path) /\ Plain(path)
  BY DEF Saveable
<1>2. PICK d \in Text, e \in Text : d = DiskPrefix /\ e = d \o <<Slash>> /\ Len(e) = Len(d) + 1
  BY PrefixText, SlashText, TextConcat
<1>3. PICK n \in Nat, m \in Nat, C \in Nat : n = Len(d) /\ m = Len(path) /\ C = Cap /\ m >= 1 /\ m + n + 2 < C
  BY <1>1, <1>2, RoomySizes, TextParts, PathConstants
<1>4. CASE path[1] # Slash
  <2>1. PICK p \in Text : p = e \o path /\ disk_subpath(p) # {} /\ Parts(One(disk_subpath(p))) = Parts(path)
                          /\ Len(p) = n + 1 + m
    <3>1. e \o path \in Text /\ Len(e \o path) = Len(e) + Len(path)
      BY <1>1, TextConcat
    <3>2. disk_subpath(e \o path) # {} /\ Parts(One(disk_subpath(e \o path))) = Parts(path)
      BY <1>1, <1>2, BehindPrefix
    <3> QED
      BY <1>2, <1>3, <3>1, <3>2
  <2>2. abs = p
    <3>0. Len(p) < Cap /\ Cap \in Nat
      BY <1>3, <2>1
    <3>1. Cut(p, Cap) = p
      BY <2>1, <3>0, CutAll
    <3>2. DiskPrefix \o <<Slash>> \o path = p
      BY <1>2, <2>1
    <3>3. force_disk_abs(p) = p
      BY <2>1 DEF disk_subpath, force_disk_abs
    <3> QED
      BY <1>4, <3>1, <3>2, <3>3 DEF SaveAbs
  <2>3. p # DiskPrefix
    BY <1>2, <1>3, <2>1
  <2>4. s \in Text /\ p = e \o s /\ Parts(s) = Parts(path)
    BY <1>2, <2>1, <2>2, <2>3, BelowText
  <2> HIDE DEF s
  <2>5. s = path
    BY <1>1, <2>1, <2>4, TextCancels
  <2>6. Named(path) = Parts(path)
    BY <1>4 DEF Named
  <2> QED
    BY <1>4, <2>1, <2>2, <2>4, <2>5, <2>6 DEF s
<1>5. CASE path[1] = Slash
  <2>0. Named(path) = OnDisk(Parts(path))
    BY <1>5 DEF Named
  <2>1. abs = force_disk_abs(path)
    <3>1. Cut(path, Cap) = path
      BY <1>1, <1>3, CutAll
    <3> QED
      BY <1>5, <3>1 DEF SaveAbs
  <2>2. abs \in Text /\ disk_subpath(abs) # {} /\ Parts(One(disk_subpath(abs))) = OnDisk(Parts(path))
    <3>1. Single(path)
      BY <1>1 DEF Plain, Single
    <3>2. ~Clash(Parts(path)) /\ Len(path) + Len(DiskPrefix) < Cap
      BY <1>2, <1>3, <1>5 DEF Saveable
    <3> QED
      BY <1>1, <1>5, <2>1, <3>1, <3>2, DiskView
  <2> HIDE DEF abs
  <2>3. s \in Text /\ Parts(s) = OnDisk(Parts(path))
        /\ ((abs = d /\ s = <<>>) \/ abs = e \o s)
    BY <1>2, <2>2, BelowText
  <2>4. CASE IsPrefix(DiskPrefix, path)
    <3>1. abs = path
      BY <2>1, <2>4 DEF force_disk_abs
    <3> QED
      BY <1>2, <1>5, <2>0, <2>2, <2>3, <2>4, <3>1 DEF abs
  <2>5. CASE ~IsPrefix(DiskPrefix, path)
    <3>1. PICK t \in Text : path = <<Slash>> \o t
      BY <1>1, <1>5, SlashFirst
    <3>2. d \o path \in Text /\ Len(d \o path) = n + m
      BY <1>1, <1>3, TextConcat
    <3>3. abs = d \o path
      <4>1. DiskPrefix \o <<>> = DiskPrefix
        BY <1>2 DEF Text
      <4>2. abs = Cut(DiskPrefix \o (IF path[1] = Slash THEN <<>> ELSE <<Slash>>) \o path, Cap)
        BY <2>1, <2>5 DEF force_disk_abs
      <4>3. abs = Cut(d \o path, Cap)
        BY <1>2, <1>5, <4>1, <4>2
      <4>4. Len(d \o path) < Cap /\ Cap \in Nat
        BY <1>3, <3>2
      <4> QED
        BY <3>2, <4>3, <4>4, CutAll
    <3>4. d \o path = e \o t
      <4>1. Associates(d, <<Slash>>, t)
        BY SlashText, TextAssociates
      <4> QED
        BY <1>2, <3>1, <4>1, Zenon DEF Associates
    <3>5. abs # d
      BY <1>3, <3>2, <3>3
    <3> HIDE DEF s
    <3>6. s = t
      BY <2>3, <3>3, <3>4, <3>5, TextCancels
    <3> QED
      BY <1>5, <2>0, <2>2, <2>3, <2>5, <3>1, <3>6 DEF abs, s
  <2> QED
    BY <2>4, <2>5
<1> QED
  BY <1>4, <1>5

LEMMA RedirectedName ==
  ASSUME NEW s \in Text, Redirected(s)
  PROVE  s # <<>> /\ NoSlash(s) /\ Parts(s) = Append(<<>>, s)
<1>1. NoSlash(s)
  BY DEF Redirected, HasSlash, NoSlash
<1>2. s # <<>>
  <2> SUFFICES ASSUME s = <<>> PROVE FALSE
    OBVIOUS
  <2>1. PICK u : u = [k \in DOMAIN s |-> Upper(s[k])]
    OBVIOUS
  <2>2. u = <<>>
    BY <2>1
  <2>3. IsSuffix(ElfExt, u)
    BY <2>1 DEF Redirected
  <2>4. PICK r \in Text : r = ElfExt /\ r # <<>>
    BY TextConstants, ShellConstants
  <2>5. PICK n \in Nat : n = Len(r) /\ n >= 1
    BY <2>4, TextParts
  <2>6. Len(Reverse(r)) = n
    BY <2>5 DEF Reverse
  <2>7. Len(Reverse(u)) = 0
    BY <2>2 DEF Reverse
  <2>8. Len(Reverse(r)) <= Len(Reverse(u))
    BY <2>3, <2>4 DEF IsSuffix, IsPrefix
  <2> QED
    BY <2>5, <2>6, <2>7, <2>8
<1> QED
  BY <1>1, <1>2, OnePart

\* A path without slashes behind a text that has one.
LEMMA BareName ==
  ASSUME NEW path, Saveable(path), Bare(path)
  PROVE  BelowName(SaveAbs(path)) = Named(path)[1]
<1>1. PICK s \in Text : /\ s = BelowName(SaveAbs(path)) /\ Parts(s) = Named(path)
                        /\ path[1] # Slash => s = path
                        /\ path[1] = Slash => IF IsPrefix(DiskPrefix, path)
                                              THEN s = <<>> \/ path = (DiskPrefix \o <<Slash>>) \o s
                                              ELSE path = <<Slash>> \o s
  BY SaveView
<1>0. s # <<>> /\ Named(path)[1] \in Text
  <2>1. PICK q \in Seq(Text) : q = Named(path) /\ q = Parts(s) /\ Len(q) = 1
    BY <1>1, PartsText DEF Bare
  <2>2. q # <<>> /\ q[1] \in Text
    <3>1. 1 \in 1 .. Len(q)
      BY <2>1
    <3>2. q[1] \in Text
      BY <3>1
    <3>3. Len(<<>>) = 0 /\ 0 # 1
      OBVIOUS
    <3>4. q # <<>>
      BY <2>1, <3>3, Zenon
    <3> QED
      BY <3>2, <3>4
  <2>3. s # <<>>
    BY <2>1, <2>2, PartsOfNothing
  <2> QED
    BY <2>1, <2>2, <2>3
<1>2. PICK c \in Text : c = Named(path)[1]
  BY <1>0
<1>3. c # <<>> /\ NoSlash(c)
  BY <1>2, RedirectedName DEF Bare
<1>4. path \in Text /\ path # <<>>
  BY DEF Saveable
<1>5. PICK d \in Text, e \in Text, n \in Nat, m \in Nat :
        /\ d = DiskPrefix /\ e = d \o <<Slash>> /\ n = Len(d) /\ Len(e) = n + 1 /\ m = Len(c)
        /\ n >= 1 /\ e[1] = Slash /\ e[n + 1] = Slash /\ m >= 1
  <2>1. PICK d \in Text, n \in Nat : d = DiskPrefix /\ n = Len(d) /\ n >= 1 /\ d[1] = Slash
    BY PrefixText, PrefixTidy, TextParts
  <2>2. PICK o \in Text : o = <<Slash>> /\ Len(o) = 1 /\ o[1] = Slash
    BY SlashText
  <2>3. PICK e \in Text : e = d \o o /\ Joins(d, o, n, 1)
    BY <2>1, <2>2, TextJoins, TextConcat, ZenonT(40)
  <2>4. Len(e) = n + 1 /\ e[1] = Slash /\ e[n + 1] = Slash
    <3>1. 1 \in 1 .. n /\ 1 \in 1 .. 1
      BY <2>1
    <3> QED
      BY <2>1, <2>2, <2>3, <3>1 DEF Joins
  <2>5. Len(c) \in Nat /\ Len(c) >= 1
    BY <1>3, TextParts
  <2> QED
    BY <2>1, <2>2, <2>3, <2>4, <2>5
<1>6. CASE path = <<>> \o c
  <2>1. path = c /\ 1 \in DOMAIN c
    BY <1>3, <1>6 DEF Text
  <2>2. path[1] # Slash
    BY <1>3, <2>1 DEF NoSlash
  <2> QED
    BY <1>1, <1>2, <2>1, <2>2
<1>7. CASE path = <<Slash>> \o c
  <2>1. PICK o \in Text : o = <<Slash>> /\ Len(o) = 1 /\ o[1] = Slash
    BY SlashText
  <2>2. Joins(o, c, 1, m) /\ path = o \o c
    BY <1>5, <1>7, <2>1, TextJoins
  <2>3. path[1] = Slash /\ Len(path) = 1 + m /\ \A k \in 1 .. m : path[1 + k] = c[k]
    <3>1. 1 \in 1 .. 1
      OBVIOUS
    <3> QED
      BY <2>1, <2>2, <3>1 DEF Joins
  <2>5. ~IsPrefix(DiskPrefix, path)
    <3> SUFFICES ASSUME IsPrefix(DiskPrefix, path) PROVE FALSE
      OBVIOUS
    <3>1. path = e \o s
      BY <1>0, <1>1, <1>5, <2>3
    <3>2. PICK l \in Nat : l = Len(s)
      BY TextParts
    <3>3. Joins(e, s, n + 1, l)
      BY <1>5, <3>2, TextJoins
    <3>4. path[n + 1] = Slash /\ Len(path) = n + 1 + l
      <4>1. n + 1 \in 1 .. n + 1
        OBVIOUS
      <4> QED
        BY <1>5, <3>1, <3>3, <4>1 DEF Joins
    <3>5. n \in 1 .. m /\ 1 + n = n + 1
      BY <1>5, <2>3, <3>2, <3>4
    <3>6. c[n] = Slash
      BY <2>3, <3>4, <3>5
    <3>7. n \in DOMAIN c
      BY <1>5, <3>5, TextDomain
    <3> QED
      BY <1>3, <3>6, <3>7 DEF NoSlash
  <2>6. o \o c = o \o s
    BY <1>1, <2>1, <2>2, <2>3, <2>5
  <2> QED
    BY <1>1, <1>2, <2>6, TextCancels
<1>8. CASE path = (DiskPrefix \o <<Slash>>) \o c
  <2>1. path = e \o c
    BY <1>5, <1>8
  <2>2. path[1] = Slash
    <3>1. Joins(e, c, Len(e), Len(c))
      BY TextJoins
    <3>2. 1 \in 1 .. n + 1
      BY <1>5
    <3> QED
      BY <1>5, <2>1, <3>1, <3>2 DEF Joins
  <2>3. IsPrefix(DiskPrefix, path)
    <3>1. disk_subpath(path) # {}
      BY <1>8, BehindPrefix
    <3> QED
      BY <3>1 DEF disk_subpath
  <2>5. e \o c = e \o s
    BY <1>0, <1>1, <1>5, <2>1, <2>2, <2>3
  <2> QED
    BY <1>1, <1>2, <2>5, TextCancels
<1> QED
  BY <1>2, <1>6, <1>7, <1>8 DEF Bare

LEMMA BareRedirects ==
  ASSUME NEW path, Saveable(path), Redirected(BelowName(SaveAbs(path)))
  PROVE  Bare(path)
<1>1. PICK s \in Text : /\ s = BelowName(SaveAbs(path)) /\ Parts(s) = Named(path)
                        /\ path[1] # Slash => s = path
                        /\ path[1] = Slash => IF IsPrefix(DiskPrefix, path)
                                              THEN s = <<>> \/ path = (DiskPrefix \o <<Slash>>) \o s
                                              ELSE path = <<Slash>> \o s
  BY SaveView
<1>2. s # <<>> /\ Named(path) = Append(<<>>, s)
  BY <1>1, RedirectedName
<1>3. Len(Named(path)) = 1 /\ Named(path)[1] = s
  BY <1>2
<1>4. \E pre \in {<<>>, <<Slash>>, DiskPrefix \o <<Slash>>} : path = pre \o s
  <2>1. <<>> \o s = s
    BY DEF Text
  <2> QED
    BY <1>1, <1>2, <2>1
<1> QED
  BY <1>1, <1>3, <1>4 DEF Bare

LEMMA SaveLess ==
  ASSUME NEW path, Saveable(path)
  PROVE  Len(BelowName(SaveAbs(path))) <= Len(path)
<1>1. PICK s \in Text : /\ s = BelowName(SaveAbs(path))
                        /\ path[1] # Slash => s = path
                        /\ path[1] = Slash => IF IsPrefix(DiskPrefix, path)
                                              THEN s = <<>> \/ path = (DiskPrefix \o <<Slash>>) \o s
                                              ELSE path = <<Slash>> \o s
  BY SaveView
<1>2. PICK m \in Nat, l \in Nat : m = Len(path) /\ l = Len(s)
  BY TextParts DEF Saveable
<1>3. ASSUME NEW e \in Text, path = e \o s PROVE l <= m
  <2>1. PICK k \in Nat : k = Len(e)
    BY TextParts
  <2>2. Len(e \o s) = Len(e) + Len(s)
    BY TextConcat
  <2> QED
    BY <1>2, <1>3, <2>1, <2>2
<1>4. <<Slash>> \in Text /\ DiskPrefix \o <<Slash>> \in Text
  BY PrefixText, SlashText, TextConcat
<1>5. CASE s = <<>>
  BY <1>1, <1>2, <1>5
<1> QED
  BY <1>1, <1>2, <1>3, <1>4, <1>5

LEMMA RamBinText == RamBin \in Text
<1>1. <<Slash>> \o RamBinName \in Text
  BY SlashText, TextConstants, TextConcat
<1> QED
  BY <1>1, SlashText, TextConcat DEF RamBin

LEMMA SavePlace ==
  ASSUME NEW path, Saveable(path)
  PROVE  SavedTo(path) # {} /\ Parts(One(SavedTo(path))) = Place(path)
<1>1. PICK s \in Text : s = BelowName(SaveAbs(path)) /\ Parts(s) = Named(path)
  BY SaveView
<1>2. CASE Redirected(s)
  <2>1. s # <<>> /\ NoSlash(s)
    BY <1>2, RedirectedName
  <2>2. Roomy(s)
    <3>1. PICK m \in Nat, l \in Nat : m = Len(path) /\ l = Len(s)
      BY TextParts DEF Saveable
    <3>2. l <= m
      BY <1>1, <3>1, SaveLess
    <3>3. PICK b \in Nat, r \in Nat : b = Len(BinDir) /\ r = Len(RamBin)
      BY BinDirText, RamBinText, TextParts
    <3> QED
      BY <3>1, <3>2, <3>3, PathConstants DEF Roomy, Saveable
  <2>3. Bare(path)
    BY <1>1, <1>2, BareRedirects
  <2>4. Place(path) = <<BinName, s>>
    BY <1>1, <2>3, BareName DEF Place
  <2>5. SavedTo(path) = disk_subpath(Cut(BinDir \o s, Cap))
    BY <1>1, <1>2, SavedToBelow
  <2> QED
    BY <2>1, <2>2, <2>4, <2>5, BinPath
<1>3. CASE ~Redirected(s)
  <2>1. ~Bare(path)
    BY <1>1, <1>3, BareName DEF Bare
  <2>2. SavedTo(path) = disk_subpath(SaveAbs(path))
    BY <1>1, <1>3, SavedToBelow
  <2> QED
    BY <2>1, <2>2, SaveView DEF Place
<1> QED
  BY <1>2, <1>3

-----------------------------------------------------------------------------
(* The file a save writes.                                                   *)

LEMMA SplitsLast ==
  ASSUME NEW parts \in Seq(Text), parts # <<>>
  PROVE  /\ Front(parts) \in Seq(Text) /\ Last(parts) \in Text
         /\ parts = Append(Front(parts), Last(parts))
<1>1. PICK n \in Nat : n = Len(parts) /\ n >= 1 /\ n \in 1 .. n /\ DOMAIN parts = 1 .. n
  OBVIOUS
<1>2. \A k \in 1 .. n - 1 : k \in 1 .. n
  BY <1>1
<1>3. PICK l \in Text : l = parts[n] /\ l = Last(parts)
  BY <1>1 DEF Last
<1>4. PICK u \in Seq(Text) : u = Front(parts) /\ Len(u) = n - 1 /\ \A k \in 1 .. n - 1 : u[k] = parts[k]
  <2>1. PICK m \in Nat : m = n - 1
    BY <1>1
  <2>2. \A k \in 1 .. m : k \in 1 .. n /\ parts[k] \in Text
    BY <1>1, <2>1
  <2>3. Front(parts) = SubSeq(parts, 1, m)
    BY <1>1, <2>1 DEF Front
  <2>4. /\ SubSeq(parts, 1, m) \in Seq(Text) /\ Len(SubSeq(parts, 1, m)) = m
        /\ \A k \in 1 .. m : SubSeq(parts, 1, m)[k] = parts[k]
    BY <1>1, <2>1, <2>2
  <2> QED
    BY <2>1, <2>3, <2>4
<1>5. PICK v \in Seq(Text) : v = Append(u, l) /\ Len(v) = n /\ v[n] = l /\ \A k \in 1 .. n - 1 : v[k] = u[k]
  <2>1. /\ Append(u, l) \in Seq(Text) /\ Len(Append(u, l)) = Len(u) + 1
        /\ \A i \in 1 .. Len(u) + 1 : Append(u, l)[i] = IF i <= Len(u) THEN u[i] ELSE l
    BY AppendProperties
  <2>2. Len(u) + 1 = n /\ n \in 1 .. n /\ ~(n <= Len(u)) /\ \A k \in 1 .. n - 1 : k \in 1 .. n /\ k <= Len(u)
    BY <1>1, <1>4
  <2> QED
    BY <2>1, <2>2
<1>6. \A k \in 1 .. n : v[k] = parts[k]
  <2>1. \A k \in 1 .. n : k = n \/ k \in 1 .. n - 1
    BY <1>1
  <2> QED
    BY <1>3, <1>4, <1>5, <2>1
<1>7. v = parts
  BY <1>1, <1>5, <1>6, SeqEqual
<1> QED
  BY <1>3, <1>4, <1>5, <1>7

Key(comps) == <<Front(Fields(comps)), Last(Fields(comps))>>
SaveParts(path) == Parts(One(SavedTo(path)))

LEMMA KeySplits ==
  ASSUME NEW comps \in Seq(Text), comps # <<>>
  PROVE  /\ Key(comps) = <<Fields(Front(comps)), up11(Last(comps))>>
         /\ Fields(comps) # <<>>
         /\ Fields(comps) = Append(Key(comps)[1], Key(comps)[2])
<1>1. PICK u \in Seq(Text), l \in Text : u = Front(comps) /\ l = Last(comps) /\ comps = Append(u, l)
  BY SplitsLast
<1>2. PICK f \in Seq(Names), x \in Names, h \in Seq(Names) :
         f = Fields(u) /\ x = up11(l) /\ h = Append(f, x) /\ h = Fields(comps)
  <2>1. Fields(u) \in Seq(Names) /\ up11(l) \in Names
    BY FieldsSeq, NameOfText
  <2>2. Append(Fields(u), up11(l)) \in Seq(Names)
    BY <2>1, AppendProperties
  <2>3. Fields(Append(u, l)) = Append(Fields(u), up11(l))
    BY FieldsAppend
  <2>4. PICK f \in Seq(Names), x \in Names : f = Fields(u) /\ x = up11(l)
    BY <2>1
  <2>5. PICK h \in Seq(Names) : h = Append(f, x)
    BY <2>2, <2>4
  <2>6. h = Fields(comps)
    BY <1>1, <2>3, <2>4, <2>5
  <2> QED
    BY <2>4, <2>5, <2>6
<1>3. h # <<>> /\ Last(h) = x /\ Front(h) = f
  BY <1>2, AppendSome DEF Last
<1>4. Key(comps) = <<f, x>>
  BY <1>2, <1>3 DEF Key
<1>5. Key(comps)[1] = f /\ Key(comps)[2] = x
  BY <1>4
<1> QED
  BY <1>1, <1>2, <1>3, <1>4, <1>5

LEMMA SaveKey ==
  ASSUME NEW path \in SavePaths, Save(path)
  PROVE  /\ mounted /\ path # <<>> /\ SavedTo(path) # {} /\ SaveParts(path) # <<>>
         /\ files' = With(files, Key(SaveParts(path)), saves + 1)
         /\ saved' = With(saved, path, saves + 1) /\ saves' = saves + 1
<1>1. path \in Text /\ path # <<>> /\ SavedTo(path) # {}
  BY TextConstants DEF Save
<1>2. PICK parts \in Seq(Text) : parts = SaveParts(path)
  BY <1>1, SavedToText, PartsText DEF SaveParts
<1>3. /\ parts # <<>> /\ Walk(Front(parts))[1] = "dir"
      /\ files' = With(files, <<Walk(Front(parts))[2], up11(Last(parts))>>, saves + 1)
      /\ saves' = saves + 1 /\ saved' = With(saved, path, saves + 1) /\ mounted
  BY <1>2 DEF Save, SaveParts
<1>4. Walk(Front(parts))[2] = Fields(Front(parts))
  <2>1. Walk(Front(parts)) = DirNode(Fields(Front(parts)))
    BY <1>3, SplitsLast, WalkEnds
  <2> QED
    BY <2>1 DEF DirNode
<1>5. Key(parts) = <<Walk(Front(parts))[2], up11(Last(parts))>>
  BY <1>3, <1>4, KeySplits
<1> QED
  BY <1>1, <1>2, <1>3, <1>5

-----------------------------------------------------------------------------
(* What is in a file is what was saved there last.                           *)

Written(fs, sv, p) ==
  /\ p # <<>> /\ SavedTo(p) # {} /\ SaveParts(p) # <<>>
  /\ Key(SaveParts(p)) \in DOMAIN fs
  /\ sv[p] <= fs[Key(SaveParts(p))]
  /\ \E q \in DOMAIN sv : Key(SaveParts(q)) = Key(SaveParts(p)) /\ sv[q] = fs[Key(SaveParts(p))]

SavesInv == /\ \A p \in DOMAIN saved : Written(files, saved, p)
            /\ DOMAIN saved # {} => mounted

LEMMA SaveWrites ==
  ASSUME FilesInv, SavesInv, NEW path \in SavePaths, Save(path)
  PROVE  \A p \in DOMAIN saved' : Written(files', saved', p)
<1>1. PICK x : x = Key(SaveParts(path))
  OBVIOUS
<1>2. PICK n \in Nat : n = saves
  BY DEF FilesInv
<1>3. /\ path # <<>> /\ SavedTo(path) # {} /\ SaveParts(path) # <<>>
      /\ files' = With(files, x, n + 1) /\ saved' = With(saved, path, n + 1)
  BY <1>1, <1>2, SaveKey
<1>4. /\ DOMAIN files' = DOMAIN files \cup {x} /\ files'[x] = n + 1
      /\ \A f \in DOMAIN files : f # x => files'[f] = files[f]
      /\ DOMAIN saved' = DOMAIN saved \cup {path} /\ saved'[path] = n + 1
      /\ \A q \in DOMAIN saved : q # path => saved'[q] = saved[q]
  BY <1>3 DEF With
<1> SUFFICES ASSUME NEW p \in DOMAIN saved' PROVE Written(files', saved', p)
  OBVIOUS
<1>5. CASE p = path
  BY <1>1, <1>3, <1>4, <1>5 DEF Written
<1>6. CASE p # path /\ Key(SaveParts(p)) = x
  <2>1. p \in DOMAIN saved /\ saved'[p] = saved[p]
    BY <1>4, <1>6
  <2>2. saved[p] \in 1 .. n
    BY <1>2, <2>1 DEF FilesInv
  <2>3. saved'[p] <= n + 1
    BY <2>1, <2>2
  <2>4. p # <<>> /\ SavedTo(p) # {} /\ SaveParts(p) # <<>>
    BY <2>1 DEF SavesInv, Written
  <2> QED
    BY <1>1, <1>4, <1>6, <2>3, <2>4 DEF Written
<1>7. CASE p # path /\ Key(SaveParts(p)) # x
  <2>1. p \in DOMAIN saved /\ saved'[p] = saved[p]
    BY <1>4, <1>7
  <2>2. Written(files, saved, p)
    BY <2>1 DEF SavesInv
  <2>3. PICK y : y = Key(SaveParts(p)) /\ y \in DOMAIN files /\ files'[y] = files[y] /\ y # x
    BY <1>4, <1>7, <2>2 DEF Written
  <2>4. PICK q \in DOMAIN saved : Key(SaveParts(q)) = y /\ saved[q] = files[y]
    BY <2>2, <2>3 DEF Written
  <2>5. q \in DOMAIN saved' /\ saved'[q] = saved[q]
    BY <1>1, <1>4, <2>3, <2>4
  <2> QED
    BY <1>4, <2>1, <2>2, <2>3, <2>4, <2>5 DEF Written
<1> QED
  BY <1>5, <1>6, <1>7

LEMMA InitSaves == Init => SavesInv
BY DEF Init, SavesInv

LEMMA NextSaves ==
  ASSUME SetupInv, FilesInv, SavesInv, [Next]_vars
  PROVE  SavesInv'
<1>1. CASE files' = files /\ saved' = saved /\ (DOMAIN saved # {} => mounted')
  BY <1>1 DEF SavesInv
<1>2. CASE Boot
  <2>1. UNCHANGED <<files, saved>> /\ SetupStep
    BY <1>2 DEF Boot, shell
  <2>2. ~mounted
    BY <2>1 DEF SetupInv, MountedLast, SetupStep, ProbeSlave, ProbeMaster, ReadTable, Mount
  <2> QED
    BY <1>1, <2>1, <2>2 DEF SavesInv
<1>3. CASE Prompt \/ Exit
  BY <1>1, <1>3 DEF Prompt, Exit, SavesInv
<1>4. CASE \E path \in SavePaths : Save(path)
  <2>1. PICK path \in SavePaths : Save(path)
    BY <1>4
  <2>2. mounted' = mounted
    BY <2>1 DEF Save, setup
  <2> QED
    BY <2>1, <2>2, SaveWrites, SaveKey DEF SavesInv
<1>5. CASE Command
  <2>1. UNCHANGED <<files, saved, mounted>>
    <3>1. PICK arg \in Args : Cd(arg) \/ Ls(arg) \/ Cat(arg) \/ (\E rest \in Rests : Run(arg, rest))
                              \/ Program(arg, <<>>)
      BY <1>5 DEF Command
    <3>2. CASE Cd(arg)
      BY <3>2 DEF Cd, Answer
    <3>3. CASE Ls(arg)
      BY <3>3 DEF Ls, Answer
    <3>4. CASE Cat(arg)
      BY <3>4 DEF Cat, Answer
    <3>5. CASE \E rest \in Rests : Run(arg, rest)
      BY <3>5 DEF Run, Answer
    <3>6. CASE Program(arg, <<>>)
      BY <3>6 DEF Program, Answer
    <3> QED
      BY <3>1, <3>2, <3>3, <3>4, <3>5, <3>6
  <2> QED
    BY <1>1, <2>1 DEF SavesInv
<1>6. CASE UNCHANGED vars
  BY <1>1, <1>6 DEF vars, setup, shell, SavesInv
<1> QED
  BY <1>2, <1>3, <1>4, <1>5, <1>6 DEF Next

-----------------------------------------------------------------------------
(* And is found under the path it was saved under.                           *)

\* Names of both readers are plain.
LEMMA ShortPlain ==
  ASSUME NEW c \in Text, Clean(c), NoSlash(c), Short(c)
  PROVE  Plain(c)
<1>1. PICK n \in Nat : n = Len(c) /\ DOMAIN c = 1 .. n
  BY TextParts, TextDomain
<1>2. \A k \in 1 .. n : c[k] # Slash /\ c[k] # Nul
  BY <1>1 DEF Clean, NoSlash
<1>3. \A k \in 1 .. n : c[k] = "." => k + 1 \in 1 .. n
  <2>1. PICK k \in 2 .. BaseLen + 1 : /\ k <= Len(c) => k < Len(c)
                                      /\ \A i \in 1 .. Len(c) : c[i] = "." <=> i = k
    BY ShortDot
  <2>2. k \in Nat
    BY <2>1, PathConstants
  <2> QED
    BY <1>1, <2>1, <2>2
<1>4. \A k \in 1 .. n : c[k] = "." => ~Ends(c, k + 1)
  BY <1>1, <1>2, <1>3 DEF Ends, At
<1>5. \A k \in 1 .. n - 1 : k \in 1 .. n
  BY <1>1
<1> QED
  BY <1>1, <1>2, <1>4, <1>5 DEF Plain

\* The name that a save redirects is the end of its path.
LEMMA BareClean ==
  ASSUME NEW path, Saveable(path), Clean(path), Bare(path)
  PROVE  /\ Named(path)[1] \in Text /\ Named(path)[1] # <<>> /\ NoSlash(Named(path)[1])
         /\ Clean(Named(path)[1]) /\ Roomy(Named(path)[1])
<1>1. PICK s \in Text : s = BelowName(SaveAbs(path)) /\ s = Named(path)[1]
  BY SaveView, BareName
<1>2. s # <<>> /\ NoSlash(s)
  BY <1>1, RedirectedName DEF Bare
<1>3. PICK pre \in Text : path = pre \o s
  <2>1. <<>> \in Text /\ <<Slash>> \in Text /\ DiskPrefix \o <<Slash>> \in Text
    BY SlashText, PrefixText, TextConcat
  <2> QED
    BY <1>1, <2>1 DEF Bare
<1>4. PICK l \in Nat, n \in Nat : l = Len(pre) /\ n = Len(s)
  BY TextParts
<1>5. Joins(pre, s, l, n)
  BY <1>4, TextJoins
<1>6. Len(path) = l + n /\ \A k \in 1 .. n : path[l + k] = s[k]
  BY <1>3, <1>5 DEF Joins
<1>7. Clean(s)
  <2>1. \A k \in 1 .. n : l + k \in 1 .. l + n
    BY <1>4
  <2> QED
    BY <1>4, <1>6, <2>1 DEF Clean
<1>8. Roomy(s)
  <2>1. PICK b \in Nat, r \in Nat : b = Len(BinDir) /\ r = Len(RamBin)
    BY BinDirText, RamBinText, TextParts
  <2> QED
    BY <1>4, <1>6, <2>1, PathConstants DEF Roomy, Saveable
<1> QED
  BY <1>1, <1>2, <1>7, <1>8

\* What components of a place name, once a save has written it.
LEMMA PlaceFound ==
  ASSUME FilesInv, NEW comps \in Seq(Text), comps # <<>>, Key(comps) \in DOMAIN files
  PROVE  Find(comps) = FileNode(Key(comps))
<1>1. PICK f : f = Fields(comps)
  OBVIOUS
<1>2. f # <<>> /\ f = Append(Key(comps)[1], Key(comps)[2]) /\ Key(comps) = <<Front(f), Last(f)>>
  BY <1>1, KeySplits DEF Key
<1>3. f \notin Dirs
  BY <1>2 DEF FilesInv
<1> QED
  BY <1>1, <1>2, <1>3 DEF Find, Fields

\* A program under a bare name is what the word runs.
LEMMA BareRuns ==
  ASSUME CwdInv, FilesInv, Absolute(cwd), mounted, NEW name \in Text, name # <<>>, NoSlash(name),
         Clean(name), Roomy(name), Short(name), Fits(cwd, name), ~Clash(Meaning(cwd, name)),
         AllUncut(OnDisk(Meaning(cwd, name))),
         Find(OnDisk(Meaning(cwd, name)))[1] # "file",
         NEW f, Find(<<BinName, name>>) = FileNode(f)
  PROVE  try_run(name) = FileNode(f)
<1>1. Plain(name)
  BY ShortPlain
<1>2. WordMeans(mounted, files, cwd, name, try_run(name))
  BY <1>1, ShortUncut, WordFinds
<1>3. ~HasSlash(name)
  BY DEF HasSlash, NoSlash
<1>4. Only("file", FindIn(files, OnDisk(Meaning(cwd, name)))) = NoNode
  BY FindsIn DEF Only
<1>5. Only("file", FindIn(files, <<BinName, name>>)) = FileNode(f) /\ FileNode(f) # NoNode
  BY FindsIn DEF Only, FileNode, NoNode
<1> QED
  BY <1>2, <1>3, <1>4, <1>5, Zenon DEF WordMeans

LEMMA SavesFound ==
  ASSUME PathsInv, SavesInv
  PROVE  SavedIsFound
<1>0. FilesInv /\ CwdInv /\ Absolute(cwd) /\ FilesSlashless
  BY DEF PathsInv, ShellInv
<1> SUFFICES ASSUME \A q \in DOMAIN saved : Roomy(q) /\ Plain(q) /\ (q[1] = Slash => ~Clash(Parts(q))),
                    NEW p \in DOMAIN saved,
                    \A k \in DOMAIN Named(p) : Short(Named(p)[k]),
                    Bare(p) => /\ Fits(cwd, Named(p)[1]) /\ ~Clash(Meaning(cwd, Named(p)[1]))
                               /\ AllUncut(OnDisk(Meaning(cwd, Named(p)[1]))),
                    Bare(p) => Find(OnDisk(Meaning(cwd, Named(p)[1])))[1] # "file"
             PROVE  LET newest == {saved[q] : q \in {q \in DOMAIN saved : SamePlace(p, q)}}
                        node   == IF Bare(p) THEN try_run(Named(p)[1]) ELSE CatNode(p)
                    IN  node[1] = "file" /\ (\A n \in newest : n <= files[node[2]])
                          /\ files[node[2]] \in newest
  BY Zenon DEF SavedIsFound
<1>1. ASSUME NEW q \in DOMAIN saved
      PROVE  Saveable(q) /\ Clean(q) /\ SaveParts(q) = Place(q) /\ Place(q) \in Seq(Text) /\ Place(q) # <<>>
  <2>1. q \in SavePaths /\ q \in Text /\ q # <<>> /\ SavedTo(q) # {} /\ SaveParts(q) # <<>>
    BY <1>0, TextConstants DEF FilesInv, SavesInv, Written
  <2>2. Saveable(q)
    BY <2>1 DEF Saveable
  <2>3. SaveParts(q) = Place(q)
    BY <2>2, SavePlace DEF SaveParts
  <2>4. SaveParts(q) \in Seq(Text)
    BY <2>1, SavedToText, PartsText DEF SaveParts
  <2>5. Clean(q)
    <3>1. DOMAIN q = 1 .. Len(q)
      BY <2>1, TextDomain
    <3> QED
      BY <2>1, <3>1, ShellConstants DEF Clean
  <2> QED
    BY <2>1, <2>2, <2>3, <2>4, <2>5
<1>2. \A q \in DOMAIN saved : SamePlace(p, q) <=> Key(Place(q)) = Key(Place(p))
  <2> SUFFICES ASSUME NEW q \in DOMAIN saved PROVE SamePlace(p, q) <=> Key(Place(q)) = Key(Place(p))
    OBVIOUS
  <2>1. SamePlace(p, q) <=> Fields(Place(p)) = Fields(Place(q))
    BY DEF SamePlace, Fields
  <2>2. /\ Fields(Place(p)) = Append(Key(Place(p))[1], Key(Place(p))[2])
        /\ Fields(Place(q)) = Append(Key(Place(q))[1], Key(Place(q))[2])
    BY <1>1, KeySplits
  <2>3. Fields(Place(p)) = Fields(Place(q)) => Key(Place(q)) = Key(Place(p))
    BY DEF Key
  <2> QED
    BY <2>1, <2>2, <2>3
<1>3. PICK x : x = Key(Place(p))
  OBVIOUS
<1> DEFINE newest == {saved[q] : q \in {q \in DOMAIN saved : SamePlace(p, q)}}
<1>4. newest = {saved[q] : q \in {q \in DOMAIN saved : Key(Place(q)) = x}}
  BY <1>2, <1>3
<1>5. ASSUME NEW q \in DOMAIN saved
      PROVE  /\ Key(Place(q)) \in DOMAIN files /\ saved[q] <= files[Key(Place(q))]
             /\ \E r \in DOMAIN saved : Key(Place(r)) = Key(Place(q)) /\ saved[r] = files[Key(Place(q))]
  <2>1. Written(files, saved, q) /\ SaveParts(q) = Place(q)
    BY <1>1 DEF SavesInv
  <2>2. PICK r \in DOMAIN saved : Key(SaveParts(r)) = Key(SaveParts(q)) /\ saved[r] = files[Key(SaveParts(q))]
    BY <2>1 DEF Written
  <2>3. SaveParts(r) = Place(r)
    BY <1>1
  <2> QED
    BY <2>1, <2>2, <2>3 DEF Written
<1>6. (\A n \in newest : n <= files[x]) /\ files[x] \in newest
  <2>1. \A q \in DOMAIN saved : Key(Place(q)) = x => saved[q] <= files[x]
    BY <1>5
  <2>2. \E r \in DOMAIN saved : Key(Place(r)) = x /\ saved[r] = files[x]
    BY <1>3, <1>5
  <2> QED
    BY <1>4, <2>1, <2>2
<1>7. Find(Place(p)) = FileNode(x)
  BY <1>0, <1>1, <1>3, <1>5, PlaceFound
<1>8. CASE Bare(p)
  <2>1. PICK name \in Text : /\ name = Named(p)[1] /\ name # <<>> /\ NoSlash(name)
                             /\ Clean(name) /\ Roomy(name)
    BY <1>1, <1>8, BareClean
  <2>2. Place(p) = <<BinName, name>>
    BY <1>8, <2>1 DEF Place
  <2>3. Short(name)
    <3>1. 1 \in DOMAIN Named(p)
      <4>1. Named(p) \in Seq(Text) /\ Len(Named(p)) = 1
        BY <1>1, <1>8, SaveView, PartsText DEF Bare
      <4> QED
        BY <4>1
    <3> QED
      BY <2>1, <3>1
  <2>4. mounted
    BY DEF SavesInv
  <2>5. try_run(name) = FileNode(x)
    BY <1>0, <1>7, <1>8, <2>1, <2>2, <2>3, <2>4, BareRuns
  <2> QED
    BY <1>6, <1>8, <2>1, <2>5 DEF FileNode
<1>9. CASE ~Bare(p)
  <2>1. Place(p) = Named(p)
    BY <1>9 DEF Place
  <2>2. p \in Text /\ p # <<>> /\ Plain(p) /\ (p[1] = Slash => ~Clash(Parts(p)))
    BY <1>1 DEF Saveable
  <2>3. CatNode(p) = Only("file", FindIn(files, Named(p)))
    BY <1>0, <2>2, CatFinds
  <2>4. FindIn(files, Named(p)) = FileNode(x)
    BY <1>7, <2>1, FindsIn
  <2>5. CatNode(p) = FileNode(x)
    BY <2>3, <2>4 DEF Only, FileNode
  <2> QED
    BY <1>6, <1>9, <2>5 DEF FileNode
<1> QED
  BY <1>8, <1>9

\* Whatever is saved, in whatever order and spelling, the path it was saved
\* under leads to the newest save of the place, through cat's own reading of the
\* path or, for a program under a bare name, through the shell's search for the
\* word (exec.c:165-185, commands.c:200-226 and 279-303).
THEOREM SavesAreFound == Spec => []SavedIsFound
<1>1. Init => SetupInv /\ PathsInv /\ SavesInv
  BY SetupInitially, InitPaths, InitSaves
<1>2. SetupInv /\ PathsInv /\ SavesInv /\ [Next]_vars => (SetupInv /\ PathsInv /\ SavesInv)'
  <2>1. PathsInv => FilesInv
    BY DEF PathsInv, ShellInv
  <2> QED
    BY <2>1, NextKeeps, NextPaths, NextSaves
<1>3. PathsInv /\ SavesInv => SavedIsFound
  BY SavesFound
<1> QED
  BY <1>1, <1>2, <1>3, PTL DEF Spec
=============================================================================
