--------------------------------- MODULE Fat16 ----------------------------------
(***************************************************************************)
(* The volume that the export of settings makes of an SD card              *)
(* (software/fw/src/fat16_export.c and the FAT16 branch of userdata_export *)
(* in userdata.c): all but the data is cleared, then boot sector, both     *)
(* tables sector by sector, and the directory entry are written.  A write  *)
(* that fails ends the export.                                             *)
(***************************************************************************)
EXTENDS Integers, Sequences

FAT16_SECTOR_SIZE == 512
FAT16_CLUSTER_SIZE == 2048
FAT16_ENTRIES_PER_SECTOR == FAT16_SECTOR_SIZE \div 2
FAT16_1_OFS == 65536
FAT16_2_OFS == 81920
FAT16_ROOT_DIR_FIRST_SECTOR == 192
FAT16_ROOT_DIR_SECTORS == 128
PROF_DIRENT_16_OFS == 98304
PROF_16_DATA_OFS == 163840
PROF_16_DATA_SIZE == 1049088

ClusterCountDown == PROF_16_DATA_SIZE \div FAT16_CLUSTER_SIZE \* mutant
PROF_16_CLUSTER_COUNT ==
  PROF_16_DATA_SIZE \div FAT16_CLUSTER_SIZE + (IF PROF_16_DATA_SIZE % FAT16_CLUSTER_SIZE = 0 THEN 0 ELSE 1)

VARIABLES
  sectors,          \* what the sectors before the data hold, once written
  clusters_written, sd_blk_idx,
  phase             \* "zero", "boot", "fat1", "fat2", "dirent", "done" or "failed"

fatVars == <<sectors, clusters_written, sd_blk_idx, phase>>

\* bootsec_beg_bpb_16 and prof_dirent_16, read as a FAT driver does.
BootSector == [sector |-> 512, perCluster |-> 4, reserved |-> 128, fats |-> 2, root |-> 2048, perFat |-> 32]
DirEntry == [cluster |-> 2, size |-> 1049088]
Zeros == [i \in 1 .. FAT16_ENTRIES_PER_SECTOR |-> 0]

\* generate_fat16: how many clusters have been written after this sector, and the sector.
EndOfSector(written) ==
  LET remaining == PROF_16_CLUSTER_COUNT - written
      fit == IF remaining > FAT16_ENTRIES_PER_SECTOR THEN FAT16_ENTRIES_PER_SECTOR ELSE remaining
  IN  written + fit - (IF written = 0 THEN 2 ELSE 0)
FatSector(written) ==
  LET preamble == IF written = 0 THEN <<65528, 65535>> ELSE <<>>
      chain == [i \in 1 .. EndOfSector(written) - written |->
                  IF written + 2 + i = PROF_16_CLUSTER_COUNT + 2 THEN 65535 ELSE written + 2 + i]
      entries == preamble \o chain
  IN  [i \in 1 .. FAT16_ENTRIES_PER_SECTOR |-> IF i <= Len(entries) THEN entries[i] ELSE 0]

FatInit == sectors = <<>> /\ clusters_written = 0 /\ sd_blk_idx = 0 /\ phase = "zero"

Failed == sectors' = sectors /\ phase' = "failed"

\* sdcard_write, which succeeds or fails.
Write(ofs, content, next) ==
  \/ /\ sectors' = [sectors EXCEPT ![1 + ofs \div FAT16_SECTOR_SIZE] = content]
     /\ phase' = next
  \/ Failed

Zero ==
  /\ phase = "zero"
  /\ \/ /\ sectors' = [s \in 1 .. FAT16_ROOT_DIR_FIRST_SECTOR + FAT16_ROOT_DIR_SECTORS |-> Zeros]
        /\ phase' = "boot"
     \/ Failed
  /\ UNCHANGED <<clusters_written, sd_blk_idx>>

Boot ==
  /\ phase = "boot"
  /\ Write(0, BootSector, "fat1")
  /\ UNCHANGED <<clusters_written, sd_blk_idx>>

Fat1 ==
  /\ phase = "fat1"
  /\ Write(FAT16_1_OFS + sd_blk_idx * FAT16_SECTOR_SIZE, FatSector(clusters_written), "fat2")
  /\ UNCHANGED <<clusters_written, sd_blk_idx>>

\* The tables are complete when all whole clusters of the file are in.
Fat2 ==
  /\ phase = "fat2"
  /\ clusters_written' = EndOfSector(clusters_written)
  /\ sd_blk_idx' = sd_blk_idx + 1
  /\ Write(FAT16_2_OFS + sd_blk_idx * FAT16_SECTOR_SIZE, FatSector(clusters_written),
           IF clusters_written' < PROF_16_DATA_SIZE \div FAT16_CLUSTER_SIZE THEN "fat1" ELSE "dirent")

Dirent ==
  /\ phase = "dirent"
  /\ Write(PROF_DIRENT_16_OFS, DirEntry, "done")
  /\ UNCHANGED <<clusters_written, sd_blk_idx>>

FatNext == Zero \/ Boot \/ Fat1 \/ Fat2 \/ Dirent
--------------------------------------------------------------------------------
(* What a FAT driver finds by the boot sector and the directory entry.     *)
RootDir(boot) == boot.reserved + boot.fats * boot.perFat
TableAt(boot, copy, c) ==
  sectors[1 + boot.reserved + copy * boot.perFat + c \div FAT16_ENTRIES_PER_SECTOR]
         [1 + (c % FAT16_ENTRIES_PER_SECTOR)]
ClustersOf(boot, file) == 1 + (file.size - 1) \div (boot.perCluster * boot.sector)
OffsetOf(boot, c) ==
  (RootDir(boot) + (boot.root * 32) \div boot.sector + (c - 2) * boot.perCluster) * boot.sector
ClusterReadable(boot, file, copy, k) ==
  /\ TableAt(boot, copy, file.cluster + k)
       = IF k = ClustersOf(boot, file) - 1 THEN 65535 ELSE file.cluster + k + 1
  /\ OffsetOf(boot, file.cluster + k) = PROF_16_DATA_OFS + k * FAT16_CLUSTER_SIZE

(* Whoever reads the finished volume by its boot sector and directory      *)
(* entry finds the file, cluster by cluster, where the export puts the     *)
(* data, in either table: the chain covers the size that the entry states  *)
(* and ends there.  The layout is spread over literals of the boot sector, *)
(* offsets in the header and the arithmetic of generate_fat16, which       *)
(* starts with two entries fewer.                                          *)
VolumeReadable ==
  phase = "done" =>
    LET boot == sectors[1]
        file == sectors[1 + RootDir(boot)]
    IN  \A copy \in 0 .. boot.fats - 1, k \in 0 .. ClustersOf(boot, file) - 1 :
          ClusterReadable(boot, file, copy, k)
================================================================================
