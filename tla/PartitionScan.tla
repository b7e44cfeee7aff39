---------------------------- MODULE PartitionScan ----------------------------
(***************************************************************************)
(* partition_scan() of device/ide.c, which ide_init() calls once for each  *)
(* disk, one after the other.  A disk is what its sectors hold: a function *)
(* from the sectors that are partition tables to the entries of the table. *)
(*                                                                         *)
(* ext_lba_base, p_no and l_no are static: the recursion shares them, and  *)
(* so do the scans of all disks.  They are part of the state s that a scan *)
(* takes and returns, with the partitions of the disk that is scanned.     *)
(* s.end says how the scan went: "ok"; "stop", an ASSERT failed; "over",   *)
(* it stored beyond the array and so over the counts; "stray", it read a   *)
(* sector that is no partition table.  What follows the last three is      *)
(* undefined or depends on data, and is not looked at.                     *)
(***************************************************************************)
EXTENDS Naturals, Sequences

CONSTANTS MAX_PRIM,    \* size of disk.prim_parts, 4
          MAX_LOGIC,   \* size of disk.logic_parts, 8
          EXTENDED     \* the fs_type of an extended partition, 5; 0 is no partition

ASSUME PartsAssumption == {MAX_PRIM, MAX_LOGIC, EXTENDED} \subseteq Nat \ {0}

(* A struct partition of a channel in .bss.                                 *)
NoPart == [start_lba |-> 0, sector_cnt |-> 0, no |-> 0]

(* Before the first disk, and at each disk: ide_init() zeroes the counts.   *)
statics == [ext_lba_base |-> 0, p_no |-> 0, l_no |-> 0]
fresh_disk(st) ==
  [ext_lba_base |-> st.ext_lba_base, p_no |-> st.p_no, l_no |-> st.l_no, end |-> "ok",
   prim_parts |-> [i \in 0..(MAX_PRIM - 1) |-> NoPart], prim_cnt |-> 0,
   logic_parts |-> [i \in 0..(MAX_LOGIC - 1) |-> NoPart], logic_cnt |-> 0]

(* A partition found in the table at ext_lba; its name has the number no.   *)
part(ext_lba, e, no) ==
  [start_lba |-> ext_lba + e.start_lba, sector_cnt |-> e.sector_cnt, no |-> no]

(* ASSERT(p_no < 4) comes after the store: the fourth one fails it.         *)
add_prim(s, ext_lba, e) ==
  [s EXCEPT !.prim_parts[s.p_no] = part(ext_lba, e, s.p_no + 1),
            !.prim_cnt = @ + 1, !.p_no = @ + 1,
            !.end = IF s.p_no + 1 < MAX_PRIM THEN @ ELSE "stop"]

(* The index is compared with 8 after the store, so that 8 is stored to,    *)
(* and the `return' that follows is one that comes too late.                *)
add_logic(s, ext_lba, e) ==
  IF s.l_no \notin DOMAIN s.logic_parts
    THEN [s EXCEPT !.end = "over"]
    ELSE [s EXCEPT !.logic_parts[s.l_no] = part(ext_lba, e, s.l_no + 5),
                   !.logic_cnt = @ + 1, !.l_no = @ + 1]

(* Tables within the extended partition are found relative to its start.    *)
link_lba_FromTable(s, ext_lba, e) == ext_lba + e.start_lba
link_lba(s, ext_lba, e) == e.start_lba + s.ext_lba_base

RECURSIVE partition_scan(_, _, _), scan_entries(_, _, _, _)

partition_scan(disk, ext_lba, s) ==
  IF ext_lba \notin DOMAIN disk THEN [s EXCEPT !.end = "stray"]
  ELSE scan_entries(disk, ext_lba, disk[ext_lba], s)

(* The entries pt of the table at ext_lba, one by one.                      *)
scan_entries(disk, ext_lba, pt, s) ==
  IF pt = <<>> \/ s.end # "ok" THEN s
  ELSE LET e == Head(pt)
           next == CASE e.fs_type = EXTENDED /\ s.ext_lba_base # 0 ->
                          partition_scan(disk, link_lba(s, ext_lba, e), s)
                     [] e.fs_type = EXTENDED /\ s.ext_lba_base = 0 ->
                          partition_scan(disk, e.start_lba, [s EXCEPT !.ext_lba_base = e.start_lba])
                     [] e.fs_type \notin {0, EXTENDED} /\ ext_lba = 0 -> add_prim(s, ext_lba, e)
                     [] e.fs_type \notin {0, EXTENDED} /\ ext_lba # 0 -> add_logic(s, ext_lba, e)
                     [] OTHER -> s
       IN  scan_entries(disk, ext_lba, Tail(pt), next)

(* The loop of ide_init() over the disks: what each scan leaves, up to the  *)
(* first that does not return in order.                                     *)
RECURSIVE scan_disks(_, _)
scan_disks(disks, st) ==
  IF disks = <<>> THEN <<>>
  ELSE LET s == partition_scan(Head(disks), 0, fresh_disk(st))
       IN  IF s.end = "ok" THEN <<s>> \o scan_disks(Tail(disks), s) ELSE <<s>>

(* partition_info(): the entries it prints, from index 0 on.                *)
partition_info(s) ==
  [i \in 1..s.prim_cnt |-> s.prim_parts[i - 1]] \o [i \in 1..s.logic_cnt |-> s.logic_parts[i - 1]]
=============================================================================
