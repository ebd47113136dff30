------------------------------- MODULE Disks --------------------------------
(***************************************************************************)
(* The registry of disks (kernel/disk.c): the table g_disks that the two   *)
(* drivers fill at boot and through which the shell reaches a disk.        *)
(*                                                                         *)
(* A disk is [driver, unit]: its name ("ata<ch><drive>", "ahci<port>"), the *)
(* functions that serve it and its private data all follow from the two.   *)
(***************************************************************************)
EXTENDS Integers, Sequences

CONSTANTS
    MAX_DISKS,  \* the size of the table (8 in the code)
    NULL        \* the null pointer

ASSUME DisksAssumption == MAX_DISKS \in Nat \ {0}

\* A pointer to a disk is not null.
ASSUME NullAssumption ==
    NULL \notin [driver : {"ata", "ahci"}, unit : Nat]

VARIABLES
    g_disks,        \* the table
    g_disk_count,   \* its entries in use
    offered         \* auxiliary: the disks given to disk_register, in order

registry == <<g_disks, g_disk_count, offered>>

Slots == 0..(MAX_DISKS - 1)
Drivers == {"ata", "ahci"}
Disk == [driver : Drivers, unit : Nat]

DisksInit ==
    /\ g_disks = [i \in Slots |-> NULL]
    /\ g_disk_count = 0
    /\ offered = <<>>

disk_init ==
    /\ g_disks' = [i \in Slots |-> NULL]
    /\ g_disk_count' = 0
    /\ UNCHANGED offered

\* Mutants of disk_register: the table takes one more disk than it has slots;
\* the count moves before the slot is chosen.
RegisterOneTooMany(disk) ==
    /\ offered' = Append(offered, disk)
    /\ IF g_disk_count > MAX_DISKS
       THEN UNCHANGED <<g_disks, g_disk_count>>
       ELSE /\ g_disks' = [g_disks EXCEPT ![g_disk_count] = disk]
            /\ g_disk_count' = g_disk_count + 1

RegisterAfterCount(disk) ==
    /\ offered' = Append(offered, disk)
    /\ IF g_disk_count >= MAX_DISKS
       THEN UNCHANGED <<g_disks, g_disk_count>>
       ELSE /\ g_disks' = [g_disks EXCEPT ![g_disk_count + 1] = disk]
            /\ g_disk_count' = g_disk_count + 1

\* A full table refuses the disk; no driver looks at what it returns.
disk_register(disk) ==
    /\ offered' = Append(offered, disk)
    /\ IF g_disk_count >= MAX_DISKS
       THEN UNCHANGED <<g_disks, g_disk_count>>
       ELSE /\ g_disks' = [g_disks EXCEPT ![g_disk_count] = disk]
            /\ g_disk_count' = g_disk_count + 1

disk_get(index) ==
    IF index < 0 \/ index >= g_disk_count THEN NULL ELSE g_disks[index]

\* The first entry with that name
disk_find_by_name(name) ==
    LET named == {i \in Slots : i < g_disk_count /\ g_disks[i] # NULL
                                 /\ g_disks[i] = name}
    IN  IF named = {} THEN NULL
        ELSE g_disks[CHOOSE i \in named : \A j \in named : i <= j]

-----------------------------------------------------------------------------
(* Properties                                                              *)

RegistryTypeOK ==
    /\ g_disks \in [Slots -> Disk \union {NULL}]
    /\ g_disk_count \in 0..MAX_DISKS
    /\ offered \in Seq(Disk)

\* The table holds the first MAX_DISKS disks the drivers found, in the order
\* they were found (an index the user reads off disk_list keeps its meaning),
\* the rest of it is empty, and disk_get answers exactly for those indices.
RegistryInOrder ==
    /\ g_disk_count = (IF Len(offered) < MAX_DISKS THEN Len(offered) ELSE MAX_DISKS)
    /\ \A i \in Slots :
          g_disks[i] = (IF i < g_disk_count THEN offered[i + 1] ELSE NULL)
    /\ \A i \in -1..MAX_DISKS : disk_get(i) # NULL <=> i \in 0..(g_disk_count - 1)

\* No two entries have one name, so disk_find_by_name reaches every disk: the
\* names the two drivers make do not meet, and no driver finds a disk twice.
NamesAreUnique ==
    \A i \in Slots : i < g_disk_count
        => \A j \in Slots : j < g_disk_count /\ g_disks[j] = g_disks[i] => i = j

=============================================================================
