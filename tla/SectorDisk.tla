----------------------------- MODULE SectorDisk ------------------------------
(***************************************************************************)
(* What a caller of disk_read and disk_write may count on: a disk that is  *)
(* asked for one run of sectors at a time, takes them in order, and says 0 *)
(* when it has gone through all of them and -1 when it has not.  A sector  *)
(* read is the one asked for, as it was last stored; a sector written is   *)
(* stored, or given up by the disk, before the next one is taken, and no   *)
(* other sector changes.  There are times when the disk promises nothing:  *)
(* they end with a new request, if at all.                                 *)
(* The module Ata implements it with the transfers of ata.c.               *)
(***************************************************************************)
EXTENDS Integers, Sequences

CONSTANT Unit   \* the unit that the disk is

VARIABLES
    sure,       \* the disk keeps its promises
    busy,       \* a request is in progress
    request,    \* the last one: [op, lba, count]
    done,       \* the sectors of it that are behind
    data,       \* what they held, for a read
    settled,    \* for a write: the disk is done with the one in hand
    stored,     \* the sectors that were ever written
    answer      \* to the last request that came to an end: 0 or -1

diskVars == <<sure, busy, request, done, data, settled, stored, answer>>

Requests == [op : {"read", "write"}, lba : Nat, count : Nat]
InHand == request.lba + done
Content(l) == [unit |-> Unit, lba |-> l, new |-> l \in stored]
Doing(op) == busy /\ request.op = op /\ done < request.count

Init == ~busy /\ ~settled /\ stored = {}

Ask ==
    /\ ~busy /\ busy'
    /\ request' \in Requests
    /\ done' = 0 /\ data' = <<>>
    /\ UNCHANGED <<settled, stored, answer>>

Fetch ==
    /\ Doing("read")
    /\ data' = Append(data, Content(InHand)) /\ done' = done + 1
    /\ UNCHANGED <<busy, request, settled, stored, answer>>

Store ==
    /\ Doing("write") /\ ~settled
    /\ stored' = stored \union {InHand} /\ settled'
    /\ UNCHANGED <<busy, request, done, data, answer>>

\* The disk gives the sector up.
Drop ==
    /\ Doing("write") /\ ~settled
    /\ settled'
    /\ UNCHANGED <<busy, request, done, data, stored, answer>>

Advance ==
    /\ Doing("write") /\ settled
    /\ done' = done + 1 /\ ~settled'
    /\ UNCHANGED <<busy, request, data, stored, answer>>

Answer(r) ==
    /\ busy /\ ~busy'
    /\ r = 0 => done = request.count
    /\ answer' = r
    /\ UNCHANGED <<request, done, data, settled, stored>>

Next ==
    \/ sure' /\ Ask
    \/ sure /\ sure' /\ (Fetch \/ Store \/ Drop \/ Advance \/ Answer(0) \/ Answer(-1))
    \/ ~sure'

Spec == Init /\ [][Next]_diskVars

=============================================================================
