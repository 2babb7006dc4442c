---------------------------- MODULE OpenFileChain ----------------------------
(***************************************************************************)
(* Why the files of the tree file system keep their promises: the          *)
(* invariant that the properties of OpenFile follow from.                  *)
(*                                                                         *)
(* Each file is a chain of blocks of its own: all but the last are full    *)
(* and link to the next, the last is written up to some sector.  The tree  *)
(* has positions at which blocks of the chain begin.  What a writer has in *)
(* its buffer comes behind the chain, what a reader has in its buffer, and *)
(* where it goes on, are consecutive places of it.                         *)
(***************************************************************************)
EXTENDS OpenFile

(* No use of the files that the code gets wrong: see Allowed. *)
KeepsTo == Beyond = {}

-----------------------------------------------------------------------------
(* A file on the device d. *)

Sectors == 1..TailSector

(* Where the first n sectors of a block end, `from' bytes being in front of it. *)
Ends(blk, from, n) == IF n = 0 THEN from ELSE blk[n].data[1] + Len(blk[n].data)

(* The bytes from `first' on, and not none of them. *)
IsRun(data, first) ==
    data # <<>> /\ \A j \in 1..Len(data) : data[j] = first + j - 1

WrittenTo(blk, from, n) ==
    \A s \in 1..n : IsRun(blk[s].data, Ends(blk, from, s - 1))

Full(blk, from, to, next_block) ==
    /\ WrittenTo(blk, from, TailSector)
    /\ Ends(blk, from, TailSector) = to
    /\ blk[TailSector].inBlock = to - from
    /\ blk[TailSector].link = next_block

Part(blk, from, m) ==
    /\ WrittenTo(blk, from, m)
    /\ \A s \in m + 1..TailSector : blk[s] = Unwritten

(* The chain has k + 1 blocks, in front of which are `base' bytes, and m    *)
(* sectors of the last block are written.                                   *)
IsChain(d, k, path, base, m) ==
    /\ base[0] = 0
    /\ \A i \in 0..k - 1 : Full(d[path[i]], base[i], base[i + 1], path[i + 1])
    /\ Part(d[path[k]], base[k], m)

Length(d, k, path, base, m) == Ends(d[path[k]], base[k], m)

(* Blocks come from an allocator that counts. *)
InOrder(nx, k, path) ==
    /\ \A i, j \in 0..k : i < j => path[i] < path[j]
    /\ path[k] < nx /\ k < nx

(* Positions that the tree t has of a file are those of blocks. *)
IsSaved(t, f, k, path, base) ==
    /\ t[Beginning(f)] = At(path[0], 1)
    /\ \A p \in Nat : <<f, p>> \in DOMAIN t =>
           \E i \in 0..k : p = base[i] /\ t[<<f, p>>] = At(path[i], 1)

-----------------------------------------------------------------------------
(* The OpenFile objects over it. *)

Appending(o, d, k, path, base, m, size) ==
    /\ o.head = At(path[k], m + 1)
    /\ o.length = size /\ o.position = size
    /\ o.inBlock = size - base[k]
    /\ Length(d, k, path, base, m) + Len(o.buffer) = size
    /\ \A j \in 1..Len(o.buffer) :
           o.buffer[j] = Length(d, k, path, base, m) + j - 1

(* A reader's next bytes are in its buffer; after that it goes on at its    *)
(* head, unless it is at the end or a seek has left it inside of a sector.  *)
GoesOn(o, d, k, path, base, m, i) ==
    /\ o.head.block = path[i]
    /\ i = k => o.head.sector <= m + 1
    /\ o.position + (o.available - o.buffpos) = Ends(d[path[i]], base[i], o.head.sector - 1)

Reading(o, d, k, path, base, m) ==
    /\ o.buffpos <= o.available /\ o.available <= Len(o.buffer)
    /\ \A j \in o.buffpos + 1..o.available : o.buffer[j] = o.position + (j - o.buffpos) - 1
    /\ o.head.into # 0 => ~Buffered(o)
    /\ ~o.ended /\ o.head.into = 0 => \E i \in 0..k : GoesOn(o, d, k, path, base, m, i)
    /\ o.length = Unknown \/ o.length <= Length(d, k, path, base, m)

Serves(o, d, k, path, base, m, size) ==
    IF o.readonly THEN Reading(o, d, k, path, base, m)
    ELSE Appending(o, d, k, path, base, m, size)

-----------------------------------------------------------------------------
Address == [block : Blocks, sector : Sectors, into : Nat]

Handled == [file : Files, readonly : BOOLEAN, head : Address, inBlock : Int,
            length : Nat, position : Nat, since : Nat, buffer : Seq(Int),
            available : Nat, buffpos : Nat, ended : BOOLEAN]

Device == [Blocks -> [Sectors -> [data : Seq(Int), link : Int, inBlock : Int]]]

TypeOK ==
    /\ disk \in Device
    /\ DOMAIN tree \subseteq Files \X Nat /\ tree \in [DOMAIN tree -> Address]
    /\ next \in Nat /\ next <= NumBlocks
    /\ saved \in Nat
    /\ DOMAIN open \subseteq Handles /\ open \in [DOMAIN open -> Handled]
    /\ written \in [Files -> 0..MaxBytes] /\ flushed \in [Files -> Nat]

(* A file is written by one object at a time, ... *)
OneWriter ==
    \A h, g \in DOMAIN open :
        ~open[h].readonly /\ ~open[g].readonly /\ open[h].file = open[g].file => h = g

(* ... without which all of it is on the device. *)
AllFlushed ==
    \A f \in Files : /\ flushed[f] <= written[f]
                     /\ ~Writing(f) => written[f] = flushed[f]

NotThere(f) ==
    /\ written[f] = 0 /\ flushed[f] = 0
    /\ \A p \in Nat : <<f, p>> \notin DOMAIN tree
    /\ \A h \in DOMAIN open : open[h].file # f

(* Where a file of some length is, and that its blocks are its own. *)
IsStored(f, d, t, nx, owner, k, path, base, m, length) ==
    /\ InOrder(nx, k, path)
    /\ \A i \in 0..k : owner[path[i]] = f
    /\ IsChain(d, k, path, base, m)
    /\ Length(d, k, path, base, m) = length
    /\ IsSaved(t, f, k, path, base)

FileIs(f, owner, k, path, base, m) ==
    /\ IsStored(f, disk, tree, next, owner, k, path, base, m, flushed[f])
    /\ \A h \in DOMAIN open :
           open[h].file = f => Serves(open[h], disk, k, path, base, m, written[f])

FileOK(f, owner) ==
    IF Exists(f)
    THEN \E k \in Nat, m \in 0..TailSector - 1 :
         \E path \in [0..k -> Blocks], base \in [0..k -> Nat] :
             FileIs(f, owner, k, path, base, m)
    ELSE NotThere(f)

(* Each block has one owner, which keeps the files apart. *)
FilesAre(owner) == \A f \in Files : FileOK(f, owner)

FilesInv ==
    /\ TypeOK /\ OneWriter /\ AllFlushed /\ ReadsWhatWasWritten
    /\ \E owner \in [Blocks -> Nat] : FilesAre(owner)
==============================================================================
