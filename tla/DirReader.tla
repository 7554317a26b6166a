------------------------------ MODULE DirReader ------------------------------
(***************************************************************************)
(* The DirectoryReader of libfs_fat/src/lib.rs over the directory of       *)
(* module DirSlots: open_directory, which counts the entries, and read.    *)
(* The reader holds an iterator of libfat and nothing else, while another  *)
(* caller creates, deletes and renames files in the same directory: it     *)
(* reads a name entry by entry, between the writes of the other one.       *)
(*                                                                         *)
(* A step of the reader is one call of FatDirEntryIterator::next: an entry *)
(* is read, in the first block of a cluster behind a read of the table.    *)
(* The entries are counted in one step.                                    *)
(***************************************************************************)
EXTENDS DirSlots

CONSTANTS
    Filters,       \* what readers ask for: sets of files whose attributes fit
    MaxCalls       \* bound on the calls of a behaviour with a reader

ASSUME ReaderAssumption ==
    /\ \A w \in Filters : w \subseteq File \union {Old}
    /\ MaxCalls \in Nat

VARIABLE reader

\* state: "none" in behaviours without a reader, "waits" or "open"; filter: files that filter_fn accepts; places: what is left of the cluster that is
\* read; next, link: FatClusterIter's current_cluster (0 for none) and last_fat;
\* scan: the parts of the next name; count: entry_count; got: what read has
\* returned; some: the last read has returned some of it; ended: it has met an end.
\* History: touched: files of the calls that were under way or have begun since it was
\* opened; calls: number of calls; failed: reads that failed.
NoReader == [state |-> "none", filter |-> {}, places |-> <<>>, next |-> 0, link |-> Free,
           scan |-> ScanStart, count |-> 0, got |-> <<>>, some |-> FALSE, ended |-> FALSE,
           touched |-> {}, calls |-> 0, failed |-> {}]

dvars == <<volume, fat, disk, call, panicked, history, faults>>

-----------------------------------------------------------------------------
(* The iterator *)

ClusterPlaces(c) == [i \in 1..ClusterSlots |-> FirstPlace(c) + i - 1]

\* A slip: "." and ".." are skipped also in a root directory, which has none.
SkippingAtStart(r) ==
    IF old_root THEN [r EXCEPT !.places = RootWalk(2), !.next = 0, !.link = Free]
    ELSE [r EXCEPT !.places = <<>>, !.next = start, !.link = fat[start]]

\* FatDirEntryIterator::from_directory
AtStart(r) ==
    IF old_root THEN [r EXCEPT !.places = RootWalk(0), !.next = 0, !.link = Free]
    ELSE [r EXCEPT !.places = <<>>, !.next = start, !.link = fat[start]]

AtEnd(r) == r.places = <<>> /\ r.next = 0

\* FatClusterIter::next: the number of the cluster behind is known when a cluster
\* begins, and the entry of that one is read ahead.
EnterCluster(r) ==
    IF r.places # <<>> THEN r
    ELSE [r EXCEPT !.places = ClusterPlaces(r.next),
                   !.next = IF IsData(r.link) THEN r.link ELSE 0,
                   !.link = IF IsData(r.link) THEN fat[r.link] ELSE Free]

\* The iterator has returned the entry in the place it stood at.
Passed(r) == [r EXCEPT !.places = Tail(@)]

\* DirectoryFilterPredicate
Accepted(w, f) == f \in w

-----------------------------------------------------------------------------
(* Operations *)

InitReader ==
    /\ Init
    /\ \E state \in {"none", "waits"} : reader = [NoReader EXCEPT !.state = state]

Reading == reader.state = "open" /\ ~reader.ended

\* open_directory counts the entries and makes a new iterator.
Opened(w) ==
    AtStart([reader EXCEPT !.state = "open", !.filter = w,
                           !.count = Cardinality({i \in DOMAIN Listing : Accepted(w, Listing[i].file)}),
                           !.touched = IF op = "none" THEN {} ELSE {file}])

Open == /\ reader.state = "waits"
        /\ \E w \in Filters : reader' = Opened(w)
        /\ UNCHANGED dvars

\* A slip: only what is counted is filtered.
UnfilteredReturned(r, e) ==
    [r EXCEPT !.got = Append(@, [file |-> e.file, name |-> e.name]), !.some = TRUE]

\* A name is complete: it is returned, if the filter accepts it.
Returned(r, e) ==
    IF Accepted(r.filter, e.file)
      THEN [r EXCEPT !.got = Append(@, [file |-> e.file, name |-> e.name]), !.some = TRUE]
      ELSE r

\* One entry for DirectoryEntryIterator::next; the places of a name do not matter
\* to a reader.
Take ==
    /\ Reading /\ ~AtEnd(reader)
    /\ LET r == EnterCluster(reader)
           s == ScanEntry(r.scan, Head(r.places))
       IN  /\ disk[Head(r.places)].kind # "free"
           /\ reader' = IF s.found = <<>>
                          THEN [Passed(r) EXCEPT !.scan = [s EXCEPT !.places = <<>>]]
                          ELSE [Returned(Passed(r), Last(s.found)) EXCEPT !.scan = ScanStart]
    /\ UNCHANGED dvars

\* next() returns None, at a free entry, which is passed, or at the end of the chain:
\* read returns fewer entries than asked for.
FreeEnd ==
    /\ Reading /\ ~AtEnd(reader)
    /\ LET r == EnterCluster(reader) IN
          /\ disk[Head(r.places)].kind = "free"
          /\ reader' = [Passed(r) EXCEPT !.ended = TRUE, !.scan = ScanStart]
    /\ UNCHANGED dvars

ChainEnd ==
    /\ Reading /\ AtEnd(reader)
    /\ reader' = [reader EXCEPT !.ended = TRUE, !.scan = ScanStart]
    /\ UNCHANGED dvars

\* A caller that was given some entries asks for more, though read has met an end:
\* the iterator goes on behind the free entry.
ReadOn ==
    /\ reader.ended /\ reader.some
    /\ reader' = [reader EXCEPT !.ended = FALSE, !.some = FALSE]
    /\ UNCHANGED dvars

\* An entry cannot be read: the filters take the error for an entry that is not
\* wanted, the parts read so far are dropped, and the iterator stays in its place.
EntryFails ==
    /\ Reading /\ ~AtEnd(reader)
    /\ Fault
    /\ reader' = [EnterCluster(reader) EXCEPT !.scan = ScanStart, !.failed = @ \union {"entry"}]
    /\ UNCHANGED <<volume, fat, disk, call, panicked, history>>

\* The table cannot be read: the chain ends with the cluster asked about ("ok()").
LinkFails ==
    /\ Fault
    /\ \/ /\ reader.state = "waits" /\ ~old_root
          /\ \E w \in Filters : reader' = [Opened(w) EXCEPT !.link = Free, !.failed = {"link"}]
       \/ /\ Reading /\ reader.places = <<>> /\ IsData(reader.link)
          /\ reader' = [EnterCluster(reader) EXCEPT !.link = Free, !.failed = @ \union {"link"}]
    /\ UNCHANGED <<volume, fat, disk, call, panicked, history>>

\* The other caller, whose calls do not fail while there is a reader.
Write ==
    /\ Next
    /\ reader.state # "none" => faults' = faults
    /\ reader.state # "none" /\ op = "none" => reader.calls < MaxCalls
    /\ reader' = IF reader.state = "none" \/ op # "none" THEN reader
                 ELSE [reader EXCEPT !.calls = @ + 1,
                                     !.touched = IF reader.state = "open" THEN @ \union {file'} ELSE @]

ReaderNext == Open \/ Take \/ FreeEnd \/ ChainEnd \/ ReadOn \/ EntryFails \/ LinkFails \/ Write

ReaderSpec == InitReader /\ [][ReaderNext]_<<dvars, reader>>

-----------------------------------------------------------------------------
(* Properties *)

ReaderTypeOK ==
    /\ TypeOK
    /\ reader.next \in Cluster \union {0}
    /\ reader.count \in Nat
    /\ \A i \in DOMAIN reader.got : reader.got[i].file \in reader.filter
    /\ reader.failed \subseteq {"entry", "link"}

\* Files that nobody has worked on since the directory was opened are returned
\* once, and under their names, by the time read meets an end, whatever calls come
\* in between, and also when read is called again after that.  After a read of an
\* entry that failed names may be cut, and after one of the table files may be
\* missing, though no error is returned; none is returned twice.
ReaderExact ==
    reader.ended /\ ~misplaced =>
        \A f \in (File \intersect reader.filter) \ (reader.touched \union suspect) :
            LET of == {i \in DOMAIN reader.got : reader.got[i].file = f}
            IN  /\ Cardinality(of) <= (IF names[f] = <<>> THEN 0 ELSE 1)
                /\ names[f] # <<>> /\ "link" \notin reader.failed => of # {}
                /\ reader.failed = {} => \A i \in of : reader.got[i].name = names[f]

\* The reader has read behind the end of the root directory of FAT12/FAT16.
Behind == old_root /\ Len(reader.places) < EntriesPerBlock

\* entry_count is "the count of entries in the directory": read returns as many
\* when nobody has worked in it since it was opened and no read failed, and no more
\* of them when it is called again, short of the end of a root directory, as long as
\* every call began at a place that suits it.
CountAgrees ==
    reader.ended /\ ~misplaced /\ reader.touched = {} /\ reader.failed = {} /\ ~Behind =>
        reader.count = Len(reader.got)
=============================================================================
