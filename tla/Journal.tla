------------------------------- MODULE Journal -------------------------------
(***************************************************************************)
(* The hash-chained journal of germline/src/journal.rs: one JSON line per  *)
(* record, each record holding the link of the one before it.              *)
(*                                                                         *)
(* A digest is the value it is computed from, so two links are equal       *)
(* exactly when everything hashed is.  A line is a record, or Garbage when *)
(* it does not parse; `bare` says that the file does not end in a newline, *)
(* so that the next write continues its last line.                         *)
(***************************************************************************)
EXTENDS Integers, FiniteSets, SequencesExt

CONSTANTS
    Entries,     \* what may be journalled
    Genesis,     \* Option::None: the link before the first record
    CrashModes,  \* what a crash inside append() may leave in the file
    FaultModes,  \* what an I/O error inside append() may leave in the file
    MaxLines,    \* bound on the length of the file
    MaxHarm      \* bound on crashes, I/O errors and edits together

(* Nothing, part of the line, the line without its newline, the whole line.*)
Modes == {"nothing", "part", "bare", "whole"}

ASSUME JournalAssumption ==
    /\ CrashModes \subseteq Modes /\ FaultModes \subseteq Modes
    /\ MaxLines \in Nat /\ MaxHarm \in Nat

VARIABLES
    file,       \* the lines on disk
    bare,       \* the file does not end in a newline
    handle,     \* "open", "closed", or "refused" when open() failed
    head, next_index, \* the fields of an open Journal
    acked,      \* history: the records append() returned
    anchors,    \* history: published heads with the entries they attest
    edited, cut, \* history: lines were edited, and the tail cut off
    torn,       \* history: an append failed or died and left bytes it should not
    harm

vars == <<file, bare, handle, head, next_index, acked, anchors, edited, cut, torn, harm>>

(* Mutant: the digest does not cover the link before. *)
LinkUnchained(index, prev, entry) == <<index, entry>>

Link(index, prev, entry) == <<index, prev, entry>>

Record(index, prev, entry) ==
    [index |-> index, prev |-> prev, entry |-> entry, link |-> Link(index, prev, entry)]

(* A line that serde_json does not read as a record. *)
Garbage == [unparsed |-> TRUE]

Parses(f) == \A i \in 1 .. Len(f) : f[i] # Garbage

EntriesOf(f) == [i \in 1 .. Len(f) |-> f[i].entry]

(* Mutant: the links are compared and not recomputed. *)
VerifiedUnhashed(f) ==
    /\ Parses(f)
    /\ \A i \in 1 .. Len(f) :
         /\ f[i].index = i - 1
         /\ f[i].prev = IF i = 1 THEN Genesis ELSE f[i - 1].link

(* verified(): positions, back links and recomputed links all agree. *)
Verified(f) ==
    /\ Parses(f)
    /\ \A i \in 1 .. Len(f) :
         /\ f[i].index = i - 1
         /\ f[i].prev = IF i = 1 THEN Genesis ELSE f[i - 1].link
         /\ f[i].link = Link(f[i].index, f[i].prev, f[i].entry)

Init ==
    /\ file = <<>> /\ bare = FALSE
    /\ handle = "closed" /\ head = Genesis /\ next_index = 0
    /\ acked = {} /\ anchors = {}
    /\ edited = FALSE /\ cut = FALSE /\ torn = FALSE /\ harm = 0

-----------------------------------------------------------------------------
(* read_all fails as a whole when one line does not parse; the chain is    *)
(* not verified here.                                                      *)
Open ==
    /\ handle = "closed"
    /\ IF Parses(file)
       THEN /\ handle' = "open"
            /\ head' = IF file = <<>> THEN Genesis ELSE Last(file).link
            /\ next_index' = IF file = <<>> THEN 0 ELSE Last(file).index + 1
       ELSE handle' = "refused" /\ UNCHANGED <<head, next_index>>
    /\ UNCHANGED <<file, bare, acked, anchors, edited, cut, torn, harm>>

(* What the file holds after `mode` of the line of record r was written. *)
Extend(r, mode) ==
    IF mode = "nothing" THEN UNCHANGED <<file, bare>>
    ELSE LET line == IF mode = "part" THEN Garbage ELSE r
         IN /\ file' = IF bare THEN Append(Front(file), Garbage) ELSE Append(file, line)
            /\ bare' = (mode # "whole")

(* Mutant: the index stays where it is. *)
AppendUncounted(e) ==
    /\ handle = "open" /\ Len(file) < MaxLines
    /\ LET r == Record(next_index, head, e)
       IN /\ Extend(r, "whole")
          /\ acked' = acked \cup {r}
          /\ head' = r.link
    /\ UNCHANGED <<handle, next_index, anchors, edited, cut, torn, harm>>

AppendOk(e) ==
    /\ handle = "open" /\ Len(file) < MaxLines
    /\ LET r == Record(next_index, head, e)
       IN /\ Extend(r, "whole")
          /\ acked' = acked \cup {r}
          /\ head' = r.link
    /\ next_index' = next_index + 1
    /\ UNCHANGED <<handle, anchors, edited, cut, torn, harm>>

(* The write or the sync fails: an error is returned, the Journal keeps    *)
(* its head and its index, and the caller may go on.                       *)
AppendFails(e, mode) ==
    /\ handle = "open" /\ Len(file) < MaxLines /\ harm < MaxHarm
    /\ Extend(Record(next_index, head, e), mode)
    /\ torn' = (torn \/ mode # "nothing")
    /\ harm' = harm + 1
    /\ UNCHANGED <<handle, head, next_index, acked, anchors, edited, cut>>

CrashInAppend(e, mode) ==
    /\ handle = "open" /\ Len(file) < MaxLines /\ harm < MaxHarm
    /\ Extend(Record(next_index, head, e), mode)
    /\ handle' = "closed" /\ head' = Genesis /\ next_index' = 0
    /\ torn' = (torn \/ mode \in {"part", "bare"})
    /\ harm' = harm + 1
    /\ UNCHANGED <<acked, anchors, edited, cut>>

Close ==
    /\ handle = "open"
    /\ handle' = "closed" /\ head' = Genesis /\ next_index' = 0
    /\ UNCHANGED <<file, bare, acked, anchors, edited, cut, torn, harm>>

(* head() published where the writer does not control it, when it is the   *)
(* link of what the file then holds.                                       *)
Publish ==
    /\ handle = "open" /\ head # Genesis
    /\ Verified(file) /\ Last(file).link = head
    /\ anchors' = anchors \cup {[link |-> head, entries |-> EntriesOf(file)]}
    /\ UNCHANGED <<file, bare, handle, head, next_index, acked, edited, cut, torn, harm>>

(* Somebody else edits the file: one entry, one line less, or the tail cut *)
(* off.                                                                    *)
EditEntry(i, e) ==
    /\ handle = "closed" /\ harm < MaxHarm
    /\ file[i] # Garbage /\ file[i].entry # e
    /\ file' = [file EXCEPT ![i].entry = e]
    /\ edited' = TRUE /\ harm' = harm + 1
    /\ UNCHANGED <<bare, handle, head, next_index, acked, anchors, cut, torn>>

DeleteLine(i) ==
    /\ handle = "closed" /\ harm < MaxHarm
    /\ file' = RemoveAt(file, i)
    /\ bare' = (bare /\ i # Len(file))
    /\ cut' = (cut \/ i = Len(file)) /\ edited' = TRUE
    /\ harm' = harm + 1
    /\ UNCHANGED <<handle, head, next_index, acked, anchors, torn>>

Next ==
    \/ Open \/ Close \/ Publish
    \/ \E e \in Entries : AppendOk(e)
    \/ \E e \in Entries, mode \in FaultModes : AppendFails(e, mode)
    \/ \E e \in Entries, mode \in CrashModes : CrashInAppend(e, mode)
    \/ \E i \in 1 .. Len(file), e \in Entries : EditEntry(i, e)
    \/ \E i \in 1 .. Len(file) : DeleteLine(i)

Spec == Init /\ [][Next]_vars

-----------------------------------------------------------------------------
(* append() has returned these records, and the file holds them as they    *)
(* were returned, at the index they were returned with.                    *)
HoldsAcked == \A r \in acked : r.index < Len(file) /\ file[r.index + 1] = r

(* Editing or deleting a record is evident, whatever was appended since    *)
(* and whatever crashes and errors left: a file that verifies, and whose   *)
(* tail was not cut off, holds every record append() returned (verified()).*)
EditsAreEvident == ~cut /\ Verified(file) => HoldsAcked

(* One published digest attests everything before it: a file that verifies *)
(* and holds a published link holds the entries that link was published    *)
(* for, cut and rewritten tails included (Journal::head, replay's anchor). *)
AnchorsPinHistory ==
    Verified(file) =>
        \A a \in anchors, i \in 1 .. Len(file) :
            file[i].link = a.link => SubSeq(EntriesOf(file), 1, i) = a.entries

(* append(): "Durability matters more than throughput here".  Through      *)
(* reopening, and through crashes and errors that leave whole lines or     *)
(* nothing, a file nobody edits verifies and still holds every record that *)
(* append() returned, at the index it returned.                            *)
AckedSurvive == ~edited /\ ~torn => Verified(file) /\ HoldsAcked

(* Journal: "a truncated final line costs one record instead of the whole  *)
(* file".  As long as nobody edits the file, the journal opens.            *)
TornTailCostsOneRecord == ~edited => handle # "refused"
=============================================================================
