----------------------------- MODULE SourceRead -----------------------------
(***************************************************************************)
(* One path of the scanned tree from discovery to its body in memory       *)
(* (discovery.rs, source.rs), beside a tree that other programs go on      *)
(* writing: discover_files classifies the entry, a worker later validates  *)
(* the path, opens it, validates it again, sizes the handle, probes for    *)
(* NUL bytes, rewinds and reads up to the cap, and probes for one byte     *)
(* more. Each system call sees the file as it is at that moment.           *)
(*                                                                         *)
(* The path is a regular file of the tree that may be replaced by an entry *)
(* of another kind once: MaxReplacements.                                  *)
(***************************************************************************)
EXTENDS Naturals

CONSTANTS
    MaxSize,          \* max_file_size_bytes
    PrefixSize,       \* size of the binary probe
    MaxLength,        \* bound on the length other programs give the file
    MaxReplacements   \* bound on how often the path gets another kind

ASSUME SizeAssumption ==
    /\ MaxSize \in Nat \ {0} /\ PrefixSize \in 1..MaxSize
    /\ MaxLength \in Nat /\ MaxLength > MaxSize + 1
    /\ MaxReplacements \in Nat

VARIABLES
    kind,       \* what the path names now
    length,     \* length of the regular file, in units of bytes
    nulAt,      \* position of its first NUL byte, 0 for none
    policy,     \* which of the configured globs match the path
    pc,         \* where discovery and the worker are with this path
    handle,     \* kind of what File::open opened
    position,   \* read position of the handle
    size,       \* file_size: the handle's metadata length
    bytes,      \* bytes read into the buffer
    outcome,    \* what the scan says of the path
    longest,    \* history: the greatest length the file has had
    replaced    \* replacements so far

tree == <<kind, length, nulAt, longest, replaced>>
reader == <<pc, handle, position, size, bytes, outcome>>
vars == <<tree, policy, reader>>

\* "outside": a regular file reached through a directory that is a link out
\* of the canonical root.
Kind == {"file", "link", "outside", "directory", "gone"}
Glob == {"sensitive", "excluded", "included", "custom"}
SkipReason == {"Symlink", "Unsupported", "Excluded", "SensitivePath",
               "TooLarge", "Binary", "ReadError"}
Undecided == "undecided"

Lesser(a, b) == IF a < b THEN a ELSE b
Greater(a, b) == IF a > b THEN a ELSE b

Init ==
    /\ kind \in Kind \ {"gone"}
    /\ length \in 0..MaxLength
    /\ nulAt \in 0..length
    /\ policy \in SUBSET Glob
    /\ pc = "discover"
    /\ handle = "none"
    /\ position = 0
    /\ size = 0
    /\ bytes = 0
    /\ outcome = Undecided
    /\ longest = length
    /\ replaced = 0

-----------------------------------------------------------------------------
(* Other programs.                                                         *)

Append ==
    /\ length < MaxLength
    /\ length' = length + 1
    /\ nulAt' \in {nulAt} \cup IF nulAt = 0 THEN {length'} ELSE {}
    /\ longest' = Greater(longest, length')
    /\ UNCHANGED <<kind, replaced, policy, reader>>

Truncate ==
    /\ length > 0
    /\ length' = length - 1
    /\ nulAt' = IF nulAt = length THEN 0 ELSE nulAt
    /\ UNCHANGED <<kind, longest, replaced, policy, reader>>

Replace ==
    /\ replaced < MaxReplacements
    /\ replaced' = replaced + 1
    /\ kind' \in Kind \ {kind}
    /\ UNCHANGED <<length, nulAt, longest, policy, reader>>

-----------------------------------------------------------------------------
(* discover_files on the entry.                                            *)

Decide(reason) ==
    /\ outcome' = reason
    /\ pc' = "done"
    /\ UNCHANGED <<tree, policy, handle, position, size, bytes>>

Goto(place) ==
    /\ pc' = place
    /\ UNCHANGED <<tree, policy, outcome>>

\* The first reason of discover_files that applies, in its order; a
\* directory is no entry of the report at all.
DiscoverySkip ==
    IF kind \in {"link", "outside", "gone"} THEN "Symlink"
    ELSE IF kind = "directory" THEN "no entry"
    ELSE IF "sensitive" \in policy THEN "SensitivePath"
    ELSE IF "excluded" \in policy THEN "Excluded"
    ELSE IF "included" \notin policy
         THEN IF "custom" \in policy THEN "Excluded" ELSE "Unsupported"
    ELSE Undecided

Discover ==
    /\ pc = "discover"
    /\ IF DiscoverySkip = Undecided
       THEN Goto("validate") /\ UNCHANGED <<handle, position, size, bytes>>
       ELSE Decide(DiscoverySkip)

-----------------------------------------------------------------------------
(* read_source_under_root by a worker.                                     *)

ValidationError ==
    CASE kind = "gone" -> "ReadError"
      [] kind = "directory" -> "Unsupported"
      [] kind \in {"link", "outside"} -> "Symlink"
      [] OTHER -> Undecided

Validate(here, there) ==
    /\ pc = here
    /\ IF ValidationError = Undecided
       THEN Goto(there) /\ UNCHANGED <<handle, position, size, bytes>>
       ELSE Decide(ValidationError)

ValidatePath == Validate("validate", "open")

Open ==
    /\ pc = "open"
    /\ \/ /\ kind # "gone"
          /\ handle' = kind
          /\ Goto("revalidate")
          /\ UNCHANGED <<position, size, bytes>>
       \/ Decide("ReadError")     \* not found, or permission denied

\* Slip: the check after the open left out.
NoRevalidation ==
    /\ pc = "revalidate"
    /\ Goto("stat")
    /\ UNCHANGED <<handle, position, size, bytes>>

RevalidatePath == Validate("revalidate", "stat")

\* Slip: a file of exactly the cap refused.
TooLongAtCap(n) == n >= MaxSize

TooLong(n) == n > MaxSize

CheckSize ==
    /\ pc = "stat"
    /\ IF TooLong(length)
       THEN Decide("TooLarge")
       ELSE /\ size' = length
            /\ Goto("probe")
            /\ UNCHANGED <<handle, position, bytes>>

ProbeBinary ==
    LET seen == Lesser(PrefixSize, length) IN
    /\ pc = "probe"
    /\ IF nulAt \in 1..seen
       THEN Decide("Binary")
       ELSE /\ position' = 0        \* seek(SeekFrom::Start(0))
            /\ Goto("read")
            /\ UNCHANGED <<handle, size, bytes>>

\* Slip: the read trusts the size of the handle instead of taking the cap.
ReadToEndOfFile ==
    /\ pc = "read"
    /\ position < length
    /\ \E n \in 1..(length - position) :
        /\ position' = position + n
        /\ bytes' = bytes + n
    /\ Goto("read")
    /\ UNCHANGED <<handle, size>>

\* One read of read_to_end through take(max_file_size_bytes).
ReadSome ==
    /\ pc = "read"
    /\ position < length
    /\ \E n \in 1..(Lesser(length, MaxSize) - position) :
        /\ position' = position + n
        /\ bytes' = bytes + n
    /\ Goto("read")
    /\ UNCHANGED <<handle, size>>

\* String::from_utf8 on what was read, then the line endings.
Decode == \E verdict \in {"accepted", "ReadError"} : Decide(verdict)

\* Slip: a full buffer accepted without looking for one byte more.
AcceptFull ==
    /\ pc = "read"
    /\ position >= length \/ bytes = MaxSize
    /\ Decode

\* read_to_end stops at the end of the file or of the take.
ReadEnds ==
    /\ pc = "read"
    /\ position >= length \/ bytes = MaxSize
    /\ IF bytes = MaxSize
       THEN Goto("overflow") /\ UNCHANGED <<handle, position, size, bytes>>
       ELSE Decode

\* Slip: a file that is still longer read again.
ProbeOverflowRetrying ==
    /\ pc = "overflow"
    /\ IF position < length
       THEN Goto("read") /\ UNCHANGED <<handle, position, size, bytes>>
       ELSE Decode

ProbeOverflow ==
    /\ pc = "overflow"
    /\ IF position < length THEN Decide("TooLarge") ELSE Decode

\* metadata, read and seek on the handle can fail.
ReadFails ==
    /\ pc \in {"stat", "probe", "read", "overflow"}
    /\ Decide("ReadError")

ReaderStep ==
    \/ Discover    \/ ValidatePath \/ Open     \/ RevalidatePath \/ CheckSize
    \/ ProbeBinary \/ ReadSome     \/ ReadEnds \/ ProbeOverflow  \/ ReadFails

Next == ReaderStep \/ Append \/ Truncate \/ Replace

Spec == Init /\ [][Next]_vars /\ WF_vars(ReaderStep)

-----------------------------------------------------------------------------
(* Properties.                                                             *)

\* "The in-memory buffer can never exceed max_file_size_bytes, even if the
\* file grows on disk after the size check" (source.rs).
BodyWithinCap == bytes <= MaxSize

\* A body is accepted only when the end of the file has been read: a file
\* that outgrew the cap while it was read is skipped, never scanned as a
\* prefix of itself.
AcceptedAtEnd ==
    [][outcome # "accepted" /\ outcome' = "accepted" => position >= length]_vars

\* A file is called too large only if it was: one of exactly the cap is read,
\* and a full buffer alone does not condemn it.
TooLargeWasTooLarge == outcome = "TooLarge" => longest > MaxSize

\* "This repeats discovery's checks at source load time" (source.rs): with at
\* most one replacement of the path, at whatever moment, a body is accepted
\* only from a regular file of the tree.
AcceptedFromTree == outcome = "accepted" => handle = "file"

\* However a file grows and shrinks while it is read, the read ends.
ReadFinishes == <>(pc = "done")
=============================================================================
