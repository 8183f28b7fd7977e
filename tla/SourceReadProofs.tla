-------------------------- MODULE SourceReadProofs --------------------------
(***************************************************************************)
(* What the read of one path keeps, for every cap, every length and        *)
(* whatever other programs do to the file between two system calls.        *)
(***************************************************************************)
EXTENDS SourceRead, TLAPS

Place == {"discover", "validate", "open", "revalidate", "stat", "probe", "read",
          "overflow", "done"}
\* Before the first read, and after the take is full.
Unread == {"discover", "validate", "open", "revalidate", "stat", "probe"}

\* The types of the variables.
TypeOK ==
    /\ kind \in Kind
    /\ length \in Nat /\ nulAt \in Nat
    /\ policy \subseteq Glob
    /\ pc \in Place
    /\ handle \in Kind \cup {"none"}
    /\ position \in Nat /\ size \in Nat /\ bytes \in Nat
    /\ outcome \in SkipReason \cup {Undecided, "no entry", "accepted"}
    /\ longest \in Nat /\ replaced \in Nat

\* The buffer holds what is behind the read position, which the take stops at
\* the cap; a file has been as long as it is.
ReadInv ==
    /\ TypeOK
    /\ bytes = position
    /\ bytes <= MaxSize
    /\ pc \in Unread => bytes = 0
    /\ pc = "overflow" => bytes = MaxSize
    /\ length <= longest
    /\ pc # "done" => outcome = Undecided
    /\ TooLargeWasTooLarge

LEMMA InitReadInv == Init => ReadInv
BY SizeAssumption DEF Init, ReadInv, TypeOK, Kind, Place, Unread, TooLargeWasTooLarge, Undecided, SkipReason

\* What other programs do disturbs the length and the kind alone.
LEMMA OtherStep ==
    ASSUME ReadInv, Append \/ Truncate \/ Replace
    PROVE  ReadInv'
<1>1. TypeOK
  BY DEF ReadInv
<1>2. /\ length' \in Nat /\ nulAt' \in Nat /\ longest' \in Nat
      /\ longest <= longest' /\ length' <= longest'
      /\ kind' \in Kind /\ replaced' \in Nat
  <2>0. length \in Nat /\ nulAt \in Nat /\ longest \in Nat /\ length <= longest
        /\ kind \in Kind /\ replaced \in Nat
    BY DEF ReadInv, TypeOK
  <2>1. CASE Append
    BY <2>0, <2>1 DEF Append, Greater
  <2>2. CASE Truncate
    BY <2>0, <2>2 DEF Truncate
  <2>3. CASE Replace
    BY <2>0, <2>3 DEF Replace
  <2>. QED  BY <2>1, <2>2, <2>3
<1>3. UNCHANGED <<policy, pc, handle, position, size, bytes, outcome>>
  BY DEF Append, Truncate, Replace, reader
<1>4. TypeOK'
  BY <1>1, <1>2, <1>3 DEF TypeOK
<1>5. longest \in Nat /\ MaxSize \in Nat
  BY <1>1, SizeAssumption DEF TypeOK
<1>. QED  BY <1>2, <1>3, <1>4, <1>5 DEF ReadInv, TooLargeWasTooLarge

\* A step of the reader leaves the file alone, and where it ends says its verdict.
LEMMA ReaderKeepsReadInv ==
    ASSUME ReadInv, ReaderStep
    PROVE  ReadInv'
<1>1. TypeOK
  BY DEF ReadInv
<1>2. UNCHANGED <<kind, length, nulAt, longest, replaced, policy>>
  <2>. USE DEF Decide, Goto, tree
  <2>1. CASE Discover \/ ValidatePath \/ RevalidatePath
    BY <2>1 DEF Discover, ValidatePath, RevalidatePath, Validate
  <2>2. CASE Open \/ CheckSize \/ ProbeBinary \/ ReadSome
    BY <2>2 DEF Open, CheckSize, ProbeBinary, ReadSome
  <2>3. CASE ReadEnds \/ ProbeOverflow \/ ReadFails
    BY <2>3 DEF ReadEnds, ProbeOverflow, ReadFails, Decode
  <2>. QED  BY <2>1, <2>2, <2>3 DEF ReaderStep
<1>. DEFINE Here == /\ bytes = position /\ bytes <= MaxSize /\ bytes \in Nat /\ MaxSize \in Nat
                    /\ pc \in Unread => bytes = 0
                    /\ pc = "overflow" => bytes = MaxSize
                    /\ length \in Nat /\ length <= longest /\ longest \in Nat
                    /\ pc # "done" => outcome = Undecided
            There == /\ bytes' = position' /\ bytes' <= MaxSize /\ bytes' \in Nat /\ size' \in Nat
                     /\ handle' \in Kind \cup {"none"}
                     /\ pc' \in Place
                     /\ pc' \in Unread => bytes' = 0
                     /\ pc' = "overflow" => bytes' = MaxSize
                     /\ pc' # "done" => outcome' = Undecided
                     /\ outcome' \in SkipReason \cup {Undecided, "no entry", "accepted"}
                     /\ outcome' = "TooLarge" => longest > MaxSize
<1>3. Here /\ kind \in Kind /\ handle \in Kind \cup {"none"} /\ size \in Nat
  BY <1>1, SizeAssumption DEF ReadInv, TypeOK
<1>4. There
  <2>. USE <1>3 DEF Place, Unread, Decide, Goto, Undecided, SkipReason
  <2>1. CASE Discover
    BY <2>1 DEF Discover, DiscoverySkip
  <2>2. CASE ValidatePath \/ RevalidatePath
    BY <2>2 DEF ValidatePath, RevalidatePath, Validate, ValidationError, Kind
  <2>3. CASE Open
    BY <2>3 DEF Open
  <2>4. CASE CheckSize
    <3>1. CASE length > MaxSize
      <4>1. longest > MaxSize
        BY <3>1
      <4>. QED  BY <2>4, <3>1, <4>1 DEF CheckSize, TooLong
    <3>2. CASE ~(length > MaxSize)
      BY <2>4, <3>2 DEF CheckSize, TooLong
    <3>. QED  BY <3>1, <3>2
  <2>5. CASE ProbeBinary
    <3>1. /\ pc = "probe"
          /\ \/ Decide("Binary")
             \/ position' = 0 /\ Goto("read") /\ UNCHANGED <<handle, size, bytes>>
      <4>. HIDE DEF Decide, Goto
      <4>. QED  BY <2>5, Zenon DEF ProbeBinary
    <3>2. bytes = 0 /\ position = 0
      BY <3>1
    <3>. QED  BY <3>1, <3>2
  <2>6. CASE ReadSome
    <3>1. PICK n \in 1..(Lesser(length, MaxSize) - position) :
              position' = position + n /\ bytes' = bytes + n
      BY <2>6 DEF ReadSome
    <3>2. pc' = "read" /\ UNCHANGED <<handle, size, outcome>> /\ pc = "read"
      BY <2>6 DEF ReadSome
    <3>3. n \in Nat /\ position + n <= MaxSize
      BY <3>1 DEF Lesser
    <3>. QED  BY <3>1, <3>2, <3>3
  <2>7. CASE ReadEnds
    BY <2>7 DEF ReadEnds, Decode
  <2>8. CASE ProbeOverflow
    <3>1. CASE position < length
      <4>1. pc = "overflow" /\ Decide("TooLarge")
        BY <2>8, <3>1 DEF ProbeOverflow
      <4>2. position = MaxSize
        BY <4>1
      <4>3. longest > MaxSize
        BY <3>1, <4>2
      <4>. QED  BY <4>1, <4>3
    <3>2. CASE ~(position < length)
      BY <2>8, <3>2 DEF ProbeOverflow, Decode
    <3>. QED  BY <3>1, <3>2
  <2>9. CASE ReadFails
    BY <2>9 DEF ReadFails
  <2>. QED  BY <2>1, <2>2, <2>3, <2>4, <2>5, <2>6, <2>7, <2>8, <2>9 DEF ReaderStep
<1>. HIDE DEF There
<1>5. TypeOK'
  BY <1>1, <1>2, <1>4 DEF TypeOK, There
<1>. QED  BY <1>2, <1>3, <1>4, <1>5 DEF ReadInv, There, TooLargeWasTooLarge

LEMMA NextReadInv == ReadInv /\ [Next]_vars => ReadInv'
<1>. SUFFICES ASSUME ReadInv, [Next]_vars PROVE ReadInv'
  OBVIOUS
<1>1. CASE Next
  BY <1>1, OtherStep, ReaderKeepsReadInv DEF Next
<1>2. CASE UNCHANGED vars
  BY <1>2 DEF vars, tree, reader, ReadInv, TypeOK, TooLargeWasTooLarge
<1>. QED  BY <1>1, <1>2

\* The read keeps its bookkeeping: the buffer is what is behind the position.
THEOREM ReadInvariance == Spec => []ReadInv
BY InitReadInv, NextReadInv, PTL DEF Spec

\* The buffer never exceeds max_file_size_bytes, however the file grows between
\* the size check and the read (source.rs, read_source_under_root).
THEOREM ReadWithinCap == Spec => []BodyWithinCap
<1>1. ReadInv => BodyWithinCap
  BY DEF ReadInv, BodyWithinCap
<1>. QED  BY <1>1, ReadInvariance, PTL

\* A file is skipped as too large only if it was longer than the cap at some
\* moment: the size check and the probe beyond a full take condemn no other.
THEOREM TooLargeIsTrue == Spec => []TooLargeWasTooLarge
<1>1. ReadInv => TooLargeWasTooLarge
  BY DEF ReadInv
<1>. QED  BY <1>1, ReadInvariance, PTL

\* A body is accepted at the end of the file and nowhere else: no file is scanned
\* as a prefix of itself, whatever it does while it is read.
THEOREM AcceptsWholeFiles == Spec => AcceptedAtEnd
<1>1. ASSUME ReadInv, [Next]_vars, outcome # "accepted", outcome' = "accepted"
      PROVE  position >= length
  <2>. USE <1>1
  <2>1. ReaderStep
    BY DEF Next, vars, Append, Truncate, Replace, reader
  <2>. USE SizeAssumption DEF ReadInv, TypeOK, Decide, Goto, Undecided
  <2>2. CASE ReadEnds
    BY <2>2 DEF ReadEnds
  <2>3. CASE ProbeOverflow
    BY <2>3 DEF ProbeOverflow
  <2>4. ~(\/ Discover \/ ValidatePath \/ Open \/ RevalidatePath \/ CheckSize \/ ProbeBinary
          \/ ReadSome \/ ReadFails)
    BY DEF Discover, DiscoverySkip, ValidatePath, RevalidatePath, Validate, ValidationError, Open,
           CheckSize, ProbeBinary, ReadSome, ReadFails, Kind
  <2>. QED  BY <2>1, <2>2, <2>3, <2>4 DEF ReaderStep
<1>2. ReadInv /\ [Next]_vars => [outcome # "accepted" /\ outcome' = "accepted" => position >= length]_vars
  BY <1>1
<1>. QED  BY <1>2, ReadInvariance, PTL DEF Spec, AcceptedAtEnd

-----------------------------------------------------------------------------
(* The path is checked by name before and after it is opened.               *)

\* With one replacement at most, what was opened is a regular file of the tree, or
\* the path has been replaced for good by what the second check refuses.
OpenInv ==
    /\ TypeOK
    /\ replaced <= 1
    /\ pc \in {"open"} => kind = "file" \/ replaced = 1
    /\ pc = "revalidate" => handle = "file" \/ (kind # "file" /\ replaced = 1)
    /\ pc \in {"stat", "probe", "read", "overflow"} => handle = "file"
    /\ AcceptedFromTree
    /\ pc # "done" => outcome = Undecided

LEMMA InitOpenInv == Init => OpenInv
BY SizeAssumption
   DEF Init, OpenInv, TypeOK, Kind, Place, AcceptedFromTree, Undecided, SkipReason

LEMMA NextOpenInv ==
    ASSUME MaxReplacements <= 1, ReadInv, ReadInv', OpenInv, [Next]_vars
    PROVE  OpenInv'
<1>. USE SizeAssumption DEF OpenInv, AcceptedFromTree, Undecided
<1>0. TypeOK'
  BY DEF ReadInv
<1>1. CASE Append \/ Truncate
  BY <1>0, <1>1 DEF Append, Truncate, reader
<1>2. CASE Replace
  <2>0. replaced \in Nat /\ MaxReplacements \in Nat
    BY DEF TypeOK
  <2>1. replaced' = replaced + 1 /\ replaced < MaxReplacements /\ kind' # kind
    BY <1>2 DEF Replace
  <2>2. UNCHANGED <<pc, handle, outcome>>
    BY <1>2 DEF Replace, reader
  <2>3. replaced = 0 /\ replaced' = 1
    BY <2>0, <2>1
  <2>. QED  BY <1>0, <2>1, <2>2, <2>3
<1>3. CASE Discover
  BY <1>0, <1>3 DEF Discover, DiscoverySkip, Decide, Goto, tree
<1>4. CASE ValidatePath
  BY <1>0, <1>4 DEF ValidatePath, Validate, ValidationError, Decide, Goto, tree, TypeOK, Kind
<1>5. CASE Open
  BY <1>0, <1>5 DEF Open, Decide, Goto, tree
<1>6. CASE RevalidatePath
  BY <1>0, <1>6 DEF RevalidatePath, Validate, ValidationError, Decide, Goto, tree, TypeOK, Kind
<1>7. CASE CheckSize \/ ProbeBinary
  BY <1>0, <1>7 DEF CheckSize, ProbeBinary, Decide, Goto, tree
<1>8. CASE ReadSome
  BY <1>0, <1>8 DEF ReadSome, Goto, tree
<1>9. CASE ReadEnds \/ ProbeOverflow \/ ReadFails
  BY <1>0, <1>9 DEF ReadEnds, ProbeOverflow, ReadFails, Decode, Decide, Goto, tree
<1>10. CASE UNCHANGED vars
  BY <1>0, <1>10 DEF vars, tree, reader
<1>. QED  BY <1>1, <1>2, <1>3, <1>4, <1>5, <1>6, <1>7, <1>8, <1>9, <1>10 DEF Next, ReaderStep

\* With at most one replacement of the path, at whatever moment, a body comes from a
\* regular file of the tree: the check before the open and the one after it miss
\* only two.
THEOREM AcceptsOnlyFromTree ==
    ASSUME MaxReplacements <= 1
    PROVE  Spec => []AcceptedFromTree
<1>1. ReadInv /\ ReadInv' /\ OpenInv /\ [Next]_vars => OpenInv'
  BY NextOpenInv
<1>2. OpenInv => AcceptedFromTree
  BY DEF OpenInv
<1>. QED  BY <1>1, <1>2, InitOpenInv, ReadInvariance, PTL DEF Spec
=============================================================================
