------------------------- MODULE BaselineDiffProofs -------------------------
(***************************************************************************)
(* What the three passes of the diff account for, for every pair of lists. *)
(***************************************************************************)
EXTENDS BaselineDiff, FiniteSetTheorems, SequenceTheorems, TLAPS

\* Everything a state holds has its type; `TypeOK` and what the steps need
\* besides: who is told in which pass.
Told == /\ \A x \in changes : x.baseline # 0 => x.baseline \in BaselineIndex
        /\ \A x \in changes : x.current # 0 => x.current \in CurrentIndex
        /\ \A x \in changes : x.kind = "new" <=> x.baseline = 0
        /\ \A x \in changes : x.kind = "resolved" <=> x.current = 0

\* The matched ids are those of the findings that are told, new ones apart.
Books ==
    /\ \A x \in changes : x.baseline # 0 => baseline[x.baseline].id \in matched_baseline
    /\ \A x \in changes : (x.baseline # 0 /\ x.current # 0) =>
            current[x.current].id \in matched_current
    /\ \A id \in matched_baseline : \E x \in changes :
            x.baseline # 0 /\ baseline[x.baseline].id = id
    /\ \A id \in matched_current : \E x \in changes :
            x.current # 0 /\ current[x.current].id = id

InIdPass ==
    pass = "id" =>
        /\ \A x \in changes : /\ x.baseline # 0 /\ x.current # 0 /\ x.baseline < i
                              /\ baseline[x.baseline].id = current[x.current].id
        /\ \A b \in BaselineIndex :
                (b < i /\ baseline[b].id \in CurrentIds) => baseline[b].id \in matched_baseline

InPrintPass ==
    pass = "print" =>
        /\ \A x \in changes : x.baseline # 0
        /\ \A b \in BaselineIndex : b < i => baseline[b].id \in matched_baseline

InNewPass ==
    pass \in {"new", "done"} =>
        /\ \A b \in BaselineIndex : baseline[b].id \in matched_baseline
        /\ \A x \in changes : x.kind = "new" =>
                /\ pass = "new" => x.current < i
                /\ current[x.current].id \notin matched_current
        /\ \A c \in CurrentIndex : (pass = "done" \/ c < i) =>
                \/ current[c].id \in matched_current
                \/ \E x \in changes : x.current = c

\* A baseline finding is told once; a current one too, if the baseline does
\* not repeat an id.
Once ==
    /\ \A x, y \in changes : (x.baseline # 0 /\ x.baseline = y.baseline) => x = y
    /\ Unique(baseline) =>
        \A x, y \in changes : (x.current # 0 /\ x.current = y.current) => x = y

\* The current findings that a resolved one could have been matched with are
\* taken.
Taken ==
    \A x \in changes : x.kind = "resolved" =>
        \A c \in CurrentIndex : current[c].print = baseline[x.baseline].print =>
            current[c].id \in matched_current

Inv == /\ TypeOK /\ Told /\ Books /\ InIdPass /\ InPrintPass /\ InNewPass
       /\ Once /\ Taken /\ UntouchedIsSame

LEMMA InitInv == Init => Inv
<1>. SUFFICES ASSUME Init PROVE Inv
  OBVIOUS
<1>1. /\ baseline \in Seq(Finding) /\ current \in Seq(Finding)
      /\ matched_baseline = {} /\ matched_current = {} /\ changes = {}
      /\ pass = "id" /\ i = 1
  BY DiffAssumption DEF Init
<1>2. \A b \in BaselineIndex : ~(b < i)
  BY <1>1 DEF BaselineIndex
<1>3. TypeOK
  BY <1>1 DEF TypeOK
<1>4. Told /\ Books /\ InIdPass /\ InPrintPass /\ InNewPass /\ Once /\ Taken /\ UntouchedIsSame
  BY <1>1, <1>2 DEF Told, Books, InIdPass, InPrintPass, InNewPass, Once, Taken, UntouchedIsSame
<1>. QED  BY <1>3, <1>4 DEF Inv

LEMMA CompareType ==
    ASSUME NEW b \in Finding, NEW c \in Finding
    PROVE  /\ CompareMatched(b, c) \in {"unchanged", "changed", "moved"}
           /\ CompareMatched(b, c) = "unchanged" =>
                    b.print = c.print /\ b.places = c.places
           /\ CompareMatched(b, c) = "moved" => b.print = c.print
BY DEF CompareMatched

LEMMA FindingEqual ==
    ASSUME NEW b \in Finding, NEW c \in Finding,
           b.id = c.id, b.print = c.print, b.places = c.places
    PROVE  b = c
BY DEF Finding

LEMMA Types ==
    ASSUME Inv
    PROVE  /\ Len(baseline) \in Nat /\ Len(current) \in Nat
           /\ \A b \in BaselineIndex : b \in Nat /\ b # 0 /\ baseline[b] \in Finding
           /\ \A c \in CurrentIndex : c \in Nat /\ c # 0 /\ current[c] \in Finding
           /\ i \in Nat /\ i # 0
<1>1. baseline \in Seq(Finding) /\ current \in Seq(Finding) /\ i \in Nat \ {0}
  BY DEF Inv, TypeOK
<1>2. Len(baseline) \in Nat /\ Len(current) \in Nat
  BY <1>1, LenProperties
<1>3. \A b \in BaselineIndex : baseline[b] \in Finding
  BY <1>1, ElementOfSeq DEF BaselineIndex
<1>4. \A c \in CurrentIndex : current[c] \in Finding
  BY <1>1, ElementOfSeq DEF CurrentIndex
<1>. QED  BY <1>1, <1>2, <1>3, <1>4 DEF BaselineIndex, CurrentIndex
-----------------------------------------------------------------------------
(* The steps.                                                              *)

\* A step that tells nothing.
LEMMA Untold ==
    ASSUME Inv, UNCHANGED <<baseline, current, matched_baseline, matched_current, changes>>,
           pass' \in {"id", "print", "new", "done"}, i' \in Nat \ {0},
           InIdPass', InPrintPass', InNewPass'
    PROVE  Inv'
<1>1. BaselineIndex' = BaselineIndex /\ CurrentIndex' = CurrentIndex /\ CurrentIds' = CurrentIds
  BY DEF BaselineIndex, CurrentIndex, CurrentIds
<1>2. TypeOK'
  BY <1>1 DEF Inv, TypeOK
<1>3. Told' /\ Books' /\ Once' /\ Taken' /\ UntouchedIsSame'
  BY <1>1 DEF Inv, Told, Books, Once, Taken, UntouchedIsSame, Unique
<1>. QED  BY <1>2, <1>3 DEF Inv

\* A step of the first two loops that matches baseline finding i with c.
LEMMA Matched ==
    ASSUME Inv, i \in BaselineIndex, NEW c \in CurrentIndex,
           NEW kind \in {"unchanged", "changed", "moved"},
           Match(i, c), Tell(kind, i, c), Advance,
           \A x \in changes : x.baseline # i,
           Unique(baseline) => \A x \in changes : x.current # c,
           kind = "unchanged" => baseline[i] = current[c],
           kind = "moved" => baseline[i].print = current[c].print
    PROVE  TypeOK' /\ Told' /\ Books' /\ Once' /\ Taken' /\ UntouchedIsSame'
<1>. DEFINE n == [kind |-> kind, baseline |-> i, current |-> c]
<1>0. /\ UNCHANGED <<baseline, current, pass>>
      /\ i' = i + 1
      /\ changes' = changes \cup {n}
      /\ matched_baseline' = matched_baseline \cup {baseline[i].id}
      /\ matched_current' = matched_current \cup {current[c].id}
  BY DEF Match, Tell, Advance
<1>1. BaselineIndex' = BaselineIndex /\ CurrentIndex' = CurrentIndex /\ CurrentIds' = CurrentIds
  BY <1>0 DEF BaselineIndex, CurrentIndex, CurrentIds
<1>2. /\ n.kind = kind /\ n.baseline = i /\ n.current = c
      /\ i \in Nat /\ i # 0 /\ c \in Nat /\ c # 0
      /\ baseline[i] \in Finding /\ current[c] \in Finding
  BY Types
<1>3. n \in Change
  BY <1>2 DEF Change, Kind
<1>. HIDE DEF n
<1>4. TypeOK'
  <2>1. matched_baseline' \in SUBSET Nat
    BY <1>0, <1>2 DEF Inv, TypeOK, Finding
  <2>2. matched_current' \in SUBSET CurrentIds
    BY <1>0 DEF Inv, TypeOK, CurrentIds
  <2>3. changes' \in SUBSET Change
    BY <1>0, <1>3 DEF Inv, TypeOK
  <2>4. \A x \in changes' : /\ x.baseline \in BaselineIndex \/ (x.baseline = 0 /\ x.kind = "new")
                            /\ x.current \in CurrentIndex \/ (x.current = 0 /\ x.kind = "resolved")
    BY <1>0, <1>2 DEF Inv, TypeOK
  <2>5. i' \in Nat \ {0}
    BY <1>0, <1>2
  <2>. QED  BY <1>0, <1>1, <2>1, <2>2, <2>3, <2>4, <2>5 DEF Inv, TypeOK
<1>5. Told'
  BY <1>0, <1>1, <1>2 DEF Inv, Told
<1>6. Books'
  <2>1. \A x \in changes' : x.baseline # 0 => baseline[x.baseline].id \in matched_baseline'
    BY <1>0, <1>2 DEF Inv, Books
  <2>2. \A x \in changes' : (x.baseline # 0 /\ x.current # 0) =>
            current[x.current].id \in matched_current'
    BY <1>0, <1>2 DEF Inv, Books
  <2>3. \A id \in matched_baseline' : \E x \in changes' :
            x.baseline # 0 /\ baseline[x.baseline].id = id
    BY <1>0, <1>2 DEF Inv, Books
  <2>4. \A id \in matched_current' : \E x \in changes' :
            x.current # 0 /\ current[x.current].id = id
    BY <1>0, <1>2 DEF Inv, Books
  <2>. QED  BY <1>0, <2>1, <2>2, <2>3, <2>4 DEF Books
<1>7. Once'
  <2>1. \A x, y \in changes' : (x.baseline # 0 /\ x.baseline = y.baseline) => x = y
    BY <1>0, <1>2 DEF Inv, Once
  <2>2. Unique(baseline) =>
            \A x, y \in changes' : (x.current # 0 /\ x.current = y.current) => x = y
    BY <1>0, <1>2 DEF Inv, Once
  <2>3. Unique(baseline)' = Unique(baseline)
    BY <1>0 DEF Unique
  <2>. QED  BY <2>1, <2>2, <2>3 DEF Once
<1>8. Taken'
  BY <1>0, <1>1, <1>2 DEF Inv, Taken
<1>9. UntouchedIsSame'
  BY <1>0, <1>2 DEF Inv, UntouchedIsSame
<1>. QED  BY <1>4, <1>5, <1>6, <1>7, <1>8, <1>9

LEMMA MatchByIdStep ==
    ASSUME Inv, MatchById
    PROVE  Inv'
<1>. PICK c \in CurrentIndex :
        /\ IsCurrentById(baseline[i].id, c)
        /\ Match(i, c)
        /\ Tell(CompareMatched(baseline[i], current[c]), i, c)
  BY DEF MatchById
<1>. DEFINE kind == CompareMatched(baseline[i], current[c])
<1>1. /\ pass = "id" /\ i \in BaselineIndex /\ Advance
      /\ current[c].id = baseline[i].id
      /\ baseline[i] \in Finding /\ current[c] \in Finding
  BY Types DEF MatchById, IsCurrentById
<1>2. /\ kind \in {"unchanged", "changed", "moved"}
      /\ kind = "unchanged" => baseline[i] = current[c]
      /\ kind = "moved" => baseline[i].print = current[c].print
  BY <1>1, CompareType, FindingEqual
<1>3. \A x \in changes : /\ x.baseline # 0 /\ x.current # 0 /\ x.baseline < i
                         /\ x.baseline \in BaselineIndex
                         /\ baseline[x.baseline].id = current[x.current].id
  BY <1>1 DEF Inv, InIdPass, Told
<1>4. \A x \in changes : x.baseline # i
  BY <1>3, Types
<1>5. Unique(baseline) => \A x \in changes : x.current # c
  BY <1>1, <1>3, <1>4 DEF Unique, BaselineIndex
<1>. HIDE DEF kind
<1>6. TypeOK' /\ Told' /\ Books' /\ Once' /\ Taken' /\ UntouchedIsSame'
  <2>1. Tell(kind, i, c)
    BY DEF kind
  <2>. QED  BY <1>1, <1>2, <1>4, <1>5, <2>1, Matched
<1>7. /\ UNCHANGED <<baseline, current, pass>> /\ i' = i + 1
      /\ changes' = changes \cup {[kind |-> kind, baseline |-> i, current |-> c]}
      /\ matched_baseline' = matched_baseline \cup {baseline[i].id}
  BY <1>1 DEF Match, Tell, Advance, kind
<1>8. InIdPass'
  <2>1. /\ BaselineIndex' = BaselineIndex /\ CurrentIds' = CurrentIds
        /\ i \in Nat /\ i # 0 /\ c # 0
    BY <1>1, <1>7, Types DEF BaselineIndex, CurrentIds, CurrentIndex
  <2>2. \A x \in changes' : /\ x.baseline # 0 /\ x.current # 0 /\ x.baseline < i + 1
                            /\ baseline[x.baseline].id = current[x.current].id
    <3>. SUFFICES ASSUME NEW x \in changes'
                  PROVE  /\ x.baseline # 0 /\ x.current # 0 /\ x.baseline < i + 1
                         /\ baseline[x.baseline].id = current[x.current].id
      OBVIOUS
    <3>1. CASE x \in changes
      BY <1>3, <2>1, <3>1, Types
    <3>2. CASE x = [kind |-> kind, baseline |-> i, current |-> c]
      BY <1>1, <2>1, <3>2
    <3>. QED  BY <1>7, <3>1, <3>2
  <2>3. \A b \in BaselineIndex : b < i + 1 => b < i \/ b = i
    BY <2>1, Types
  <2>4. \A b \in BaselineIndex :
            (b < i + 1 /\ baseline[b].id \in CurrentIds) => baseline[b].id \in matched_baseline'
    BY <1>1, <1>7, <2>3 DEF Inv, InIdPass
  <2>. QED  BY <1>7, <2>1, <2>2, <2>4 DEF InIdPass
<1>9. InPrintPass' /\ InNewPass'
  BY <1>1, <1>7 DEF InPrintPass, InNewPass
<1>. QED  BY <1>6, <1>8, <1>9 DEF Inv

LEMMA LeaveByIdStep ==
    ASSUME Inv, LeaveById
    PROVE  Inv'
<1>1. /\ pass = "id" /\ i \in BaselineIndex /\ baseline[i].id \notin CurrentIds
      /\ i' = i + 1
      /\ UNCHANGED <<baseline, current, matched_baseline, matched_current, changes, pass>>
  BY DEF LeaveById, Advance
<1>2. BaselineIndex' = BaselineIndex /\ CurrentIds' = CurrentIds /\ i \in Nat /\ i' \in Nat \ {0}
  BY <1>1, Types DEF BaselineIndex, CurrentIds, CurrentIndex
<1>3. InIdPass'
  <2>1. \A x \in changes : /\ x.baseline # 0 /\ x.current # 0 /\ x.baseline < i + 1
                           /\ baseline[x.baseline].id = current[x.current].id
    <3>. SUFFICES ASSUME NEW x \in changes
                  PROVE  /\ x.baseline # 0 /\ x.current # 0 /\ x.baseline < i + 1
                         /\ baseline[x.baseline].id = current[x.current].id
      OBVIOUS
    <3>1. x.baseline \in BaselineIndex /\ x.baseline < i
      BY <1>1 DEF Inv, InIdPass, Told
    <3>2. x.baseline < i + 1
      BY <1>2, <3>1, Types
    <3>. QED  BY <1>1, <3>2 DEF Inv, InIdPass
  <2>2. \A b \in BaselineIndex : b < i + 1 => b < i \/ b = i
    BY <1>2, Types
  <2>. QED  BY <1>1, <1>2, <2>1, <2>2 DEF Inv, InIdPass
<1>4. InPrintPass' /\ InNewPass'
  BY <1>1 DEF InPrintPass, InNewPass
<1>. QED  BY <1>1, <1>2, <1>3, <1>4, Untold
LEMMA MatchByPrintStep ==
    ASSUME Inv, MatchByPrint
    PROVE  Inv'
<1>. PICK c \in FingerprintMatches(baseline[i]) : Match(i, c) /\ Tell("moved", i, c)
  BY DEF MatchByPrint
<1>1. /\ pass = "print" /\ i \in BaselineIndex /\ Advance
      /\ baseline[i].id \notin matched_baseline
      /\ c \in CurrentIndex
      /\ current[c].print = baseline[i].print /\ current[c].id \notin matched_current
  BY DEF MatchByPrint, FingerprintMatches
<1>2. \A x \in changes : x.baseline # i
  BY <1>1, Types DEF Inv, Books
<1>3. \A x \in changes : x.current # c
  <2>. SUFFICES ASSUME NEW x \in changes, x.current = c PROVE FALSE
    OBVIOUS
  <2>1. x.baseline # 0 /\ x.current # 0
    BY <1>1, Types DEF Inv, InPrintPass
  <2>. QED  BY <1>1, <2>1 DEF Inv, Books
<1>4. TypeOK' /\ Told' /\ Books' /\ Once' /\ Taken' /\ UntouchedIsSame'
  BY <1>1, <1>2, <1>3, Matched
<1>5. /\ UNCHANGED <<baseline, current, pass>> /\ i' = i + 1
      /\ changes' = changes \cup {[kind |-> "moved", baseline |-> i, current |-> c]}
      /\ matched_baseline' = matched_baseline \cup {baseline[i].id}
  BY <1>1 DEF Match, Tell, Advance
<1>6. InPrintPass'
  <2>1. BaselineIndex' = BaselineIndex /\ i \in Nat /\ i # 0
    BY <1>1, <1>5, Types DEF BaselineIndex
  <2>2. \A x \in changes' : x.baseline # 0
    BY <1>1, <1>5, <2>1 DEF Inv, InPrintPass
  <2>3. \A b \in BaselineIndex : b < i + 1 => b < i \/ b = i
    BY <2>1, Types
  <2>4. \A b \in BaselineIndex : b < i + 1 => baseline[b].id \in matched_baseline'
    BY <1>1, <1>5, <2>3 DEF Inv, InPrintPass
  <2>. QED  BY <1>5, <2>1, <2>2, <2>4 DEF InPrintPass
<1>7. InIdPass' /\ InNewPass'
  BY <1>1, <1>5 DEF InIdPass, InNewPass
<1>. QED  BY <1>4, <1>6, <1>7 DEF Inv

LEMMA SkipMatchedStep ==
    ASSUME Inv, SkipMatched
    PROVE  Inv'
<1>1. /\ pass = "print" /\ i \in BaselineIndex /\ baseline[i].id \in matched_baseline
      /\ i' = i + 1
      /\ UNCHANGED <<baseline, current, matched_baseline, matched_current, changes, pass>>
  BY DEF SkipMatched, Advance
<1>2. BaselineIndex' = BaselineIndex /\ i \in Nat /\ i' \in Nat \ {0}
  BY <1>1, Types DEF BaselineIndex
<1>3. InPrintPass'
  <2>1. \A b \in BaselineIndex : b < i + 1 => b < i \/ b = i
    BY <1>2, Types
  <2>. QED  BY <1>1, <1>2, <2>1 DEF Inv, InPrintPass
<1>4. InIdPass' /\ InNewPass'
  BY <1>1 DEF InIdPass, InNewPass
<1>. QED  BY <1>1, <1>2, <1>3, <1>4, Untold

LEMMA ResolveStep ==
    ASSUME Inv, Resolve
    PROVE  Inv'
<1>. DEFINE n == [kind |-> "resolved", baseline |-> i, current |-> 0]
<1>1. /\ pass = "print" /\ i \in BaselineIndex
      /\ baseline[i].id \notin matched_baseline
      /\ UNCHANGED <<baseline, current, pass, matched_current>> /\ i' = i + 1
      /\ changes' = changes \cup {n}
      /\ matched_baseline' = matched_baseline \cup {baseline[i].id}
      /\ FingerprintMatches(baseline[i]) = {}
  BY DEF Resolve, Tell, Advance
<1>2. /\ n.kind = "resolved" /\ n.baseline = i /\ n.current = 0
      /\ i \in Nat /\ i # 0 /\ baseline[i] \in Finding
  BY <1>1, Types
<1>3. n \in Change
  BY <1>2 DEF Change, Kind
<1>. HIDE DEF n
<1>4. BaselineIndex' = BaselineIndex /\ CurrentIndex' = CurrentIndex /\ CurrentIds' = CurrentIds
  BY <1>1 DEF BaselineIndex, CurrentIndex, CurrentIds
<1>5. TypeOK'
  <2>1. matched_baseline' \in SUBSET Nat
    BY <1>1, <1>2 DEF Inv, TypeOK, Finding
  <2>2. changes' \in SUBSET Change
    BY <1>1, <1>3 DEF Inv, TypeOK
  <2>3. \A x \in changes' : /\ x.baseline \in BaselineIndex \/ (x.baseline = 0 /\ x.kind = "new")
                            /\ x.current \in CurrentIndex \/ (x.current = 0 /\ x.kind = "resolved")
    BY <1>1, <1>2 DEF Inv, TypeOK
  <2>. QED  BY <1>1, <1>2, <1>4, <2>1, <2>2, <2>3 DEF Inv, TypeOK
<1>6. Told'
  BY <1>1, <1>2, <1>4 DEF Inv, Told
<1>7. Books'
  <2>1. \A x \in changes' : x.baseline # 0 => baseline[x.baseline].id \in matched_baseline'
    BY <1>1, <1>2 DEF Inv, Books
  <2>2. \A x \in changes' : (x.baseline # 0 /\ x.current # 0) =>
            current[x.current].id \in matched_current'
    BY <1>1, <1>2 DEF Inv, Books
  <2>3. \A id \in matched_baseline' : \E x \in changes' :
            x.baseline # 0 /\ baseline[x.baseline].id = id
    BY <1>1, <1>2 DEF Inv, Books
  <2>4. \A id \in matched_current' : \E x \in changes' :
            x.current # 0 /\ current[x.current].id = id
    BY <1>1, <1>2 DEF Inv, Books
  <2>. QED  BY <1>1, <2>1, <2>2, <2>3, <2>4 DEF Books
<1>8. Once'
  <2>1. \A x \in changes : x.baseline # i
    BY <1>1, <1>2 DEF Inv, Books
  <2>2. \A x, y \in changes' : (x.baseline # 0 /\ x.baseline = y.baseline) => x = y
    BY <1>1, <1>2, <2>1 DEF Inv, Once
  <2>3. Unique(baseline) =>
            \A x, y \in changes' : (x.current # 0 /\ x.current = y.current) => x = y
    BY <1>1, <1>2 DEF Inv, Once
  <2>4. Unique(baseline)' = Unique(baseline)
    BY <1>1 DEF Unique
  <2>. QED  BY <2>2, <2>3, <2>4 DEF Once
<1>9. Taken'
  <2>1. \A c \in CurrentIndex : current[c].print = baseline[i].print =>
            current[c].id \in matched_current
    BY <1>1 DEF FingerprintMatches
  <2>. QED  BY <1>1, <1>2, <1>4, <2>1 DEF Inv, Taken
<1>10. UntouchedIsSame'
  BY <1>1, <1>2 DEF Inv, UntouchedIsSame
<1>11. InPrintPass'
  <2>1. \A x \in changes' : x.baseline # 0
    BY <1>1, <1>2 DEF Inv, InPrintPass
  <2>2. \A b \in BaselineIndex : b < i + 1 => b < i \/ b = i
    BY <1>2, Types
  <2>3. \A b \in BaselineIndex : b < i + 1 => baseline[b].id \in matched_baseline'
    BY <1>1, <2>2 DEF Inv, InPrintPass
  <2>. QED  BY <1>1, <1>4, <2>1, <2>3 DEF InPrintPass
<1>12. InIdPass' /\ InNewPass'
  BY <1>1 DEF InIdPass, InNewPass
<1>. QED  BY <1>5, <1>6, <1>7, <1>8, <1>9, <1>10, <1>11, <1>12 DEF Inv

LEMMA ReportNewStep ==
    ASSUME Inv, ReportNew
    PROVE  Inv'
<1>. DEFINE n == [kind |-> "new", baseline |-> 0, current |-> i]
<1>1. /\ pass = "new" /\ i \in CurrentIndex /\ i' = i + 1
      /\ UNCHANGED <<baseline, current, pass, matched_baseline, matched_current>>
      /\ \/ current[i].id \in matched_current /\ changes' = changes
         \/ current[i].id \notin matched_current /\ changes' = changes \cup {n}
  BY DEF ReportNew, Tell, Advance
<1>2. /\ n.kind = "new" /\ n.baseline = 0 /\ n.current = i
      /\ i \in Nat /\ i # 0 /\ i' \in Nat \ {0} /\ current[i] \in Finding
  BY <1>1, Types
<1>3. n \in Change
  BY <1>2 DEF Change, Kind
<1>. HIDE DEF n
<1>4. BaselineIndex' = BaselineIndex /\ CurrentIndex' = CurrentIndex /\ CurrentIds' = CurrentIds
  BY <1>1 DEF BaselineIndex, CurrentIndex, CurrentIds
<1>5. \A c \in CurrentIndex : c < i + 1 => c < i \/ c = i
  BY <1>2, Types
<1>6. \A x \in changes : x.kind = "new" => /\ x.current \in CurrentIndex
                                         /\ x.current < i
                                         /\ current[x.current].id \notin matched_current
  BY <1>1 DEF Inv, InNewPass, Told, TypeOK
<1>7. InIdPass' /\ InPrintPass'
  BY <1>1 DEF InIdPass, InPrintPass
<1>8. CASE current[i].id \in matched_current /\ changes' = changes
  <2>1. InNewPass'
    <3>1. \A x \in changes : x.kind = "new" => x.current < i + 1
      BY <1>2, <1>6, Types
    <3>2. \A c \in CurrentIndex : c < i + 1 =>
                current[c].id \in matched_current \/ \E x \in changes : x.current = c
      BY <1>1, <1>5, <1>8 DEF Inv, InNewPass
    <3>. QED  BY <1>1, <1>4, <1>6, <1>8, <3>1, <3>2 DEF Inv, InNewPass
  <2>. QED  BY <1>1, <1>2, <1>7, <1>8, <2>1, Untold
<1>9. CASE current[i].id \notin matched_current /\ changes' = changes \cup {n}
  <2>1. TypeOK'
    <3>1. changes' \in SUBSET Change
      BY <1>3, <1>9 DEF Inv, TypeOK
    <3>2. \A x \in changes' : /\ x.baseline \in BaselineIndex \/ (x.baseline = 0 /\ x.kind = "new")
                              /\ x.current \in CurrentIndex \/ (x.current = 0 /\ x.kind = "resolved")
      BY <1>1, <1>2, <1>9 DEF Inv, TypeOK
    <3>. QED  BY <1>1, <1>2, <1>4, <3>1, <3>2 DEF Inv, TypeOK
  <2>2. Told'
    BY <1>1, <1>2, <1>4, <1>9 DEF Inv, Told
  <2>3. Books'
    <3>1. \A x \in changes' : x.baseline # 0 => baseline[x.baseline].id \in matched_baseline
      BY <1>2, <1>9 DEF Inv, Books
    <3>2. \A x \in changes' : (x.baseline # 0 /\ x.current # 0) =>
              current[x.current].id \in matched_current
      BY <1>2, <1>9 DEF Inv, Books
    <3>3. \A id \in matched_baseline : \E x \in changes' :
              x.baseline # 0 /\ baseline[x.baseline].id = id
      BY <1>9 DEF Inv, Books
    <3>4. \A id \in matched_current : \E x \in changes' :
              x.current # 0 /\ current[x.current].id = id
      BY <1>9 DEF Inv, Books
    <3>. QED  BY <1>1, <3>1, <3>2, <3>3, <3>4 DEF Books
  <2>4. Once'
    <3>1. \A x \in changes : x.current # i
      <4>. SUFFICES ASSUME NEW x \in changes, x.current = i PROVE FALSE
        OBVIOUS
      <4>1. CASE x.kind = "new"
        BY <1>2, <1>6, <4>1, Types
      <4>2. CASE x.kind # "new"
        <5>1. x.baseline # 0 /\ x.current # 0
          BY <1>2, <4>2 DEF Inv, Told
        <5>. QED  BY <1>9, <5>1 DEF Inv, Books
      <4>. QED  BY <4>1, <4>2
    <3>2. \A x, y \in changes' : (x.baseline # 0 /\ x.baseline = y.baseline) => x = y
      BY <1>2, <1>9 DEF Inv, Once
    <3>3. Unique(baseline) =>
              \A x, y \in changes' : (x.current # 0 /\ x.current = y.current) => x = y
      BY <1>2, <1>9, <3>1 DEF Inv, Once
    <3>4. Unique(baseline)' = Unique(baseline)
      BY <1>1 DEF Unique
    <3>. QED  BY <3>2, <3>3, <3>4 DEF Once
  <2>5. Taken'
    BY <1>1, <1>2, <1>4, <1>9 DEF Inv, Taken
  <2>6. UntouchedIsSame'
    BY <1>1, <1>2, <1>9 DEF Inv, UntouchedIsSame
  <2>7. InNewPass'
    <3>1. \A x \in changes' : x.kind = "new" => x.current < i + 1
      BY <1>2, <1>6, <1>9, Types
    <3>2. \A x \in changes' : x.kind = "new" => current[x.current].id \notin matched_current
      BY <1>2, <1>6, <1>9
    <3>3. \A c \in CurrentIndex : c < i + 1 =>
                current[c].id \in matched_current \/ \E x \in changes' : x.current = c
      BY <1>1, <1>2, <1>5, <1>9 DEF Inv, InNewPass
    <3>. QED  BY <1>1, <1>4, <3>1, <3>2, <3>3 DEF Inv, InNewPass
  <2>. QED  BY <1>7, <2>1, <2>2, <2>3, <2>4, <2>5, <2>6, <2>7 DEF Inv
<1>. QED  BY <1>1, <1>8, <1>9
LEMMA EndIdPassStep ==
    ASSUME Inv, EndPass("id", "print", baseline)
    PROVE  Inv'
<1>1. /\ pass = "id" /\ pass' = "print" /\ i' = 1
      /\ UNCHANGED <<baseline, current, matched_baseline, matched_current, changes>>
  BY DEF EndPass
<1>2. InPrintPass'
  <2>1. \A x \in changes : x.baseline # 0
    BY <1>1 DEF Inv, InIdPass
  <2>2. \A b \in BaselineIndex : ~(b < 1)
    BY DEF BaselineIndex
  <2>. QED  BY <1>1, <2>1, <2>2 DEF InPrintPass, BaselineIndex
<1>3. InIdPass' /\ InNewPass'
  BY <1>1 DEF InIdPass, InNewPass
<1>. QED  BY <1>1, <1>2, <1>3, Untold

LEMMA EndPrintPassStep ==
    ASSUME Inv, EndPass("print", "new", baseline)
    PROVE  Inv'
<1>1. /\ pass = "print" /\ pass' = "new" /\ i' = 1 /\ i > Len(baseline)
      /\ UNCHANGED <<baseline, current, matched_baseline, matched_current, changes>>
  BY DEF EndPass
<1>2. InNewPass'
  <2>1. \A b \in BaselineIndex : b < i
    BY <1>1, Types DEF BaselineIndex
  <2>2. \A b \in BaselineIndex : baseline[b].id \in matched_baseline
    BY <1>1, <2>1 DEF Inv, InPrintPass
  <2>3. \A x \in changes : x.kind # "new"
    BY <1>1 DEF Inv, InPrintPass, Told
  <2>4. \A c \in CurrentIndex : ~(c < 1)
    BY DEF CurrentIndex
  <2>. QED  BY <1>1, <2>2, <2>3, <2>4 DEF InNewPass, BaselineIndex, CurrentIndex
<1>3. InIdPass' /\ InPrintPass'
  BY <1>1 DEF InIdPass, InPrintPass
<1>. QED  BY <1>1, <1>2, <1>3, Untold

LEMMA EndNewPassStep ==
    ASSUME Inv, EndPass("new", "done", current)
    PROVE  Inv'
<1>1. /\ pass = "new" /\ pass' = "done" /\ i' = 1 /\ i > Len(current)
      /\ UNCHANGED <<baseline, current, matched_baseline, matched_current, changes>>
  BY DEF EndPass
<1>2. InNewPass'
  <2>1. \A c \in CurrentIndex : c < i
    BY <1>1, Types DEF CurrentIndex
  <2>2. \A c \in CurrentIndex :
            current[c].id \in matched_current \/ \E x \in changes : x.current = c
    BY <1>1, <2>1 DEF Inv, InNewPass
  <2>. QED  BY <1>1, <2>2 DEF Inv, InNewPass, BaselineIndex, CurrentIndex
<1>3. InIdPass' /\ InPrintPass'
  BY <1>1 DEF InIdPass, InPrintPass
<1>. QED  BY <1>1, <1>2, <1>3, Untold

LEMMA NextInv == Inv /\ [Next]_vars => Inv'
<1>. SUFFICES ASSUME Inv, [Next]_vars PROVE Inv'
  OBVIOUS
<1>1. CASE MatchById
  BY <1>1, MatchByIdStep
<1>2. CASE LeaveById
  BY <1>2, LeaveByIdStep
<1>3. CASE EndPass("id", "print", baseline)
  BY <1>3, EndIdPassStep
<1>4. CASE SkipMatched
  BY <1>4, SkipMatchedStep
<1>5. CASE MatchByPrint
  BY <1>5, MatchByPrintStep
<1>6. CASE Resolve
  BY <1>6, ResolveStep
<1>7. CASE EndPass("print", "new", baseline)
  BY <1>7, EndPrintPassStep
<1>8. CASE ReportNew
  BY <1>8, ReportNewStep
<1>9. CASE EndPass("new", "done", current)
  BY <1>9, EndNewPassStep
<1>10. CASE UNCHANGED vars
  BY <1>10 DEF vars, Inv, TypeOK, Told, Books, InIdPass, InPrintPass, InNewPass, Once,
        Taken, UntouchedIsSame, Unique, BaselineIndex, CurrentIndex, CurrentIds
<1>. QED
  BY <1>1, <1>2, <1>3, <1>4, <1>5, <1>6, <1>7, <1>8, <1>9, <1>10 DEF Next, Step

-----------------------------------------------------------------------------
\* The books the passes keep are right, for every pair of lists.
THEOREM DiffInvariance == Spec => []Inv
<1>. QED  BY InitInv, NextInv, PTL DEF Spec

\* Every state of the passes is well formed, for every pair of lists.
THEOREM DiffTypeCorrectness == Spec => []TypeOK
<1>1. Inv => TypeOK
  BY DEF Inv
<1>. QED  BY <1>1, DiffInvariance, PTL

\* No id of either list goes without a change, repeated ids or not.
THEOREM DiffTellsEveryId == Spec => []NoIdUntold
<1>1. Inv => NoIdUntold
  <2>. SUFFICES ASSUME Inv, Done PROVE NoIdUntold!2
    BY DEF NoIdUntold
  <2>1. \A b \in BaselineIndex : \E x \in changes :
            x.baseline # 0 /\ baseline[x.baseline].id = baseline[b].id
    BY DEF Inv, InNewPass, Books, Done
  <2>2. ASSUME NEW c \in CurrentIndex
        PROVE  \E x \in changes : x.current # 0 /\ current[x.current].id = current[c].id
    BY Types DEF Inv, InNewPass, Books, Done
  <2>. QED  BY <2>1, <2>2
<1>. QED  BY <1>1, DiffInvariance, PTL

\* Every finding of either list is told in exactly one change, if no list
\* repeats an id.
THEOREM DiffTellsOnce == Spec => []EachToldOnce
<1>1. Inv => EachToldOnce
  <2>. SUFFICES ASSUME Inv, Done, Unique(baseline), Unique(current)
                PROVE  EachToldOnce!2
    BY DEF EachToldOnce
  <2>1. ASSUME NEW b \in BaselineIndex
        PROVE  \E x \in changes : x.baseline = b /\ \A y \in changes : y.baseline = b => y = x
    <3>1. PICK x \in changes : x.baseline # 0 /\ baseline[x.baseline].id = baseline[b].id
      BY DEF Inv, InNewPass, Books, Done
    <3>2. x.baseline \in BaselineIndex
      BY <3>1 DEF Inv, Told
    <3>3. x.baseline = b
      BY <3>1, <3>2 DEF Unique, BaselineIndex
    <3>. QED  BY <3>1, <3>3 DEF Inv, Once
  <2>2. ASSUME NEW c \in CurrentIndex
        PROVE  \E x \in changes : x.current = c /\ \A y \in changes : y.current = c => y = x
    <3>1. PICK x \in changes : x.current # 0 /\ current[x.current].id = current[c].id
      BY Types DEF Inv, InNewPass, Books, Done
    <3>2. x.current \in CurrentIndex
      BY <3>1 DEF Inv, Told
    <3>3. x.current = c
      BY <3>1, <3>2 DEF Unique, CurrentIndex
    <3>. QED  BY <3>1, <3>3 DEF Inv, Once
  <2>. QED  BY <2>1, <2>2
<1>. QED  BY <1>1, DiffInvariance, PTL

\* No two findings are told as resolved and as new while their text is the
\* same.
THEOREM DiffMissesNoMove == Spec => []NoMissedMove
<1>1. Inv => NoMissedMove
  <2>. SUFFICES ASSUME Inv, Done, NEW x \in changes, NEW y \in changes,
                       x.kind = "resolved", y.kind = "new"
                PROVE  baseline[x.baseline].print # current[y.current].print
    BY DEF NoMissedMove
  <2>1. current[y.current].id \notin matched_current
    BY DEF Inv, InNewPass, Done
  <2>2. y.current \in CurrentIndex
    BY DEF Inv, TypeOK
  <2>. QED  BY <2>1, <2>2 DEF Inv, Taken
<1>. QED  BY <1>1, DiffInvariance, PTL

\* An unchanged finding is the same in both lists, a moved one has its text.
THEOREM DiffUntouchedIsSame == Spec => []UntouchedIsSame
<1>1. Inv => UntouchedIsSame
  BY DEF Inv
<1>. QED  BY <1>1, DiffInvariance, PTL
-----------------------------------------------------------------------------
(* A report against the baseline created from it: the first pass matches   *)
(* each finding with itself, and the other two find nothing left to do.    *)

Same(k) == [kind |-> "unchanged", baseline |-> k, current |-> k]

Itself == baseline = current /\ Unique(current)

Steady ==
    Itself =>
        /\ pass = "id" => changes = {Same(k) : k \in {l \in CurrentIndex : l < i}}
        /\ pass # "id" => changes = {Same(k) : k \in CurrentIndex}

LEMMA SteadyInit == Init => Steady
<1>. SUFFICES ASSUME Init PROVE Steady
  OBVIOUS
<1>1. changes = {} /\ pass = "id" /\ i = 1
  BY DEF Init
<1>2. {l \in CurrentIndex : l < i} = {}
  BY <1>1 DEF CurrentIndex
<1>. QED  BY <1>1, <1>2 DEF Steady

\* After the first pass every id is matched, on both sides.
LEMMA AllMatched ==
    ASSUME Inv, Itself, changes = {Same(k) : k \in CurrentIndex}, NEW c \in CurrentIndex
    PROVE  baseline[c].id \in matched_baseline /\ current[c].id \in matched_current
<1>1. Same(c) \in changes
  OBVIOUS
<1>2. Same(c).baseline = c /\ Same(c).current = c /\ c # 0
  BY Types DEF Same
<1>. QED  BY <1>1, <1>2 DEF Inv, Books

LEMMA SteadyMatch ==
    ASSUME Inv, Steady, MatchById
    PROVE  Steady'
<1>. SUFFICES ASSUME Itself PROVE changes' = {Same(k) : k \in {l \in CurrentIndex' : l < i'}}
  BY DEF Steady, Itself, Unique, MatchById, Advance
<1>1. /\ pass = "id" /\ i \in BaselineIndex /\ i' = i + 1
      /\ BaselineIndex = CurrentIndex /\ CurrentIndex' = CurrentIndex
  BY DEF MatchById, Advance, Itself, BaselineIndex, CurrentIndex
<1>2. PICK c \in CurrentIndex : /\ IsCurrentById(baseline[i].id, c)
                                /\ Tell(CompareMatched(baseline[i], current[c]), i, c)
  BY DEF MatchById
<1>3. c = i
  BY <1>1, <1>2 DEF IsCurrentById, Itself, Unique, BaselineIndex, CurrentIndex
<1>4. CompareMatched(baseline[i], current[c]) = "unchanged"
  BY <1>3 DEF CompareMatched, Itself
<1>5. changes' = changes \cup {Same(i)}
  BY <1>2, <1>3, <1>4 DEF Tell, Same
<1>6. {l \in CurrentIndex : l < i + 1} = {l \in CurrentIndex : l < i} \cup {i}
  BY <1>1, Types
<1>7. changes = {Same(k) : k \in {l \in CurrentIndex : l < i}}
  BY <1>1 DEF Steady
<1>. HIDE DEF Same
<1>. QED  BY <1>1, <1>5, <1>6, <1>7

\* A step of the later passes that tells nothing.
LEMMA SteadyUntold ==
    ASSUME Steady, UNCHANGED <<baseline, current, changes>>, pass # "id", pass' # "id"
    PROVE  Steady'
BY DEF Steady, Itself, Unique, CurrentIndex

LEMMA SteadyEndId ==
    ASSUME Inv, Steady, EndPass("id", "print", baseline)
    PROVE  Steady'
<1>1. /\ pass = "id" /\ pass' = "print" /\ i > Len(baseline)
      /\ UNCHANGED <<baseline, current, changes>>
  BY DEF EndPass
<1>. SUFFICES ASSUME Itself PROVE changes = {Same(k) : k \in CurrentIndex}
  BY <1>1 DEF Steady, Itself, Unique, CurrentIndex
<1>2. {l \in CurrentIndex : l < i} = CurrentIndex
  BY <1>1, Types DEF Itself, CurrentIndex
<1>. QED  BY <1>1, <1>2 DEF Steady

LEMMA SteadyNext == Inv /\ Steady /\ [Next]_vars => Steady'
<1>. SUFFICES ASSUME Inv, Steady, [Next]_vars, Itself' PROVE Steady'
  BY DEF Steady
<1>0. Itself
  BY DEF Itself, Unique, Next, Step, MatchById, LeaveById, EndPass, SkipMatched,
         MatchByPrint, Resolve, ReportNew, Advance, vars
<1>1. BaselineIndex = CurrentIndex
  BY <1>0 DEF Itself, BaselineIndex, CurrentIndex
<1>2. CASE MatchById
  BY <1>2, SteadyMatch
<1>3. CASE LeaveById
  \* The id is its own.
  BY <1>0, <1>1, <1>3 DEF LeaveById, CurrentIds, Itself
<1>4. CASE EndPass("id", "print", baseline)
  BY <1>4, SteadyEndId
<1>5. ASSUME pass = "print", i \in BaselineIndex, baseline[i].id \notin matched_baseline
      PROVE  FALSE
  BY <1>0, <1>1, <1>5, AllMatched DEF Steady
<1>6. CASE SkipMatched
  BY <1>6, SteadyUntold DEF SkipMatched, Advance
<1>7. CASE MatchByPrint
  BY <1>5, <1>7 DEF MatchByPrint
<1>8. CASE Resolve
  BY <1>5, <1>8 DEF Resolve
<1>9. CASE EndPass("print", "new", baseline)
  BY <1>9, SteadyUntold DEF EndPass
<1>10. CASE ReportNew
  <2>1. pass = "new" /\ pass' = "new" /\ i \in CurrentIndex /\ UNCHANGED <<baseline, current>>
    BY <1>10 DEF ReportNew, Advance
  <2>2. current[i].id \in matched_current
    BY <1>0, <2>1, AllMatched DEF Steady
  <2>. QED  BY <1>10, <2>1, <2>2, SteadyUntold DEF ReportNew
<1>11. CASE EndPass("new", "done", current)
  BY <1>11, SteadyUntold DEF EndPass
<1>12. CASE UNCHANGED vars
  BY <1>12 DEF vars, Steady, Itself, Unique, CurrentIndex
<1>. QED  BY <1>2, <1>3, <1>4, <1>6, <1>7, <1>8, <1>9, <1>10, <1>11, <1>12 DEF Next, Step

\* A report against the baseline created from it has only unchanged findings.
THEOREM DiffIsQuietAgainstItself == Spec => []QuietAgainstItself
<1>1. Steady => QuietAgainstItself
  BY DEF Steady, QuietAgainstItself, Itself, Done, Same
<1>2. Spec => []Steady
  BY SteadyInit, SteadyNext, DiffInvariance, PTL DEF Spec
<1>. QED  BY <1>1, <1>2, PTL
-----------------------------------------------------------------------------
(* The number of moves.  A move is a pair of findings that only one side   *)
(* knows by id; if an orphan of the baseline is left, none is left on the  *)
(* other side.                                                             *)

\* Two findings that are told together share the id, or the text and no id.
Paired ==
    /\ \A x \in changes : (x.baseline # 0 /\ x.current # 0) =>
        \/ baseline[x.baseline].id = current[x.current].id
        \/ /\ x.kind = "moved"
           /\ baseline[x.baseline].print = current[x.current].print
           /\ baseline[x.baseline].id \notin CurrentIds
           /\ \A b \in BaselineIndex : baseline[b].id # current[x.current].id
    /\ \A b \in BaselineIndex : (pass # "id" /\ baseline[b].id \in CurrentIds) =>
            baseline[b].id \in matched_current
    /\ pass = "id" =>
        \A b \in BaselineIndex : (b < i /\ baseline[b].id \in CurrentIds) =>
            baseline[b].id \in matched_current

LEMMA PairedInit == Init => Paired
<1>. SUFFICES ASSUME Init PROVE Paired
  OBVIOUS
<1>1. changes = {} /\ pass = "id" /\ i = 1
  BY DEF Init
<1>2. \A b \in BaselineIndex : ~(b < i)
  BY <1>1 DEF BaselineIndex
<1>. QED  BY <1>1, <1>2 DEF Paired

LEMMA PairedNext == Inv /\ Paired /\ [Next]_vars => Paired'
<1>. SUFFICES ASSUME Inv, Paired, [Next]_vars PROVE Paired'
  OBVIOUS
<1>0. /\ UNCHANGED <<baseline, current>>
      /\ BaselineIndex' = BaselineIndex /\ CurrentIndex' = CurrentIndex /\ CurrentIds' = CurrentIds
  BY DEF Next, Step, MatchById, LeaveById, EndPass, SkipMatched, MatchByPrint, Resolve,
         ReportNew, Advance, vars, BaselineIndex, CurrentIndex, CurrentIds
<1>1. CASE MatchById
  <2>1. pass = "id" /\ pass' = "id" /\ i' = i + 1 /\ i \in BaselineIndex
    BY <1>1 DEF MatchById, Advance
  <2>2. PICK c \in CurrentIndex :
            /\ current[c].id = baseline[i].id
            /\ matched_current' = matched_current \cup {current[c].id}
            /\ changes' = changes \cup {[kind |-> CompareMatched(baseline[i], current[c]),
                                         baseline |-> i, current |-> c]}
    BY <1>1 DEF MatchById, IsCurrentById, Match, Tell
  <2>3. \A b \in BaselineIndex : b < i' => b < i \/ b = i
    BY <2>1, Types
  <2>. QED  BY <1>0, <2>1, <2>2, <2>3 DEF Paired
<1>2. CASE LeaveById
  <2>1. pass = "id" /\ pass' = "id" /\ i' = i + 1 /\ baseline[i].id \notin CurrentIds
        /\ UNCHANGED <<matched_current, changes>>
    BY <1>2 DEF LeaveById, Advance
  <2>2. \A b \in BaselineIndex : b < i' => b < i \/ b = i
    BY <2>1, Types
  <2>. QED  BY <1>0, <2>1, <2>2 DEF Paired
<1>3. CASE EndPass("id", "print", baseline)
  <2>1. pass = "id" /\ pass' = "print" /\ i > Len(baseline) /\ UNCHANGED <<matched_current, changes>>
    BY <1>3 DEF EndPass
  <2>2. \A b \in BaselineIndex : b < i
    BY <2>1, Types DEF BaselineIndex
  <2>. QED  BY <1>0, <2>1, <2>2 DEF Paired
<1>4. CASE MatchByPrint
  <2>1. pass = "print" /\ pass' = "print" /\ i \in BaselineIndex
        /\ baseline[i].id \notin matched_baseline
    BY <1>4 DEF MatchByPrint, Advance
  <2>2. PICK c \in CurrentIndex :
            /\ current[c].print = baseline[i].print
            /\ current[c].id \notin matched_current
            /\ matched_current' = matched_current \cup {current[c].id}
            /\ changes' = changes \cup {[kind |-> "moved", baseline |-> i, current |-> c]}
    BY <1>4 DEF MatchByPrint, FingerprintMatches, Match, Tell
  <2>3. baseline[i].id \notin CurrentIds
    <3>1. SUFFICES ASSUME baseline[i].id \in CurrentIds PROVE FALSE
      OBVIOUS
    <3>2. baseline[i].id \in matched_current
      BY <2>1, <3>1 DEF Paired
    <3>3. PICK x \in changes : x.current # 0 /\ current[x.current].id = baseline[i].id
      BY <3>2 DEF Inv, Books
    <3>4. x.baseline # 0
      BY <2>1 DEF Inv, InPrintPass
    <3>5. baseline[x.baseline].id = baseline[i].id
      BY <2>1, <3>3, <3>4 DEF Paired
    <3>. QED  BY <2>1, <3>4, <3>5 DEF Inv, Books
  <2>4. \A b \in BaselineIndex : baseline[b].id # current[c].id
    BY <2>1, <2>2 DEF Paired, CurrentIds
  <2>. QED  BY <1>0, <2>1, <2>2, <2>3, <2>4 DEF Paired
<1>5. CASE SkipMatched
  BY <1>0, <1>5 DEF Paired, SkipMatched, Advance
<1>6. CASE Resolve
  <2>1. pass = "print" /\ pass' = "print" /\ UNCHANGED matched_current
        /\ changes' = changes \cup {[kind |-> "resolved", baseline |-> i, current |-> 0]}
    BY <1>6 DEF Resolve, Advance, Tell
  <2>. QED  BY <1>0, <2>1 DEF Paired
<1>7. CASE EndPass("print", "new", baseline)
  BY <1>0, <1>7 DEF Paired, EndPass
<1>8. CASE ReportNew
  <2>1. pass = "new" /\ pass' = "new" /\ UNCHANGED matched_current
        /\ \/ changes' = changes
           \/ changes' = changes \cup {[kind |-> "new", baseline |-> 0, current |-> i]}
    BY <1>8 DEF ReportNew, Advance, Tell
  <2>. QED  BY <1>0, <2>1 DEF Paired
<1>9. CASE EndPass("new", "done", current)
  BY <1>0, <1>9 DEF Paired, EndPass
<1>10. CASE UNCHANGED vars
  BY <1>0, <1>10 DEF Paired, vars
<1>. QED  BY <1>1, <1>2, <1>3, <1>4, <1>5, <1>6, <1>7, <1>8, <1>9, <1>10 DEF Next, Step

\* Counting by a projection that is one to one into T.
LEMMA Counted ==
    ASSUME NEW S, NEW T, IsFiniteSet(T), NEW f \in [S -> T],
           \A x, y \in S : f[x] = f[y] => x = y
    PROVE  /\ Cardinality(S) \in Nat /\ Cardinality(T) \in Nat
           /\ Cardinality(S) <= Cardinality(T)
           /\ (\A y \in T : \E x \in S : f[x] = y) => Cardinality(S) = Cardinality(T)
<1>1. f \in Injection(S, T)
  BY DEF Injection, IsInjective
<1>2. IsFiniteSet(S) /\ Cardinality(S) <= Cardinality(T)
  BY <1>1, FS_Injection
<1>3. Cardinality(S) = Cardinality(T) <=> f \in Surjection(S, T)
  BY <1>1, FS_Injection
<1>4. (\A y \in T : \E x \in S : f[x] = y) => f \in Surjection(S, T)
  BY DEF Surjection
<1>. QED  BY <1>2, <1>3, <1>4, FS_CardinalityType

\* Of the findings of one text that only one side knows by id, as many are
\* told as moves as the smaller side has.
THEOREM DiffFindsEveryMove == Spec => []MovesAreMaximal
<1>1. Inv /\ Paired => MovesAreMaximal
  <2>. SUFFICES ASSUME Inv, Paired, Done, Unique(baseline), Unique(current), NEW print \in Prints
                PROVE  Cardinality({x \in changes : /\ x.kind = "moved"
                                                    /\ x.baseline \in Orphans(baseline, current, print)})
                       = Smaller(Cardinality(Orphans(baseline, current, print)),
                                 Cardinality(Orphans(current, baseline, print)))
    BY DEF MovesAreMaximal
  <2>. DEFINE B == Orphans(baseline, current, print)
              C == Orphans(current, baseline, print)
              M == {x \in changes : x.kind = "moved" /\ x.baseline \in B}
              f == [x \in M |-> x.baseline]
              g == [x \in M |-> x.current]
  <2>1. /\ B \subseteq BaselineIndex /\ C \subseteq CurrentIndex
        /\ \A b \in B : baseline[b].print = print /\ baseline[b].id \notin CurrentIds
        /\ \A c \in C : current[c].print = print /\ \A b \in BaselineIndex : baseline[b].id # current[c].id
    BY DEF Orphans, BaselineIndex, CurrentIndex, CurrentIds
  <2>2. IsFiniteSet(B) /\ IsFiniteSet(C)
    <3>1. IsFiniteSet(BaselineIndex) /\ IsFiniteSet(CurrentIndex)
      BY Types, FS_Interval DEF BaselineIndex, CurrentIndex
    <3>. QED  BY <2>1, <3>1, FS_Subset
  <2>3. ASSUME NEW x \in changes, x.baseline # 0, x.current # 0,
               baseline[x.baseline].id # current[x.current].id
        PROVE  /\ x.kind = "moved"
               /\ x.baseline \in BaselineIndex /\ x.current \in CurrentIndex
               /\ x.baseline \in B <=> current[x.current].print = print
               /\ x.current \in C <=> current[x.current].print = print
    <3>1. x.baseline \in BaselineIndex /\ x.current \in CurrentIndex
      BY <2>3 DEF Inv, Told
    <3>2. /\ x.kind = "moved" /\ baseline[x.baseline].print = current[x.current].print
          /\ baseline[x.baseline].id \notin CurrentIds
          /\ \A b \in BaselineIndex : baseline[b].id # current[x.current].id
      BY <2>3 DEF Paired
    <3>. QED  BY <3>1, <3>2 DEF Orphans, BaselineIndex, CurrentIndex, CurrentIds
  <2>4. \A x \in M : /\ x \in changes /\ x.baseline # 0 /\ x.current # 0
                     /\ x.baseline \in B /\ x.current \in C
    <3>. SUFFICES ASSUME NEW x \in M PROVE x.baseline # 0 /\ x.current # 0 /\ x.current \in C
      OBVIOUS
    <3>1. x.baseline # 0 /\ x.current # 0
      BY DEF Inv, Told
    <3>2. x.current \in CurrentIndex /\ baseline[x.baseline].id # current[x.current].id
      BY <2>1, <3>1 DEF Inv, Told, CurrentIds
    <3>. QED  BY <2>1, <2>3, <3>1, <3>2
  <2>5. f \in [M -> B] /\ \A x, y \in M : f[x] = f[y] => x = y
    BY <2>4 DEF Inv, Once
  <2>6. g \in [M -> C] /\ \A x, y \in M : g[x] = g[y] => x = y
    BY <2>4 DEF Inv, Once
  <2>7. /\ Cardinality(M) \in Nat /\ Cardinality(B) \in Nat /\ Cardinality(C) \in Nat
        /\ Cardinality(M) <= Cardinality(B) /\ Cardinality(M) <= Cardinality(C)
    <3>. HIDE DEF B, C, M, f, g
    <3>. QED  BY <2>2, <2>5, <2>6, Counted
  <2>8. CASE \E b \in B : \E x \in changes : x.baseline = b /\ x.kind = "resolved"
    \* All of the current side are taken, each by a move.
    <3>1. ASSUME NEW c \in C PROVE \E x \in M : g[x] = c
      <4>1. current[c].id \in matched_current
        BY <2>1, <2>8 DEF Inv, Taken
      <4>2. PICK x \in changes : x.current # 0 /\ current[x.current].id = current[c].id
        BY <4>1 DEF Inv, Books
      <4>3. x.current = c
        BY <2>1, <4>2 DEF Inv, Told, Unique, CurrentIndex
      <4>4. x.baseline # 0
        BY <4>1, <4>3 DEF Inv, Told, InNewPass, Done
      <4>5. baseline[x.baseline].id # current[x.current].id
        BY <2>1, <4>3, <4>4 DEF Inv, Told
      <4>6. x \in M
        BY <2>1, <2>3, <4>2, <4>3, <4>4, <4>5
      <4>. QED  BY <4>3, <4>6
    <3>2. Cardinality(M) = Cardinality(C)
      <4>. HIDE DEF B, C, M, f, g
      <4>. QED  BY <2>2, <2>6, <3>1, Counted
    <3>. QED  BY <2>7, <3>2 DEF Smaller
  <2>9. CASE ~\E b \in B : \E x \in changes : x.baseline = b /\ x.kind = "resolved"
    \* Each of the baseline side is told, and so in a move.
    <3>1. ASSUME NEW b \in B PROVE \E x \in M : f[x] = b
      <4>1. PICK x \in changes : x.baseline # 0 /\ baseline[x.baseline].id = baseline[b].id
        BY <2>1 DEF Inv, InNewPass, Books, Done
      <4>2. x.baseline = b
        BY <2>1, <4>1 DEF Inv, Told, Unique, BaselineIndex
      <4>3. x.current # 0
        BY <2>9, <4>2 DEF Inv, Told
      <4>4. baseline[x.baseline].id # current[x.current].id
        BY <2>1, <4>2, <4>3 DEF Inv, Told, CurrentIds
      <4>5. x \in M
        BY <2>3, <4>1, <4>2, <4>3, <4>4
      <4>. QED  BY <4>2, <4>5
    <3>2. Cardinality(M) = Cardinality(B)
      <4>. HIDE DEF B, C, M, f, g
      <4>. QED  BY <2>2, <2>5, <3>1, Counted
    <3>. QED  BY <2>7, <3>2 DEF Smaller
  <2>. QED  BY <2>8, <2>9
<1>2. Spec => []Paired
  BY PairedInit, PairedNext, DiffInvariance, PTL DEF Spec
<1>. QED  BY <1>1, <1>2, DiffInvariance, PTL
=============================================================================
